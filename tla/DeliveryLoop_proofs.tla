--------------------------- MODULE DeliveryLoop_proofs ---------------------------
(***************************************************************************)
(* Proofs about DeliveryLoop for any repositories, dependencies, batches,  *)
(* heads, checks, reviewers, gate policies and troubles.                   *)
(***************************************************************************)
EXTENDS DeliveryLoop, ChangeSet_proofs

-----------------------------------------------------------------------------
(* The shape of the loop's state. *)

\* A fact as GitHub reports it.
Facts ==
    {f \in FactType :
        /\ f.kind = "check" => f.of \in Checks /\ f.what \in CheckResult
        /\ f.kind = "review" => f.of \in Reviewers /\ f.what \in ReviewState}

GitHubShape ==
    /\ pull \in [Repos -> PullState]
    /\ pushed \in [Repos -> Heads]
    /\ target \in [Repos -> Tips]
    /\ run \in [Repos -> [Heads -> [Checks -> CheckResult \cup {"none"}]]]
    /\ given \in [Repos -> [Heads -> [Reviewers -> ReviewState \cup {"none"}]]]
    /\ revert \in [Repos -> {"none", "open", "merged"}]
    /\ inbox \subseteq Facts
CommandShape ==
    /\ queue \in [Command -> CommandStatus]
    /\ gated \subseteq Repos
\* The sweep has candidates of the ChangeSet left; one of them is having its turn.
SweepShape ==
    /\ sweep \in [pc : {"idle", "fetch", "observe", "record"}, left : SUBSET Repos,
                  pull : PullState, todo : SUBSET Facts]
    /\ sweep.left \subseteq members
    /\ sweep.pc \in {"observe", "record"} => sweep.left # {}
    /\ \A f \in sweep.todo : f.repo \in members /\ f.head = FirstHead
HookShape ==
    /\ hook \in [pc : {"idle", "observe", "tail"}, fact : Facts \cup {None}]
    /\ hook.pc # "idle" => hook.fact \in Facts /\ hook.fact.repo \in members
                           /\ hook.fact.head = FirstHead
\* The saga works on an action that is there.
SagaShape ==
    /\ saga \in [pc : {"idle", "execute", "record"}, plan : 0 .. MaxPlans,
                 action : Nat, merged : SUBSET Repos, outcome : ActionStatus]
    /\ saga.pc # "idle" => saga.plan \in DOMAIN plans /\ saga.action \in DOMAIN plans[saga.plan]
RollbackShape ==
    /\ rollback \in [pc : {"idle", "decide"}, left : SUBSET (Repos \X Heads), replay : BOOLEAN]
    /\ \A d \in rollback.left : d[1] \in members
\* The ChangeSet; candidates keep their first head.
SetShape ==
    /\ TypeOK /\ OrderInv /\ EvidenceInv /\ CursorInv
    /\ head = [r \in Repos |-> FirstHead]
    /\ Len(plans) <= MaxPlans
Shape ==
    /\ SetShape /\ GitHubShape /\ CommandShape /\ SweepShape /\ HookShape
    /\ SagaShape /\ RollbackShape
-----------------------------------------------------------------------------
(* The ChangeSet's part in a step: the processes act on it through its operations. *)

USE DepsAssumption, HeadAssumption, FiniteAssumption

SetStep ==
    \/ UNCHANGED csVars
    \/ \E S \in SUBSET Repos : Prepare(S) \/ Append_(S)
    \/ \E r \in Repos :
          \/ ObservePullRequest(r, head[r])
          \/ \E c \in Checks, result \in CheckResult : ObserveCI(r, c, result)
          \/ \E v \in Reviewers, state \in ReviewState : ObserveReview(r, v, state, head[r])
          \/ RequestMerge(r, head[r])
          \/ RecordMerge(r) /\ UNCHANGED merging
          \/ \E ready \in BOOLEAN : RecordGovernance(r, head[r], ready)
          \/ OpenCase(r, head[r]) \/ ResolveCase(r)
    \/ PlanRecovery(RecoveryActions(None))
    \/ \E p, i : \E new \in ActionStatus : RecordRecoveryAction(p, i, new)
    \/ Expire

\* What module ChangeSet proves of its own steps holds of these.
LEMMA SetStepSplits ==
    ASSUME SetStep
    PROVE  \/ [Next]_csVars
           \/ \E r \in Repos : RecordMerge(r) /\ UNCHANGED merging
           \/ \E p, i : \E new \in ActionStatus : RecordRecoveryAction(p, i, new)
<1>1. CASE \E S \in SUBSET Repos : Prepare(S) \/ Append_(S)
  BY <1>1 DEF Next, Candidates
<1>2. ASSUME NEW r \in Repos,
             \/ ObservePullRequest(r, head[r])
             \/ \E c \in Checks, result \in CheckResult : ObserveCI(r, c, result)
             \/ \E v \in Reviewers, state \in ReviewState : ObserveReview(r, v, state, head[r])
             \/ RequestMerge(r, head[r])
      PROVE  Next
  BY <1>2 DEF Next, Observations
<1>3. ASSUME NEW r \in Repos,
             \/ \E ready \in BOOLEAN : RecordGovernance(r, head[r], ready)
             \/ OpenCase(r, head[r]) \/ ResolveCase(r)
      PROVE  Next
  BY <1>3 DEF Next, Control
<1>4. CASE PlanRecovery(RecoveryActions(None))
  BY <1>4 DEF Next, Recovery
<1>5. CASE Expire
  BY <1>5 DEF Next
<1> QED BY <1>1, <1>2, <1>3, <1>4, <1>5 DEF SetStep

\* The candidates' heads stay, members and their places in the merge order stay.
LEMMA SetKeeps ==
    ASSUME TypeOK, OrderInv, SetStep
    PROVE  /\ UNCHANGED head
           /\ members \subseteq members'
           /\ \A r \in members : order'[r] = order[r]
           /\ \A r \in Repos : pr[r] => pr'[r]
           /\ \A r \in Repos : mergeSha[r] => mergeSha'[r]
<1>1. CASE UNCHANGED csVars
  BY <1>1 DEF csVars, candidateVars
<1>2. ASSUME NEW S \in SUBSET Repos, Prepare(S) \/ Append_(S)
      PROVE  /\ UNCHANGED <<head, pr, mergeSha>> /\ members \subseteq members'
             /\ \A r \in members : order'[r] = order[r]
  <2>1. UNCHANGED <<head, pr, mergeSha>> /\ Fresh(S) /\ S \cap members = {}
    BY <1>2 DEF Prepare, Append_
  <2>2. members' = members \cup S
    BY <2>1 DEF Fresh
  <2>3. \A r \in Repos \ S : order'[r] = order[r]
    BY <2>1 DEF Fresh
  <2> QED BY <2>1, <2>2, <2>3 DEF OrderInv
<1>3. ASSUME NEW r \in Repos,
             \/ ObservePullRequest(r, head[r])
             \/ \E c \in Checks, result \in CheckResult : ObserveCI(r, c, result)
             \/ \E v \in Reviewers, state \in ReviewState : ObserveReview(r, v, state, head[r])
             \/ RequestMerge(r, head[r])
      PROVE  /\ UNCHANGED <<head, members, order, mergeSha>> /\ \A q \in Repos : pr[q] => pr'[q]
  BY <1>3 DEF ObservePullRequest, ObserveCI, ObserveReview, RequestMerge, TypeOK
<1>4. ASSUME NEW r \in Repos, RecordMerge(r)
      PROVE  UNCHANGED <<head, members, order, pr>> /\ \A q \in Repos : mergeSha[q] => mergeSha'[q]
  BY <1>4 DEF RecordMerge, TypeOK
<1>5. ASSUME NEW r \in Repos,
             \/ \E ready \in BOOLEAN : RecordGovernance(r, head[r], ready)
             \/ OpenCase(r, head[r]) \/ ResolveCase(r)
      PROVE  UNCHANGED <<head, members, order, pr, mergeSha>>
  BY <1>5 DEF RecordGovernance, OpenCase, ResolveCase, candidateVars
<1>6. CASE \/ PlanRecovery(RecoveryActions(None))
           \/ \E p, i : \E new \in ActionStatus : RecordRecoveryAction(p, i, new)
           \/ Expire
  BY <1>6 DEF PlanRecovery, RecordRecoveryAction, Expire, candidateVars
<1> QED BY <1>1, <1>2, <1>3, <1>4, <1>5, <1>6 DEF SetStep

\* At most MaxPlans recovery plans.
LEMMA PlansBounded ==
    ASSUME TypeOK, SetStep, Len(plans) <= MaxPlans
    PROVE  Len(plans') <= MaxPlans
<1>1. CASE UNCHANGED plans
  BY <1>1
<1>2. CASE PlanRecovery(RecoveryActions(None))
  <2>1. Len(plans) \in Nat /\ Len(plans) < MaxPlans /\ MaxPlans \in Nat
    BY <1>2, ApprovalAssumption DEF PlanRecovery, TypeOK
  <2>2. Len(Append(plans, RecoveryActions(None))) = Len(plans) + 1
    BY DEF TypeOK
  <2> QED BY <1>2, <2>1, <2>2 DEF PlanRecovery
<1>3. ASSUME NEW p, NEW i, NEW new \in ActionStatus, RecordRecoveryAction(p, i, new)
      PROVE  Len(plans') <= MaxPlans
  <2>1. p \in DOMAIN plans /\ DOMAIN plans' = DOMAIN plans
    BY <1>3 DEF RecordRecoveryAction
  <2>2. plans' \in Seq(Seq(Action))
    BY <1>3, RecordActionType DEF PlanTypes, TypeOK
  <2> QED BY <2>1, <2>2 DEF TypeOK
<1> QED BY <1>1, <1>2, <1>3 DEF SetStep, Prepare, Append_, ObservePullRequest, ObserveCI,
        ObserveReview, RequestMerge, RecordMerge, RecordGovernance, OpenCase, ResolveCase, Expire,
        csVars, sideVars

LEMMA SetStepShape == SetShape /\ SetStep => SetShape'
<1> SUFFICES ASSUME SetShape, SetStep PROVE SetShape'
  OBVIOUS
<1>1. TypeOK /\ OrderInv /\ EvidenceInv /\ CursorInv
  BY DEF SetShape
<1>2. head' = [r \in Repos |-> FirstHead] /\ Len(plans') <= MaxPlans
  BY <1>1, SetKeeps, PlansBounded DEF SetShape
<1>3. CASE [Next]_csVars
  BY <1>1, <1>2, <1>3, TypeStep, OrderStep, EvidenceStep, CursorStep DEF SetShape
<1>4. ASSUME NEW r \in Repos, RecordMerge(r), UNCHANGED merging PROVE SetShape'
  <2>1. CandidateTypes /\ SummaryTypes /\ SideTypes /\ PlanTypes
    BY <1>1, TypeParts
  <2>2. CandidateTypes' /\ SummaryTypes'
    BY <2>1, <1>4, RecordMergeType
  <2>3. SideTypes' /\ PlanTypes'
    BY <2>1, <1>4 DEF RecordMerge, SideTypes, PlanTypes
  <2>4. TypeOK'
    BY <2>2, <2>3, TypeParts
  <2>5. OrderInv'
    BY <1>1, <1>4 DEF RecordMerge, OrderInv, OrderRespectsDeps
  <2>6. EvidenceInv' /\ CursorInv'
    <3>1. CASE CanObserveMerge(r)
      <4>1. SetRepoStatus(r, "merged") /\ UNCHANGED <<members, order, pr, ci, lastCheck, reviews>>
        BY <1>4, <3>1 DEF RecordMerge
      <4>2. r \in members
        BY <1>1, <3>1 DEF CanObserveMerge, CursorInv
      <4>3. EvidenceInv'
        BY <1>1, <3>1, <4>1 DEF CanObserveMerge, SetRepoStatus, EvidenceInv, Cleared
      <4>4. status' \in [Repos -> RepoStatus] /\ \A q \in Repos \ members' : status'[q] = "pending"
        BY <1>1, <4>1, <4>2 DEF SetRepoStatus, CursorInv, RepoStatus
      <4>5. Refresh(status', members', order')
        BY <4>1 DEF SetRepoStatus
      <4> QED BY <4>3, <4>4, <4>5, RefreshKeepsCursor
    <3>2. CASE ~CanObserveMerge(r)
      BY <1>1, <1>4, <3>2, EvidenceKept
         DEF RecordMerge, EvidenceInv, CursorInv, summaryVars, CursorOf, Pending
    <3> QED BY <3>1, <3>2
  <2> QED BY <2>4, <2>5, <2>6, <1>2 DEF SetShape
<1>5. ASSUME NEW p, NEW i, NEW new \in ActionStatus, RecordRecoveryAction(p, i, new)
      PROVE  SetShape'
  <2>1. CandidateTypes /\ SummaryTypes /\ SideTypes /\ PlanTypes
    BY <1>1, TypeParts
  <2>2. UNCHANGED <<candidateVars, cursor, cleared, snapshot, evidence, cases, merging>>
        /\ csStatus' # "delivered"
    BY <1>5 DEF RecordRecoveryAction, RecoveryStatus
  <2>3. PlanTypes' /\ csStatus' \in SetStatus
    BY <1>5, <2>1, RecordActionType
  <2>4. TypeOK'
    BY <2>1, <2>2, <2>3, CandidatesKept, SideKept, TypeParts DEF SummaryTypes
  <2>5. OrderInv' /\ EvidenceInv' /\ CursorInv'
    BY <1>1, <2>2, EvidenceKept DEF candidateVars, OrderInv, OrderRespectsDeps, EvidenceInv,
       CursorInv, CursorOf, Pending
  <2> QED BY <2>4, <2>5, <1>2 DEF SetShape
<1> QED BY <1>3, <1>4, <1>5, SetStepSplits
-----------------------------------------------------------------------------
(* The sweep's position and the due batch are well defined. *)

\* r is the candidate whose turn it is in the sweep.
Turn(r) == r \in sweep.left /\ \A q \in sweep.left : order[r] <= order[q]

LEMMA TurnIsSweepAt ==
    ASSUME OrderInv, sweep.left \subseteq members, sweep.left # {}
    PROVE  /\ Turn(SweepAt) /\ SweepAt \in members
           /\ \A r : Turn(r) => r = SweepAt
<1> DEFINE T == {order[r] : r \in sweep.left}
<1>1. T \subseteq Nat /\ T # {}
  BY DEF OrderInv
<1>0. Min(T) \in T /\ \A y \in T : Min(T) <= y
  <2> HIDE DEF T
  <2> QED BY <1>1, MinOfSet
<1>2. PICK r \in sweep.left : order[r] = Min(T)
  BY <1>0
<1>3. ASSUME NEW q \in sweep.left PROVE order[r] <= order[q]
  <2>1. order[q] \in T
    OBVIOUS
  <2> QED BY <2>1, <1>0, <1>2
<1>4. Turn(SweepAt)
  BY <1>2, <1>3 DEF SweepAt, Turn
<1>5. ASSUME NEW q, Turn(q) PROVE q = SweepAt
  <2>1. SweepAt \in members /\ q \in members
    BY <1>4, <1>5 DEF Turn
  <2>2. order[q] \in Nat /\ order[SweepAt] \in Nat
    BY <2>1 DEF OrderInv
  <2>3. order[q] = order[SweepAt]
    BY <1>4, <1>5, <2>2 DEF Turn
  <2> QED BY <2>1, <2>3 DEF OrderInv
<1> QED BY <1>4, <1>5 DEF Turn

LEMMA DueBatch ==
    ASSUME NextBatch # {}
    PROVE  Batches[Min(NextBatch)] \in SUBSET Repos
<1>1. Batches \in Seq(SUBSET Repos)
  BY BatchAssumption
<1>2. NextBatch \subseteq DOMAIN Batches /\ DOMAIN Batches \subseteq Nat
  BY <1>1 DEF NextBatch
<1>3. Min(NextBatch) \in DOMAIN Batches
  BY <1>2, MinOfSet
<1> QED BY <1>1, <1>3

\* The evidence GitHub lists is about the candidate's head.
LEMMA ListedFacts ==
    ASSUME SetShape, GitHubShape, NEW r \in Repos
    PROVE  /\ Listed(r) \subseteq Facts
           /\ \A f \in Listed(r) :
                /\ f.repo = r /\ f.head = FirstHead /\ f.kind \in {"check", "review"}
                /\ f.kind = "check" => f.what = run[r][FirstHead][f.of]
<1>1. head[r] = FirstHead /\ FirstHead \in Heads
  BY DEF SetShape
<1> DEFINE checks == run[r][FirstHead]
           revs == given[r][FirstHead]
<1>2. checks \in [Checks -> CheckResult \cup {"none"}]
      /\ revs \in [Reviewers -> ReviewState \cup {"none"}]
  BY <1>1 DEF GitHubShape
<1> HIDE DEF checks, revs
<1>3. ASSUME NEW f \in Listed(r)
      PROVE  \/ \E c \in Checks : checks[c] # "none" /\ f = Fact("check", r, c, checks[c], FirstHead)
             \/ \E v \in Reviewers : revs[v] # "none" /\ f = Fact("review", r, v, revs[v], FirstHead)
  BY <1>1, <1>3 DEF Listed, checks, revs
<1>4. ASSUME NEW f \in Listed(r)
      PROVE  /\ f \in Facts /\ f.repo = r /\ f.head = FirstHead /\ f.kind \in {"check", "review"}
             /\ f.kind = "check" => f.what = checks[f.of]
  <2>1. ASSUME NEW c \in Checks, checks[c] # "none",
               f = Fact("check", r, c, checks[c], FirstHead)
        PROVE  /\ f \in Facts /\ f.repo = r /\ f.head = FirstHead /\ f.kind \in {"check", "review"}
               /\ f.kind = "check" => f.what = checks[f.of]
    <3>1. checks[c] \in CheckResult
      BY <1>2, <2>1
    <3> QED BY <1>1, <2>1, <3>1 DEF Fact, Facts, FactType
  <2>2. ASSUME NEW v \in Reviewers, revs[v] # "none",
               f = Fact("review", r, v, revs[v], FirstHead)
        PROVE  /\ f \in Facts /\ f.repo = r /\ f.head = FirstHead /\ f.kind \in {"check", "review"}
               /\ f.kind = "check" => f.what = checks[f.of]
    <3>1. revs[v] \in ReviewState
      BY <1>2, <2>2
    <3> QED BY <1>1, <2>2, <3>1 DEF Fact, Facts, FactType
  <2> QED BY <1>3, <2>1, <2>2
<1> QED BY <1>4 DEF checks
-----------------------------------------------------------------------------
(* The steps of the loop, by what they do to the ChangeSet. *)

\* The steps that leave the ChangeSet alone.
Quiet ==
    \/ GitHub \/ SagaCrash \/ SweepStart \/ SweepDecide \/ SweepEnd \/ HookTail \/ SagaExecute
    \/ RollbackStart \/ RollbackBreaksOff
    \/ \E r \in Repos : Publish(r) \/ EnqueueMerge(r)
    \/ \E f \in inbox : HookRoute(f)
    \/ \E r \in Repos, h \in Heads : DispatchUndraft(r, h) \/ DispatchMerge(r, h)
    \/ \E c \in Command : DispatchFails(c)
\* The steps that record what the sweep or an observation has found.
Recording ==
    \/ SweepFetch \/ SweepObserve \/ SweepRecord \/ HookObserve
    \/ \E r \in Repos : RecordPublication(r)
    \/ \E r \in Repos, h \in Heads : DispatchRecords(r, h)
\* The steps that work on recovery plans.
Recovering ==
    \/ SagaClaim \/ SagaRecord \/ RollbackPlan
    \/ \E p \in 1 .. MaxPlans, i \in 1 .. (2 * Cardinality(Repos)) : ActionReported(p, i)
\* The other decisions about the ChangeSet.
Deciding ==
    \/ DeliverBatch \/ RollbackDecide \/ ValidationExpires
    \/ \E r \in Repos : Approve(r)

LEMMA Steps == LoopNext => Quiet \/ Recording \/ Recovering \/ Deciding
<1> SUFFICES ASSUME LoopNext PROVE Quiet \/ Recording \/ Recovering \/ Deciding
  OBVIOUS
<1>1. CASE GitHub \/ Finalizer
  BY <1>1 DEF Finalizer, Quiet, Recording, Deciding
<1>2. CASE Sweep \/ Hook
  BY <1>2 DEF Sweep, Hook, Quiet, Recording
<1>3. CASE Saga \/ SagaCrash \/ Rollback
  BY <1>3 DEF Saga, Rollback, Quiet, Recovering, Deciding
<1>4. CASE People \/ ValidationExpires
  BY <1>4 DEF People, Recovering, Deciding
<1>5. CASE \E r \in Repos : EnqueueMerge(r)
  BY <1>5 DEF Quiet
<1>6. ASSUME NEW c \in Command, Dispatch(c) PROVE Quiet \/ Recording
  <2>1. c[2] \in Repos /\ c[3] \in Heads
    BY DEF Command
  <2> QED BY <1>6, <2>1 DEF Dispatch, Quiet, Recording
<1> QED BY <1>1, <1>2, <1>3, <1>4, <1>5, <1>6 DEF LoopNext

LEMMA QuietSet == Quiet => UNCHANGED csVars
<1> SUFFICES ASSUME Quiet PROVE UNCHANGED csVars
  OBVIOUS
<1>1. CASE GitHub
  BY <1>1 DEF GitHub, CheckFinishes, ReviewGiven, TargetMoves, HeadMoves, HumanMerges
<1>2. CASE SagaCrash \/ SweepStart \/ SweepDecide \/ SweepEnd \/ HookTail
  BY <1>2 DEF SagaCrash, SweepStart, SweepDecide, SweepEnd, HookTail
<1>3. CASE SagaExecute \/ RollbackStart \/ RollbackBreaksOff
  BY <1>3 DEF SagaExecute, RollbackStart, RollbackBreaksOff
<1>4. CASE \E r \in Repos : Publish(r) \/ EnqueueMerge(r)
  BY <1>4 DEF Publish, EnqueueMerge
<1>5. CASE \E f \in inbox : HookRoute(f)
  BY <1>5 DEF HookRoute
<1>6. CASE \/ \E r \in Repos, h \in Heads : DispatchUndraft(r, h) \/ DispatchMerge(r, h)
           \/ \E c \in Command : DispatchFails(c)
  BY <1>6 DEF DispatchUndraft, DispatchMerge, DispatchFails
<1> QED BY <1>1, <1>2, <1>3, <1>4, <1>5, <1>6 DEF Quiet

\* What is observed has the right types.
LEMMA ObserveSet ==
    ASSUME NEW f \in Facts, Observe(f)
    PROVE  \E r \in Repos :
              \/ \E c \in Checks, result \in CheckResult : ObserveCI(r, c, result)
              \/ \E v \in Reviewers, state \in ReviewState : ObserveReview(r, v, state, head[r])
<1>1. f.repo \in Repos
  BY DEF Facts, FactType
<1>2. CASE f.kind = "check" /\ ObserveCI(f.repo, f.of, f.what)
  BY <1>1, <1>2 DEF Facts
<1>3. CASE f.kind = "review" /\ ObserveReview(f.repo, f.of, f.what, f.head)
  <2>1. f.head = head[f.repo]
    BY <1>3 DEF ObserveReview, CanObserveReview
  <2> QED BY <1>1, <1>3, <2>1 DEF Facts
<1> QED BY <1>2, <1>3 DEF Observe

LEMMA RecordingSet == Shape /\ Recording => SetStep
<1> SUFFICES ASSUME Shape, Recording PROVE SetStep
  OBVIOUS
<1>1. CASE SweepFetch
  <2>1. SweepAt \in Repos
    BY <1>1, TurnIsSweepAt DEF SweepFetch, Shape, SetShape, SweepShape, OrderInv
  <2> QED BY <1>1, <2>1 DEF SweepFetch, SetStep
<1>2. CASE SweepObserve
  <2>1. PICK f \in sweep.todo : UNCHANGED csVars \/ Observe(f)
    BY <1>2 DEF SweepObserve
  <2>2. f \in Facts
    BY <2>1 DEF Shape, SweepShape
  <2> QED BY <2>1, <2>2, ObserveSet DEF SetStep
<1>3. CASE SweepRecord
  <2>1. SweepAt \in Repos
    BY <1>3, TurnIsSweepAt DEF SweepRecord, Shape, SetShape, SweepShape, OrderInv
  <2> QED BY <1>3, <2>1 DEF SweepRecord, SetStep
<1>4. CASE HookObserve
  <2> DEFINE f == hook.fact
  <2>1. f \in Facts /\ f.repo \in Repos
    BY <1>4 DEF HookObserve, Shape, HookShape, Facts, FactType
  <2>2. CASE ObservePullRequest(f.repo, f.head)
    <3>1. f.head = head[f.repo]
      BY <2>2 DEF ObservePullRequest, CanObservePullRequest
    <3> QED BY <2>1, <2>2, <3>1 DEF SetStep
  <2>3. CASE Observe(f)
    BY <2>1, <2>3, ObserveSet DEF SetStep
  <2>4. CASE RecordMerge(f.repo) /\ UNCHANGED merging
    BY <2>1, <2>4 DEF SetStep
  <2>5. CASE UNCHANGED csVars
    BY <2>5 DEF SetStep
  <2> QED BY <1>4, <2>2, <2>3, <2>4, <2>5 DEF HookObserve
<1>5. ASSUME NEW r \in Repos, RecordPublication(r) PROVE SetStep
  BY <1>5 DEF RecordPublication, ObservePullRequest, CanObservePullRequest, SetStep
<1>6. ASSUME NEW r \in Repos, NEW h \in Heads, DispatchRecords(r, h) PROVE SetStep
  BY <1>6 DEF DispatchRecords, CanRequestMerge, SetStep
<1> QED BY <1>1, <1>2, <1>3, <1>4, <1>5, <1>6 DEF Recording

LEMMA RecoveringSet ==
    ASSUME Shape, Recovering
    PROVE  \/ UNCHANGED csVars \/ PlanRecovery(RecoveryActions(None))
           \/ \E p, i : \E new \in ActionStatus : RecordRecoveryAction(p, i, new)
<1>1. CASE SagaClaim
  BY <1>1 DEF SagaClaim, ActionStatus
<1>2. CASE SagaRecord
  <2>1. saga.outcome \in ActionStatus
    BY DEF Shape, SagaShape
  <2> QED BY <1>2, <2>1 DEF SagaRecord
<1>3. CASE RollbackPlan
  BY <1>3 DEF RollbackPlan
<1>4. ASSUME NEW p, NEW i, ActionReported(p, i)
      PROVE  \E new \in ActionStatus : RecordRecoveryAction(p, i, new)
  BY <1>4 DEF ActionReported, ActionStatus
<1> QED BY <1>1, <1>2, <1>3, <1>4 DEF Recovering

LEMMA DecidingSet ==
    ASSUME Shape, Deciding
    PROVE  \/ \E S \in SUBSET Repos : Prepare(S) \/ Append_(S)
           \/ \E r \in Repos, ready \in BOOLEAN : RecordGovernance(r, head[r], ready)
           \/ UNCHANGED csVars \/ Expire
<1>1. CASE DeliverBatch
  BY <1>1, DueBatch DEF DeliverBatch
<1>2. CASE RollbackDecide
  <2>1. PICK d \in rollback.left :
           UNCHANGED csVars \/ (d[2] = head[d[1]] /\ RecordGovernance(d[1], d[2], FALSE))
    BY <1>2 DEF RollbackDecide
  <2>2. d[1] \in Repos
    BY DEF Shape, RollbackShape
  <2> QED BY <2>1, <2>2
<1>3. CASE ValidationExpires
  BY <1>3 DEF ValidationExpires
<1>4. ASSUME NEW r \in Repos, Approve(r)
      PROVE  RecordGovernance(r, head[r], TRUE)
  BY <1>4 DEF Approve
<1> QED BY <1>1, <1>2, <1>3, <1>4 DEF Deciding

LEMMA LoopSetStep == Shape /\ [LoopNext]_vars => SetStep
<1> SUFFICES ASSUME Shape, [LoopNext]_vars PROVE SetStep
  OBVIOUS
<1>1. CASE UNCHANGED vars
  BY <1>1 DEF vars, SetStep
<1>2. CASE Quiet
  BY <1>2, QuietSet DEF SetStep
<1>3. CASE Recording
  BY <1>3, RecordingSet
<1>4. CASE Recovering
  BY <1>4, RecoveringSet DEF SetStep
<1>5. CASE Deciding
  BY <1>5, DecidingSet DEF SetStep
<1> QED BY <1>1, <1>2, <1>3, <1>4, <1>5, Steps
-----------------------------------------------------------------------------
(* Which steps change what. *)

PullSteps ==
    \/ \E r \in Repos : HumanMerges(r) \/ Publish(r)
    \/ \E r \in Repos, h \in Heads : DispatchUndraft(r, h) \/ DispatchMerge(r, h)
    \/ SagaExecute
RunSteps == \E r \in Repos, c \in Checks, result \in CheckResult : CheckFinishes(r, c, result)
GivenSteps == \E r \in Repos, v \in Reviewers, state \in ReviewState : ReviewGiven(r, v, state)
RevertSteps ==
    SagaExecute \/ \E p \in 1 .. MaxPlans, i \in 1 .. (2 * Cardinality(Repos)) : ActionReported(p, i)
InboxSteps ==
    \/ RunSteps \/ GivenSteps \/ HookTail
    \/ \E r \in Repos : HumanMerges(r) \/ Publish(r)
    \/ \E r \in Repos, h \in Heads : DispatchMerge(r, h)
QueueSteps ==
    \/ SweepEnd \/ HookTail
    \/ \E r \in Repos : EnqueueMerge(r)
    \/ \E r \in Repos, h \in Heads :
          DispatchUndraft(r, h) \/ DispatchMerge(r, h) \/ DispatchRecords(r, h)
    \/ \E c \in Command : DispatchFails(c)
GatedSteps == SweepDecide \/ HookTail \/ \E r \in Repos : EnqueueMerge(r)

Frame ==
    /\ UNCHANGED pull \/ PullSteps
    /\ UNCHANGED pushed \/ \E r \in Repos, h \in Heads : HeadMoves(r, h)
    /\ UNCHANGED target \/ \E r \in Repos, t \in Tips : TargetMoves(r, t)
    /\ UNCHANGED run \/ RunSteps
    /\ UNCHANGED given \/ GivenSteps
    /\ UNCHANGED revert \/ RevertSteps
    /\ UNCHANGED inbox \/ InboxSteps
    /\ UNCHANGED queue \/ QueueSteps
    /\ UNCHANGED gated \/ GatedSteps
    /\ UNCHANGED sweep \/ Sweep
    /\ UNCHANGED hook \/ Hook
    /\ UNCHANGED saga \/ Saga \/ SagaCrash
    /\ UNCHANGED rollback \/ Rollback

LEMMA Frames == [LoopNext]_vars => Frame
<1> SUFFICES ASSUME [LoopNext]_vars PROVE Frame
  OBVIOUS
<1>1. CASE UNCHANGED vars
  BY <1>1 DEF vars, githubVars, loopVars, Frame
<1>2. CASE GitHub
  <2>1. ASSUME NEW r \in Repos, NEW c \in Checks, NEW result \in CheckResult, CheckFinishes(r, c, result) PROVE Frame
    <3>1. UNCHANGED <<pull, pushed, target, given, revert, queue, gated,
                     sweep, hook, saga, rollback>>
      BY <2>1 DEF CheckFinishes, githubVars, loopVars
    <3> QED BY <2>1, <3>1 DEF Frame, GivenSteps, InboxSteps, RunSteps
  <2>2. ASSUME NEW r \in Repos, NEW v \in Reviewers, NEW state \in ReviewState, ReviewGiven(r, v, state) PROVE Frame
    <3>1. UNCHANGED <<pull, pushed, target, run, revert, queue, gated,
                     sweep, hook, saga, rollback>>
      BY <2>2 DEF ReviewGiven, githubVars, loopVars
    <3> QED BY <2>2, <3>1 DEF Frame, GivenSteps, InboxSteps, RunSteps
  <2>3. ASSUME NEW r \in Repos, NEW t \in Tips, TargetMoves(r, t) PROVE Frame
    <3>1. UNCHANGED <<pull, pushed, run, given, revert, inbox, queue,
                     gated, sweep, hook, saga, rollback>>
      BY <2>3 DEF TargetMoves, githubVars, loopVars
    <3> QED BY <2>3, <3>1 DEF Frame
  <2>4. ASSUME NEW r \in Repos, NEW h \in Heads, HeadMoves(r, h) PROVE Frame
    <3>1. UNCHANGED <<pull, target, run, given, revert, inbox, queue,
                     gated, sweep, hook, saga, rollback>>
      BY <2>4 DEF HeadMoves, githubVars, loopVars
    <3> QED BY <2>4, <3>1 DEF Frame
  <2>5. ASSUME NEW r \in Repos, HumanMerges(r) PROVE Frame
    <3>1. UNCHANGED <<pushed, target, run, given, revert, queue, gated,
                     sweep, hook, saga, rollback>>
      BY <2>5 DEF HumanMerges, githubVars, loopVars
    <3> QED BY <2>5, <3>1 DEF Frame, GivenSteps, InboxSteps, PullSteps, RunSteps
  <2> QED BY <1>2, <2>1, <2>2, <2>3, <2>4, <2>5 DEF GitHub
<1>3. CASE Finalizer
  <2>1. CASE DeliverBatch
    <3>1. UNCHANGED <<pull, pushed, target, run, given, revert, inbox,
                     queue, gated, sweep, hook, saga, rollback>>
      BY <2>1 DEF DeliverBatch, githubVars, loopVars
    <3> QED BY <2>1, <3>1 DEF Frame
  <2>2. ASSUME NEW r \in Repos, Publish(r) PROVE Frame
    <3>1. UNCHANGED <<pushed, target, run, given, revert, queue, gated,
                     sweep, hook, saga, rollback>>
      BY <2>2 DEF Publish, githubVars, loopVars
    <3> QED BY <2>2, <3>1 DEF Frame, GivenSteps, InboxSteps, PullSteps, RunSteps
  <2>3. ASSUME NEW r \in Repos, RecordPublication(r) PROVE Frame
    <3>1. UNCHANGED <<pull, pushed, target, run, given, revert, inbox,
                     queue, gated, sweep, hook, saga, rollback>>
      BY <2>3 DEF RecordPublication, githubVars, loopVars
    <3> QED BY <2>3, <3>1 DEF Frame
  <2> QED BY <1>3, <2>1, <2>2, <2>3 DEF Finalizer
<1>4. CASE Sweep
  <2>1. CASE SweepStart
    <3>1. UNCHANGED <<pull, pushed, target, run, given, revert, inbox,
                     queue, gated, hook, saga, rollback>>
      BY <2>1 DEF SweepStart, githubVars, loopVars
    <3> QED BY <2>1, <3>1 DEF Frame, Sweep
  <2>2. CASE SweepFetch
    <3>1. UNCHANGED <<pull, pushed, target, run, given, revert, inbox,
                     queue, gated, hook, saga, rollback>>
      BY <2>2 DEF SweepFetch, githubVars, loopVars
    <3> QED BY <2>2, <3>1 DEF Frame, Sweep
  <2>3. CASE SweepObserve
    <3>1. UNCHANGED <<pull, pushed, target, run, given, revert, inbox,
                     queue, gated, hook, saga, rollback>>
      BY <2>3 DEF SweepObserve, githubVars, loopVars
    <3> QED BY <2>3, <3>1 DEF Frame, Sweep
  <2>4. CASE SweepDecide
    <3>1. UNCHANGED <<pull, pushed, target, run, given, revert, inbox,
                     queue, hook, saga, rollback>>
      BY <2>4 DEF SweepDecide, githubVars, loopVars
    <3> QED BY <2>4, <3>1 DEF Frame, GatedSteps, Sweep
  <2>5. CASE SweepRecord
    <3>1. UNCHANGED <<pull, pushed, target, run, given, revert, inbox,
                     queue, gated, hook, saga, rollback>>
      BY <2>5 DEF SweepRecord, githubVars, loopVars
    <3> QED BY <2>5, <3>1 DEF Frame, Sweep
  <2>6. CASE SweepEnd
    <3>1. UNCHANGED <<pull, pushed, target, run, given, revert, inbox,
                     gated, hook, saga, rollback>>
      BY <2>6 DEF SweepEnd, githubVars, loopVars
    <3> QED BY <2>6, <3>1 DEF Frame, QueueSteps, Sweep
  <2> QED BY <1>4, <2>1, <2>2, <2>3, <2>4, <2>5, <2>6 DEF Sweep
<1>5. CASE Hook
  <2>1. ASSUME NEW f \in inbox, HookRoute(f) PROVE Frame
    <3>1. UNCHANGED <<pull, pushed, target, run, given, revert, inbox,
                     queue, gated, sweep, saga, rollback>>
      BY <2>1 DEF HookRoute, githubVars, loopVars
    <3> QED BY <2>1, <3>1 DEF Frame, Hook
  <2>2. CASE HookObserve
    <3>1. UNCHANGED <<pull, pushed, target, run, given, revert, inbox,
                     queue, gated, sweep, saga, rollback>>
      BY <2>2 DEF HookObserve, githubVars, loopVars
    <3> QED BY <2>2, <3>1 DEF Frame, Hook
  <2>3. CASE HookTail
    <3>1. UNCHANGED <<pull, pushed, target, run, given, revert, sweep, saga, rollback>>
      BY <2>3 DEF HookTail, githubVars, loopVars
    <3> QED BY <2>3, <3>1 DEF Frame, GatedSteps, GivenSteps, InboxSteps, QueueSteps, RunSteps, Hook
  <2> QED BY <1>5, <2>1, <2>2, <2>3 DEF Hook
<1>6. CASE Saga
  <2>1. CASE SagaClaim
    <3>1. UNCHANGED <<pull, pushed, target, run, given, revert, inbox,
                     queue, gated, sweep, hook, rollback>>
      BY <2>1 DEF SagaClaim, githubVars, loopVars
    <3> QED BY <2>1, <3>1 DEF Frame, Saga
  <2>2. CASE SagaExecute
    <3>1. UNCHANGED <<pushed, target, run, given, inbox, queue, gated,
                     sweep, hook, rollback>>
      BY <2>2 DEF SagaExecute, githubVars, loopVars
    <3> QED BY <2>2, <3>1 DEF Frame, PullSteps, RevertSteps, Saga
  <2>3. CASE SagaRecord
    <3>1. UNCHANGED <<pull, pushed, target, run, given, revert, inbox,
                     queue, gated, sweep, hook, rollback>>
      BY <2>3 DEF SagaRecord, githubVars, loopVars
    <3> QED BY <2>3, <3>1 DEF Frame, Saga
  <2> QED BY <1>6, <2>1, <2>2, <2>3 DEF Saga
<1>7. CASE SagaCrash
  <2>1. UNCHANGED <<pull, pushed, target, run, given, revert, inbox,
                   queue, gated, sweep, hook, rollback>>
    BY <1>7 DEF SagaCrash, githubVars, loopVars
  <2> QED BY <1>7, <2>1 DEF Frame
<1>8. ASSUME NEW r \in Repos, EnqueueMerge(r) PROVE Frame
  <2>1. UNCHANGED <<pull, pushed, target, run, given, revert, inbox,
                   sweep, hook, saga, rollback>>
    BY <1>8 DEF EnqueueMerge, githubVars, loopVars
  <2> QED BY <1>8, <2>1 DEF Frame, GatedSteps, QueueSteps
<1>9. ASSUME NEW c \in Command, Dispatch(c) PROVE Frame
  <2> USE DEF Command
  <2>1. CASE DispatchUndraft(c[2], c[3])
    <3>1. UNCHANGED <<pushed, target, run, given, revert, inbox, gated,
                     sweep, hook, saga, rollback>>
      BY <2>1 DEF DispatchUndraft, githubVars, loopVars
    <3> QED BY <2>1, <3>1 DEF Frame, PullSteps, QueueSteps
  <2>2. CASE DispatchMerge(c[2], c[3])
    <3>1. UNCHANGED <<pushed, target, run, given, revert, gated, sweep,
                     hook, saga, rollback>>
      BY <2>2 DEF DispatchMerge, githubVars, loopVars
    <3> QED BY <2>2, <3>1 DEF Frame, GivenSteps, InboxSteps, PullSteps, QueueSteps, RunSteps
  <2>3. CASE DispatchRecords(c[2], c[3])
    <3>1. UNCHANGED <<pull, pushed, target, run, given, revert, inbox,
                     gated, sweep, hook, saga, rollback>>
      BY <2>3 DEF DispatchRecords, githubVars, loopVars
    <3> QED BY <2>3, <3>1 DEF Frame, QueueSteps
  <2>4. CASE DispatchFails(c)
    <3>1. UNCHANGED <<pull, pushed, target, run, given, revert, inbox,
                     gated, sweep, hook, saga, rollback>>
      BY <2>4 DEF DispatchFails, githubVars, loopVars
    <3> QED BY <2>4, <3>1 DEF Frame, QueueSteps
  <2> QED BY <1>9, <2>1, <2>2, <2>3, <2>4 DEF Dispatch
<1>10. CASE People
  <2>1. ASSUME NEW r \in Repos, Approve(r) PROVE Frame
    <3>1. UNCHANGED <<pull, pushed, target, run, given, revert, inbox,
                     queue, gated, sweep, hook, saga, rollback>>
      BY <2>1 DEF Approve, githubVars, loopVars
    <3> QED BY <2>1, <3>1 DEF Frame
  <2>2. ASSUME NEW p \in 1 .. MaxPlans, NEW i \in 1 .. (2 * Cardinality(Repos)), ActionReported(p, i) PROVE Frame
    <3>1. UNCHANGED <<pull, pushed, target, run, given, inbox, queue,
                     gated, sweep, hook, saga, rollback>>
      BY <2>2 DEF ActionReported, githubVars, loopVars
    <3> QED BY <2>2, <3>1 DEF Frame, RevertSteps
  <2> QED BY <1>10, <2>1, <2>2 DEF People
<1>11. CASE Rollback
  <2>1. CASE RollbackStart
    <3>1. UNCHANGED <<pull, pushed, target, run, given, revert, inbox,
                     queue, gated, sweep, hook, saga>>
      BY <2>1 DEF RollbackStart, githubVars, loopVars
    <3> QED BY <2>1, <3>1 DEF Frame, Rollback
  <2>2. CASE RollbackDecide
    <3>1. UNCHANGED <<pull, pushed, target, run, given, revert, inbox,
                     queue, gated, sweep, hook, saga>>
      BY <2>2 DEF RollbackDecide, githubVars, loopVars
    <3> QED BY <2>2, <3>1 DEF Frame, Rollback
  <2>3. CASE RollbackPlan
    <3>1. UNCHANGED <<pull, pushed, target, run, given, revert, inbox,
                     queue, gated, sweep, hook, saga>>
      BY <2>3 DEF RollbackPlan, githubVars, loopVars
    <3> QED BY <2>3, <3>1 DEF Frame, Rollback
  <2>4. CASE RollbackBreaksOff
    <3>1. UNCHANGED <<pull, pushed, target, run, given, revert, inbox,
                     queue, gated, sweep, hook, saga>>
      BY <2>4 DEF RollbackBreaksOff, githubVars, loopVars
    <3> QED BY <2>4, <3>1 DEF Frame, Rollback
  <2> QED BY <1>11, <2>1, <2>2, <2>3, <2>4 DEF Rollback
<1>12. CASE ValidationExpires
  <2>1. UNCHANGED <<pull, pushed, target, run, given, revert, inbox,
                   queue, gated, sweep, hook, saga, rollback>>
    BY <1>12 DEF ValidationExpires, githubVars, loopVars
  <2> QED BY <1>12, <2>1 DEF Frame
<1> QED BY <1>1, <1>2, <1>3, <1>4, <1>5, <1>6, <1>7, <1>8, <1>9, <1>10, <1>11, <1>12 DEF LoopNext
-----------------------------------------------------------------------------
(* The shape is invariant. *)

\* A recovery plan keeps its actions; only their status changes.
SamePlan(A, B) ==
    /\ DOMAIN B = DOMAIN A
    /\ \A i \in DOMAIN A : B[i].kind = A[i].kind /\ B[i].repo = A[i].repo

LEMMA PlansGrow ==
    ASSUME TypeOK, SetStep, NEW p \in DOMAIN plans
    PROVE  p \in DOMAIN plans' /\ SamePlan(plans[p], plans'[p])
<1>0. plans \in Seq(Seq(Action)) /\ plans[p] \in Seq(Action)
  BY DEF TypeOK
<1>1. CASE UNCHANGED plans
  BY <1>1 DEF SamePlan
<1>2. CASE PlanRecovery(RecoveryActions(None))
  <2>1. plans' = Append(plans, RecoveryActions(None))
    BY <1>2 DEF PlanRecovery
  <2>2. p \in DOMAIN plans' /\ plans'[p] = plans[p]
    BY <2>1, <1>0
  <2> QED BY <2>2 DEF SamePlan
<1>3. ASSUME NEW k, NEW i, NEW new \in ActionStatus, RecordRecoveryAction(k, i, new)
      PROVE  p \in DOMAIN plans' /\ SamePlan(plans[p], plans'[p])
  <2>1. plans' = [plans EXCEPT ![k][i].status = new] /\ k \in DOMAIN plans /\ i \in DOMAIN plans[k]
    BY <1>3 DEF RecordRecoveryAction
  <2>2. DOMAIN plans' = DOMAIN plans /\ (p # k => plans'[p] = plans[p])
    BY <2>1, <1>0
  <2>3. p = k => plans'[p] = [plans[p] EXCEPT ![i].status = new]
    BY <2>1, <1>0
  <2>4. ASSUME p = k, NEW j \in DOMAIN plans[p]
        PROVE  plans'[p][j].kind = plans[p][j].kind /\ plans'[p][j].repo = plans[p][j].repo
    <3>1. plans[p][j] \in Action
      BY <1>0
    <3>2. plans'[p][j] = IF j = i THEN [plans[p][j] EXCEPT !.status = new] ELSE plans[p][j]
      BY <2>3, <2>4, <1>0
    <3> QED BY <3>1, <3>2 DEF Action
  <2>5. p = k => DOMAIN plans'[p] = DOMAIN plans[p]
    BY <2>3, <1>0
  <2> QED BY <2>2, <2>4, <2>5 DEF SamePlan
<1> QED BY <1>1, <1>2, <1>3 DEF SetStep, Prepare, Append_, ObservePullRequest, ObserveCI,
        ObserveReview, RequestMerge, RecordMerge, RecordGovernance, OpenCase, ResolveCase, Expire,
        csVars, sideVars

\* What every step of the loop does to the ChangeSet.
SetMove ==
    /\ SetStep /\ TypeOK /\ TypeOK' /\ OrderInv /\ SetShape /\ SetShape'
    /\ members \subseteq members' /\ members' \subseteq Repos
    /\ head = [r \in Repos |-> FirstHead] /\ UNCHANGED head
    /\ \A r \in members : order'[r] = order[r]
    /\ \A p \in DOMAIN plans : p \in DOMAIN plans' /\ SamePlan(plans[p], plans'[p])

LEMMA SetMoves ==
    ASSUME Shape, [LoopNext]_vars
    PROVE  SetMove
<1>1. SetStep /\ SetShape /\ SetShape'
  BY LoopSetStep, SetStepShape DEF Shape
<1>2. TypeOK /\ OrderInv /\ TypeOK' /\ head = [r \in Repos |-> FirstHead]
  BY <1>1 DEF SetShape
<1>3. members' \subseteq Repos
  BY <1>2 DEF TypeOK
<1> QED BY <1>1, <1>2, <1>3, SetKeeps, PlansGrow DEF SetMove

LEMMA ReportShape ==
    ASSUME inbox \subseteq Facts, NEW f \in Facts, Report(f)
    PROVE  inbox' \subseteq Facts
BY DEF Report

LEMMA InboxShape ==
    ASSUME Shape, InboxSteps
    PROVE  inbox' \subseteq Facts
<1>1. inbox \subseteq Facts /\ \A r \in Repos : pushed[r] \in Heads
  BY DEF Shape, GitHubShape
<1>2. CASE RunSteps
  <2>1. PICK r \in Repos, c \in Checks, result \in CheckResult : CheckFinishes(r, c, result)
    BY <1>2 DEF RunSteps
  <2>2. Fact("check", r, c, result, pushed[r]) \in Facts
    BY <1>1 DEF Fact, Facts, FactType
  <2> QED BY <2>1, <2>2, <1>1, ReportShape DEF CheckFinishes
<1>3. CASE GivenSteps
  <2>1. PICK r \in Repos, v \in Reviewers, state \in ReviewState : ReviewGiven(r, v, state)
    BY <1>3 DEF GivenSteps
  <2>2. Fact("review", r, v, state, pushed[r]) \in Facts
    BY <1>1 DEF Fact, Facts, FactType
  <2> QED BY <2>1, <2>2, <1>1, ReportShape DEF ReviewGiven
<1>4. ASSUME NEW r \in Repos, NEW h \in Heads, NEW kind \in {"opened", "merged"}
      PROVE  Fact(kind, r, None, None, h) \in Facts
  BY DEF Fact, Facts, FactType
<1>5. ASSUME NEW r \in Repos, HumanMerges(r) \/ Publish(r) PROVE inbox' \subseteq Facts
  BY <1>1, <1>4, <1>5, ReportShape DEF HumanMerges, Publish
<1>6. ASSUME NEW r \in Repos, NEW h \in Heads, DispatchMerge(r, h) PROVE inbox' \subseteq Facts
  BY <1>1, <1>4, <1>6, ReportShape DEF DispatchMerge
<1>7. CASE HookTail
  BY <1>1, <1>7 DEF HookTail
<1> QED BY <1>2, <1>3, <1>5, <1>6, <1>7 DEF InboxSteps

LEMMA PullShape ==
    ASSUME pull \in [Repos -> PullState], PullSteps
    PROVE  pull' \in [Repos -> PullState]
<1>1. ASSUME NEW r \in Repos, HumanMerges(r) \/ Publish(r) PROVE pull' \in [Repos -> PullState]
  BY <1>1 DEF HumanMerges, Publish, PullState
<1>2. ASSUME NEW r \in Repos, NEW h \in Heads, DispatchUndraft(r, h) \/ DispatchMerge(r, h)
      PROVE  pull' \in [Repos -> PullState]
  BY <1>2 DEF DispatchUndraft, DispatchMerge, PullState
<1>3. CASE SagaExecute
  BY <1>3 DEF SagaExecute, SagaActs, SagaRevalidate, SagaClose, SagaCreateRevert,
     SagaMergeRevert, PullState
<1> QED BY <1>1, <1>2, <1>3 DEF PullSteps

LEMMA RevertShape ==
    ASSUME revert \in [Repos -> {"none", "open", "merged"}], RevertSteps
    PROVE  revert' \in [Repos -> {"none", "open", "merged"}]
<1>1. CASE SagaExecute
  BY <1>1 DEF SagaExecute, SagaActs, SagaRevalidate, SagaClose, SagaCreateRevert,
     SagaMergeRevert
<1>2. ASSUME NEW p, NEW i, ActionReported(p, i)
      PROVE  revert' \in [Repos -> {"none", "open", "merged"}]
  BY <1>2 DEF ActionReported, Repaired
<1> QED BY <1>1, <1>2 DEF RevertSteps

LEMMA GitHubShapeStep ==
    ASSUME Shape, [LoopNext]_vars
    PROVE  GitHubShape'
<1>0. GitHubShape /\ Frame
  BY Frames DEF Shape
<1>1. pull' \in [Repos -> PullState]
  BY <1>0, PullShape DEF GitHubShape, Frame
<1>2. pushed' \in [Repos -> Heads]
  BY <1>0 DEF GitHubShape, Frame, HeadMoves
<1>3. target' \in [Repos -> Tips]
  BY <1>0 DEF GitHubShape, Frame, TargetMoves
<1>4. run' \in [Repos -> [Heads -> [Checks -> CheckResult \cup {"none"}]]]
  <2>1. CASE RunSteps
    <3>1. PICK r \in Repos, c \in Checks, result \in CheckResult :
             run' = [run EXCEPT ![r][pushed[r]][c] = result]
      BY <2>1 DEF RunSteps, CheckFinishes
    <3> QED BY <1>0, <3>1 DEF GitHubShape
  <2> QED BY <1>0, <2>1 DEF GitHubShape, Frame
<1>5. given' \in [Repos -> [Heads -> [Reviewers -> ReviewState \cup {"none"}]]]
  <2>1. CASE GivenSteps
    <3>1. PICK r \in Repos, v \in Reviewers, state \in ReviewState :
             given' = [given EXCEPT ![r][pushed[r]][v] = state]
      BY <2>1 DEF GivenSteps, ReviewGiven
    <3> QED BY <1>0, <3>1 DEF GitHubShape
  <2> QED BY <1>0, <2>1 DEF GitHubShape, Frame
<1>6. revert' \in [Repos -> {"none", "open", "merged"}]
  BY <1>0, RevertShape DEF GitHubShape, Frame
<1>7. inbox' \subseteq Facts
  BY <1>0, InboxShape DEF GitHubShape, Frame
<1> QED BY <1>1, <1>2, <1>3, <1>4, <1>5, <1>6, <1>7 DEF GitHubShape
LEMMA CommandShapeStep ==
    ASSUME Shape, [LoopNext]_vars
    PROVE  CommandShape'
<1>0. CommandShape /\ Frame
  BY Frames DEF Shape
<1>1. ASSUME NEW c, NEW s \in CommandStatus, Become(c, s) PROVE queue' \in [Command -> CommandStatus]
  BY <1>0, <1>1 DEF Become, CommandShape
<1>2. ASSUME EnqueueUndrafts PROVE queue' \in [Command -> CommandStatus]
  BY <1>0, <1>2 DEF EnqueueUndrafts, CommandShape, CommandStatus
<1>3. ASSUME NEW r \in Repos, EnqueueMerge(r) PROVE queue' \in [Command -> CommandStatus]
  BY <1>0, <1>3 DEF EnqueueMerge, Enqueued, CommandShape, CommandStatus
<1>4. ASSUME NEW r \in Repos, NEW h \in Heads,
             DispatchUndraft(r, h) \/ DispatchMerge(r, h) \/ DispatchRecords(r, h)
      PROVE  queue' \in [Command -> CommandStatus]
  BY <1>1, <1>4 DEF DispatchUndraft, DispatchMerge, DispatchRecords, CommandStatus
<1>5. ASSUME NEW c \in Command, DispatchFails(c) PROVE queue' \in [Command -> CommandStatus]
  BY <1>1, <1>5 DEF DispatchFails, CommandStatus
<1>6. queue' \in [Command -> CommandStatus]
  <2>1. CASE UNCHANGED queue
    BY <1>0, <2>1 DEF CommandShape
  <2>2. CASE SweepEnd \/ HookTail
    BY <1>2, <2>2 DEF SweepEnd, HookTail
  <2> QED BY <1>0, <2>1, <2>2, <1>3, <1>4, <1>5 DEF Frame, QueueSteps
<1>7. gated' \subseteq Repos
  <2>1. CASE UNCHANGED gated
    BY <1>0, <2>1 DEF CommandShape
  <2>2. CASE SweepDecide
    <3>1. \A r : GateOpen(r) => r \in Repos
      BY DEF GateOpen, Shape, SetShape, OrderInv
    <3> QED BY <1>0, <2>2, <3>1 DEF SweepDecide, CommandShape
  <2>3. CASE HookTail \/ \E r \in Repos : EnqueueMerge(r)
    BY <1>0, <2>3 DEF HookTail, EnqueueMerge, CommandShape
  <2> QED BY <1>0, <2>1, <2>2, <2>3 DEF Frame, GatedSteps
<1> QED BY <1>6, <1>7 DEF CommandShape

LEMMA SweepShapeStep ==
    ASSUME Shape, [LoopNext]_vars
    PROVE  SweepShape'
<1>0. SweepShape /\ Frame /\ SetMove /\ GitHubShape
  BY Frames, SetMoves DEF Shape
<1>1. CASE UNCHANGED sweep
  BY <1>0, <1>1 DEF SweepShape, SetMove
<1>2. CASE SweepRaises
  BY <1>2 DEF SweepRaises, Resting, SweepShape, PullState
<1>3. CASE SweepNext
  <2>1. sweep' = [pc |-> "fetch", left |-> sweep.left \ {SweepAt}, pull |-> "none", todo |-> {}]
    BY <1>3 DEF SweepNext
  <2>2. sweep.left \ {SweepAt} \subseteq members'
    BY <1>0 DEF SweepShape, SetMove
  <2> QED BY <2>1, <2>2, <1>0 DEF SweepShape, PullState, SetMove
<1>4. CASE SweepStart
  BY <1>0, <1>4 DEF SweepStart, SweepShape, PullState, SetMove
<1>5. CASE SweepFetch
  <2>1. SweepAt \in members /\ SweepAt \in Repos
    BY <1>0, <1>5, TurnIsSweepAt DEF SweepFetch, SetMove, SweepShape
  <2>2. CASE sweep' = [pc |-> "observe", left |-> sweep.left,
                       pull |-> pull[SweepAt], todo |-> Listed(SweepAt)]
    <3>1. Listed(SweepAt) \subseteq Facts
          /\ \A f \in Listed(SweepAt) : f.repo = SweepAt /\ f.head = FirstHead
      BY <1>0, <2>1, ListedFacts DEF SetMove
    <3>2. pull[SweepAt] \in PullState /\ sweep.left \subseteq members' /\ sweep.left # {}
      BY <1>0, <1>5, <2>1 DEF GitHubShape, SweepShape, SetMove, SweepFetch
    <3>3. /\ sweep'.pc = "observe" /\ sweep'.left = sweep.left /\ sweep'.todo = Listed(SweepAt)
          /\ sweep' \in [pc : {"idle", "fetch", "observe", "record"}, left : SUBSET Repos,
                         pull : PullState, todo : SUBSET Facts]
      BY <1>0, <2>2, <3>1, <3>2 DEF SetMove
    <3>4. \A f \in sweep'.todo : f.repo \in members' /\ f.head = FirstHead
      BY <1>0, <2>1, <3>1, <3>3 DEF SetMove
    <3> QED BY <3>2, <3>3, <3>4 DEF SweepShape
  <2> QED BY <1>5, <1>2, <1>3, <2>2 DEF SweepFetch
<1>6. CASE SweepObserve
  <2>1. CASE \E f \in sweep.todo : sweep' = [sweep EXCEPT !.todo = @ \ {f}]
    BY <1>0, <1>6, <2>1 DEF SweepShape, SetMove, SweepObserve
  <2> QED BY <1>2, <1>6, <2>1 DEF SweepObserve
<1>7. CASE SweepDecide
  <2>1. CASE SweepGoto("record")
    BY <1>0, <1>7, <2>1 DEF SweepShape, SetMove, SweepDecide, SweepGoto
  <2> QED BY <1>2, <1>3, <1>7, <2>1 DEF SweepDecide
<1>8. CASE SweepRecord \/ SweepEnd
  BY <1>2, <1>3, <1>8 DEF SweepRecord, SweepEnd
<1> QED BY <1>0, <1>1, <1>4, <1>5, <1>6, <1>7, <1>8 DEF Frame, Sweep

LEMMA HookShapeStep ==
    ASSUME Shape, [LoopNext]_vars
    PROVE  HookShape'
<1>0. HookShape /\ Frame /\ SetMove /\ inbox \subseteq Facts
  BY Frames, SetMoves DEF Shape, GitHubShape
<1>1. CASE UNCHANGED hook
  BY <1>0, <1>1 DEF HookShape, SetMove
<1>2. CASE hook' = NoHook
  BY <1>2 DEF NoHook, HookShape
<1>3. ASSUME NEW f \in inbox, HookRoute(f) PROVE HookShape'
  BY <1>0, <1>3 DEF HookRoute, HookShape, SetMove
<1>4. CASE HookObserve /\ hook' = [hook EXCEPT !.pc = "tail"]
  BY <1>0, <1>4 DEF HookObserve, HookShape, SetMove
<1> QED BY <1>0, <1>1, <1>2, <1>3, <1>4 DEF Frame, Hook, HookObserve, HookTail

LEMMA UnfinishedFirst ==
    ASSUME TypeOK, plans # << >>, Unfinished # {}
    PROVE  /\ Len(plans) \in DOMAIN plans /\ LastPlan \in Seq(Action)
           /\ Min(Unfinished) \in Unfinished /\ Min(Unfinished) \in DOMAIN LastPlan
           /\ Min(Unfinished) \in Nat
           /\ \A i \in DOMAIN LastPlan : i < Min(Unfinished) => LastPlan[i].status \in Finished
<1>1. Len(plans) \in DOMAIN plans /\ LastPlan \in Seq(Action)
  BY DEF TypeOK, LastPlan
<1>2. Unfinished \subseteq Nat
  BY <1>1 DEF Unfinished
<1>3. /\ Min(Unfinished) \in Unfinished /\ Min(Unfinished) \in Nat
      /\ \A i \in Unfinished : Min(Unfinished) <= i
  BY <1>2, MinOfSet
<1>4. \A i \in DOMAIN LastPlan : i \in Nat
  BY <1>1
<1>5. \A i \in DOMAIN LastPlan : i < Min(Unfinished) => i \notin Unfinished
  <2> DEFINE m == Min(Unfinished)
  <2>1. m \in Nat /\ \A i \in Unfinished : m <= i
    BY <1>3
  <2> HIDE DEF m
  <2>2. \A i \in DOMAIN LastPlan : i < m => i \notin Unfinished
    BY <1>4, <2>1
  <2> QED BY <2>2 DEF m
<1> QED BY <1>1, <1>2, <1>3, <1>5 DEF Unfinished

LEMMA SagaShapeStep ==
    ASSUME Shape, [LoopNext]_vars
    PROVE  SagaShape'
<1>0. SagaShape /\ Frame /\ SetMove
  BY Frames, SetMoves DEF Shape
<1>1. CASE UNCHANGED saga
  BY <1>0, <1>1 DEF SagaShape, SetMove, SamePlan
<1>2. CASE saga' = NoAction
  BY <1>2, ApprovalAssumption DEF NoAction, SagaShape, ActionStatus
<1>3. CASE SagaClaim
  <2> DEFINE i == Min(Unfinished)
  <2>1. plans # << >> /\ Unfinished # {}
        /\ saga' = [pc |-> "execute", plan |-> Len(plans), action |-> i,
                    merged |-> {r \in members : mergeSha[r]}, outcome |-> "pending"]
    BY <1>3 DEF SagaClaim
  <2>2. Len(plans) \in DOMAIN plans /\ i \in DOMAIN plans[Len(plans)] /\ i \in Nat
    BY <1>0, <2>1, UnfinishedFirst DEF SetMove, LastPlan
  <2>3. Len(plans) \in 0 .. MaxPlans
    BY <1>0, ApprovalAssumption DEF SetMove, SetShape, TypeOK
  <2>4. Len(plans) \in DOMAIN plans' /\ i \in DOMAIN plans'[Len(plans)]
    BY <1>0, <2>2 DEF SetMove, SamePlan
  <2>5. {r \in members : mergeSha[r]} \subseteq Repos
    BY <1>0 DEF SetMove
  <2> HIDE DEF i
  <2> QED BY <2>1, <2>2, <2>3, <2>4, <2>5 DEF SagaShape, ActionStatus
<1>4. CASE SagaExecute
  <2>1. PICK outcome \in ActionStatus : saga' = [saga EXCEPT !.pc = "record", !.outcome = outcome]
    BY <1>4 DEF SagaExecute, SagaReports, ActionStatus
  <2>2. saga.pc # "idle"
    BY <1>4 DEF SagaExecute
  <2> QED BY <1>0, <2>1, <2>2 DEF SagaShape, SetMove, SamePlan
<1> QED BY <1>0, <1>1, <1>2, <1>3, <1>4 DEF Frame, Saga, SagaRecord, SagaCrash

LEMMA RollbackShapeStep ==
    ASSUME Shape, [LoopNext]_vars
    PROVE  RollbackShape'
<1>0. RollbackShape /\ Frame /\ SetMove
  BY Frames, SetMoves DEF Shape
<1>1. CASE UNCHANGED rollback
  BY <1>0, <1>1 DEF RollbackShape, SetMove
<1>2. CASE rollback' = NoRollback
  BY <1>2 DEF NoRollback, RollbackShape
<1>3. CASE RollbackStart
  <2>1. PICK replay \in BOOLEAN :
           rollback' = [pc |-> "decide", replay |-> replay, left |-> {<<r, head[r]>> : r \in members}]
    BY <1>3 DEF RollbackStart
  <2>2. \A r \in members : r \in Repos /\ head[r] \in Heads /\ r \in members'
    BY <1>0 DEF SetMove, TypeOK
  <2> QED BY <2>1, <2>2 DEF RollbackShape
<1>4. CASE RollbackDecide /\ \E d : rollback' = [rollback EXCEPT !.left = @ \ {d}]
  BY <1>0, <1>4 DEF RollbackShape, SetMove
<1> QED BY <1>0, <1>1, <1>2, <1>3, <1>4 DEF Frame, Rollback, RollbackDecide, RollbackPlan,
        RollbackBreaksOff, RollbackEnds

LEMMA ShapeStep == Shape /\ [LoopNext]_vars => Shape'
BY SetMoves, GitHubShapeStep, CommandShapeStep, SweepShapeStep, HookShapeStep, SagaShapeStep,
   RollbackShapeStep DEF Shape, SetMove

LEMMA ShapeInit == LoopInit => Shape
<1> SUFFICES ASSUME LoopInit PROVE Shape
  OBVIOUS
<1>1. Init /\ TypeOK
  BY TypeInit DEF LoopInit
<1>2. OrderInv /\ EvidenceInv
  BY <1>1, FS_EmptySet DEF Init, OrderInv, OrderRespectsDeps, EvidenceInv, Cleared
<1>3. CursorInv /\ head = [r \in Repos |-> FirstHead] /\ Len(plans) <= MaxPlans
  BY <1>1, ApprovalAssumption DEF Init, CursorInv, RepoStatus
<1>4. GitHubShape
  <2>1. pushed \in [Repos -> Heads] /\ target \in [Repos -> Tips]
    BY <1>1 DEF LoopInit, Init
  <2>2. NoChecks \in [Checks -> CheckResult \cup {"none"}]
        /\ NoReviews \in [Reviewers -> ReviewState \cup {"none"}]
    BY DEF NoChecks, NoReviews
  <2> HIDE DEF NoChecks, NoReviews
  <2> QED BY <2>1, <2>2 DEF LoopInit, GitHubShape, PullState
<1>5. CommandShape
  BY DEF LoopInit, CommandShape, CommandStatus
<1>6. SweepShape /\ HookShape
  BY DEF LoopInit, SweepShape, HookShape, Resting, NoHook, PullState
<1>7. SagaShape /\ RollbackShape
  BY ApprovalAssumption DEF LoopInit, SagaShape, RollbackShape, NoAction, NoRollback, ActionStatus
<1> QED BY <1>1, <1>2, <1>3, <1>4, <1>5, <1>6, <1>7 DEF Shape, SetShape

LEMMA ShapeInvariance == LoopSpec => []Shape
BY ShapeInit, ShapeStep, PTL DEF LoopSpec

LEMMA ShapeTypes == Shape => LoopTypeOK
<1> SUFFICES ASSUME Shape PROVE LoopTypeOK
  OBVIOUS
<1>1. Facts \subseteq FactType
  BY DEF Facts
<1>2. TypeOK /\ GitHubShape /\ CommandShape
  BY DEF Shape, SetShape
<1>3. sweep \in [pc : {"idle", "fetch", "observe", "record"}, left : SUBSET Repos,
                 pull : PullState, todo : SUBSET FactType]
  BY <1>1 DEF Shape, SweepShape
<1>4. hook \in [pc : {"idle", "observe", "tail"}, fact : FactType \cup {None}]
  BY <1>1 DEF Shape, HookShape
<1>5. inbox \subseteq FactType
  BY <1>1, <1>2 DEF GitHubShape
<1> QED BY <1>2, <1>3, <1>4, <1>5
        DEF LoopTypeOK, GitHubShape, CommandShape, Shape, SagaShape, RollbackShape

\* Everything the loop keeps and exchanges is what it should be: plan indices exist,
\* actions refer to repositories, facts to checks and reviewers.
THEOREM LoopTypeCorrect == LoopSpec => []LoopTypeOK
BY ShapeInvariance, ShapeTypes, PTL
-----------------------------------------------------------------------------
(* What is known here is so on GitHub. *)

\* What a fact says, in so far as it cannot become untrue.
Holds(f) ==
    /\ f.kind = "opened" => pull[f.repo] # "none"
    /\ f.kind = "merged" => pull[f.repo] = "merged"
    /\ f.kind = "check" /\ f.what = "passed" => run[f.repo][f.head][f.of] = "passed"

\* The required checks have passed on the candidate's head.
Checked(r) == \A c \in RequiredChecks : run[r][FirstHead][c] = "passed"

FactsHold ==
    /\ \A f \in inbox : Holds(f)
    /\ \A f \in sweep.todo : Holds(f)
    /\ hook.pc # "idle" => Holds(hook.fact)
RecordsHold ==
    \A r \in Repos :
        /\ status[r] = "merged" \/ mergeSha[r] => pull[r] = "merged"
        /\ pr[r] => pull[r] # "none"
        /\ \A c \in Checks : ci[r][c] = "passed" => run[r][FirstHead][c] = "passed"
\* The sweep remembers what it read of the candidate whose turn it is.
TurnHolds ==
    /\ sweep.pc = "record" => sweep.pull = "merged"
    /\ sweep.pull = "merged" => \A r : Turn(r) => pull[r] = "merged"
CommandsHold ==
    /\ \A r \in gated : Checked(r)
    /\ \A r \in Repos, h \in Heads :
           queue[<<"merge", r, h>>] # "absent" => h = FirstHead /\ Checked(r)
Honest == FactsHold /\ RecordsHold /\ TurnHolds /\ CommandsHold

\* A pull request that is merged or closed stays so, and a check that has passed has.
LEMMA GitHubKeeps ==
    ASSUME Shape, [LoopNext]_vars
    PROVE  /\ \A r \in Repos :
                /\ pull[r] = "merged" => pull'[r] = "merged"
                /\ pull[r] = "closed" => pull'[r] = "closed"
                /\ pull[r] # "none" => pull'[r] # "none"
           /\ \A r \in Repos, h \in Heads, c \in Checks :
                run[r][h][c] = "passed" => run'[r][h][c] = "passed"
<1>0. Frame /\ GitHubShape
  BY Frames DEF Shape
<1>1. ASSUME NEW r \in Repos
      PROVE  /\ pull[r] = "merged" => pull'[r] = "merged"
             /\ pull[r] = "closed" => pull'[r] = "closed"
             /\ pull[r] # "none" => pull'[r] # "none"
  <2>1. ASSUME NEW q \in Repos, HumanMerges(q) \/ Publish(q)
        PROVE  /\ pull[r] = "merged" => pull'[r] = "merged"
               /\ pull[r] = "closed" => pull'[r] = "closed"
               /\ pull[r] # "none" => pull'[r] # "none"
    BY <1>0, <2>1 DEF GitHubShape, HumanMerges, Publish
  <2>2. ASSUME NEW q \in Repos, NEW h \in Heads, DispatchUndraft(q, h) \/ DispatchMerge(q, h)
        PROVE  /\ pull[r] = "merged" => pull'[r] = "merged"
               /\ pull[r] = "closed" => pull'[r] = "closed"
               /\ pull[r] # "none" => pull'[r] # "none"
    BY <1>0, <2>2 DEF GitHubShape, DispatchUndraft, DispatchMerge
  <2>3. CASE SagaExecute
    BY <1>0, <2>3 DEF GitHubShape, SagaExecute, SagaActs, SagaRevalidate, SagaClose,
       SagaCreateRevert, SagaMergeRevert
  <2> QED BY <1>0, <2>1, <2>2, <2>3 DEF Frame, PullSteps
<1>2. ASSUME NEW r \in Repos, NEW h \in Heads, NEW c \in Checks, run[r][h][c] = "passed"
      PROVE  run'[r][h][c] = "passed"
  <2>1. CASE RunSteps
    <3>1. PICK q \in Repos, d \in Checks, result \in CheckResult :
             /\ run' = [run EXCEPT ![q][pushed[q]][d] = result]
             /\ run[q][pushed[q]][d] # "passed"
      BY <2>1 DEF RunSteps, CheckFinishes
    <3>2. ~(q = r /\ pushed[q] = h /\ d = c)
      BY <1>2, <3>1
    <3>3. run[r] \in [Heads -> [Checks -> CheckResult \cup {"none"}]]
          /\ run[r][h] \in [Checks -> CheckResult \cup {"none"}]
      BY <1>0 DEF GitHubShape
    <3> QED BY <1>0, <1>2, <3>1, <3>2, <3>3 DEF GitHubShape
  <2> QED BY <1>0, <1>2, <2>1 DEF Frame
<1> QED BY <1>1, <1>2

LEMMA HoldsKept ==
    ASSUME Shape, [LoopNext]_vars, NEW f \in Facts, Holds(f)
    PROVE  Holds(f)'
<1>1. f.repo \in Repos /\ f.head \in Heads /\ (f.kind = "check" => f.of \in Checks)
  BY DEF Facts, FactType
<1> QED BY <1>1, GitHubKeeps DEF Holds

\* A fact is reported when it is so.
LEMMA NewFacts ==
    ASSUME Shape, [LoopNext]_vars, NEW f \in inbox', f \notin inbox
    PROVE  Holds(f)'
<1>0. Frame /\ GitHubShape
  BY Frames DEF Shape
<1>1. CASE RunSteps
  <2>1. PICK r \in Repos, c \in Checks, result \in CheckResult : CheckFinishes(r, c, result)
    BY <1>1 DEF RunSteps
  <2>2. f = Fact("check", r, c, result, pushed[r])
        /\ run' = [run EXCEPT ![r][pushed[r]][c] = result]
    BY <2>1 DEF CheckFinishes, Report
  <2>3. run'[r][pushed[r]][c] = result
    BY <1>0, <2>2 DEF GitHubShape
  <2> QED BY <2>2, <2>3 DEF Fact, Holds
<1>2. CASE GivenSteps
  BY <1>2 DEF GivenSteps, ReviewGiven, Report, Fact, Holds
<1>3. ASSUME NEW r \in Repos, HumanMerges(r) \/ Publish(r) PROVE Holds(f)'
  BY <1>0, <1>3 DEF HumanMerges, Publish, Report, Fact, Holds, GitHubShape
<1>4. ASSUME NEW r \in Repos, NEW h \in Heads, DispatchMerge(r, h) PROVE Holds(f)'
  BY <1>0, <1>4 DEF DispatchMerge, Report, Fact, Holds, GitHubShape
<1>5. CASE HookTail
  BY <1>5 DEF HookTail
<1> QED BY <1>0, <1>1, <1>2, <1>3, <1>4, <1>5 DEF Frame, InboxSteps

LEMMA FactsHoldStep ==
    ASSUME Shape, [LoopNext]_vars, FactsHold
    PROVE  FactsHold'
<1>0. Frame /\ Shape' /\ SetMove
  BY Frames, ShapeStep, SetMoves
<1>1. inbox \subseteq Facts /\ sweep.todo \subseteq Facts
  BY DEF Shape, GitHubShape, SweepShape
<1>2. ASSUME NEW f \in inbox' PROVE Holds(f)'
  <2>1. CASE f \in inbox
    BY <1>1, <2>1, HoldsKept DEF FactsHold
  <2> QED BY <2>1, NewFacts
<1>3. ASSUME NEW f \in sweep'.todo PROVE Holds(f)'
  <2>1. CASE f \in sweep.todo
    BY <1>1, <2>1, HoldsKept DEF FactsHold
  <2>2. CASE f \notin sweep.todo
    <3>0. sweep'.todo = {} \/ sweep'.todo \subseteq sweep.todo
          \/ (SweepFetch /\ sweep'.todo = Listed(SweepAt))
      <4>1. CASE SweepRaises \/ SweepNext
        BY <4>1 DEF SweepRaises, SweepNext, Resting
      <4>2. CASE SweepStart \/ SweepFetch
        BY <4>1, <4>2 DEF SweepStart, SweepFetch
      <4>3. CASE SweepObserve
        <5>1. SweepRaises \/ \E g \in sweep.todo : sweep' = [sweep EXCEPT !.todo = @ \ {g}]
          BY <4>3 DEF SweepObserve
        <5> QED BY <4>1, <5>1 DEF Shape, SweepShape
      <4>4. CASE SweepDecide
        BY <4>1, <4>4 DEF SweepDecide, SweepGoto, Shape, SweepShape
      <4>5. CASE SweepRecord \/ SweepEnd
        BY <4>1, <4>5 DEF SweepRecord, SweepEnd
      <4> QED BY <1>0, <4>2, <4>3, <4>4, <4>5 DEF Frame, Sweep
    <3>1. SweepFetch /\ f \in Listed(SweepAt) /\ UNCHANGED run
      BY <1>3, <2>2, <3>0 DEF SweepFetch, githubVars
    <3>2. SweepAt \in Repos
      BY <1>0, <3>1, TurnIsSweepAt DEF SweepFetch, Shape, SweepShape, SetMove
    <3>3. f.repo = SweepAt /\ f.head = FirstHead /\ f.kind \in {"check", "review"}
          /\ (f.kind = "check" => f.what = run[SweepAt][FirstHead][f.of])
      BY <3>1, <3>2, ListedFacts DEF Shape
    <3> QED BY <3>1, <3>3 DEF Holds
  <2> QED BY <2>1, <2>2
<1>5. ASSUME hook'.pc # "idle" PROVE \E f \in Facts : f = hook'.fact /\ Holds(f)
  <2>1. CASE \E f \in inbox : HookRoute(f)
    BY <1>1, <2>1 DEF HookRoute, FactsHold
  <2>2. CASE ~\E f \in inbox : HookRoute(f)
    <3>1. hook.pc # "idle" /\ hook'.fact = hook.fact
      BY <1>0, <1>5, <2>2 DEF Frame, Hook, HookObserve, HookTail, NoHook, Shape, HookShape
    <3> QED BY <3>1 DEF FactsHold, Shape, HookShape
  <2> QED BY <2>1, <2>2
<1>6. ASSUME hook'.pc # "idle" PROVE Holds(hook.fact)'
  <2>1. PICK f \in Facts : f = hook'.fact /\ Holds(f)
    BY <1>5, <1>6
  <2>2. Holds(f)'
    BY <2>1, HoldsKept
  <2> QED BY <2>1, <2>2 DEF Holds
<1> QED BY <1>2, <1>3, <1>6 DEF FactsHold
\* A candidate is merged on file only by an observation of its merge.
RecordHolds(r) ==
    /\ status[r] = "merged" \/ mergeSha[r] => pull[r] = "merged"
    /\ pr[r] => pull[r] # "none"
    /\ \A c \in Checks : ci[r][c] = "passed" => run[r][FirstHead][c] = "passed"

LEMMA RecordKept ==
    ASSUME Shape, [LoopNext]_vars, NEW r \in Repos, RecordHolds(r),
           status'[r] = "merged" => status[r] = "merged",
           UNCHANGED <<mergeSha, pr, ci>>
    PROVE  RecordHolds(r)'
BY GitHubKeeps DEF RecordHolds

LEMMA ReadinessNotMerged ==
    ASSUME NEW checks, NEW last, NEW revs
    PROVE  Readiness(checks, last, revs) # "merged"
BY DEF Readiness

\* An observed check result that holds.
LEMMA ObserveHolds ==
    ASSUME Shape, [LoopNext]_vars, RecordsHold, NEW f \in Facts, Holds(f), f.head = FirstHead,
           Observe(f), NEW r \in Repos
    PROVE  RecordHolds(r)'
<1>0. RecordHolds(r) /\ f.repo \in Repos /\ Holds(f)'
  BY HoldsKept DEF RecordsHold, RecordHolds, Facts, FactType
<1>1. status \in [Repos -> RepoStatus] /\ ci \in [Repos -> [Checks -> CheckResult \cup {"none"}]]
  BY DEF Shape, SetShape, TypeOK
<1>2. CASE f.kind = "review" /\ ObserveReview(f.repo, f.of, f.what, f.head)
  <2>1. status'[r] = "merged" => status[r] = "merged"
    BY <1>0, <1>1, <1>2, ReadinessNotMerged DEF ObserveReview, SetRepoStatus
  <2> QED BY <1>0, <1>2, <2>1, RecordKept DEF ObserveReview
<1>3. CASE f.kind = "check" /\ ObserveCI(f.repo, f.of, f.what)
  <2>1. status'[r] = "merged" => status[r] = "merged"
    BY <1>0, <1>1, <1>3, ReadinessNotMerged DEF ObserveCI, SetRepoStatus
  <2>2. UNCHANGED <<mergeSha, pr>> /\ ci' = [ci EXCEPT ![f.repo] = [@ EXCEPT ![f.of] = f.what]]
    BY <1>3 DEF ObserveCI
  <2>3. ASSUME NEW c \in Checks, ci'[r][c] = "passed" PROVE run'[r][FirstHead][c] = "passed"
    <3>1. CASE r = f.repo /\ c = f.of
      <4>1. f.what = "passed"
        BY <1>0, <1>1, <2>2, <2>3, <3>1
      <4> QED BY <1>0, <1>3, <3>1, <4>1 DEF Holds
    <3>2. CASE ~(r = f.repo /\ c = f.of)
      <4>1. ci[r][c] = "passed"
        BY <1>0, <1>1, <2>2, <2>3, <3>2
      <4> QED BY <1>0, <4>1, GitHubKeeps DEF RecordHolds
    <3> QED BY <3>1, <3>2
  <2> QED BY <1>0, <2>1, <2>2, <2>3, GitHubKeeps DEF RecordHolds
<1> QED BY <1>2, <1>3 DEF Observe

\* The record of a merge that has taken place.
LEMMA RecordMergeHolds ==
    ASSUME Shape, [LoopNext]_vars, RecordsHold, NEW q \in Repos, pull[q] = "merged",
           RecordMerge(q), NEW r \in Repos
    PROVE  RecordHolds(r)'
<1>0. RecordHolds(r) /\ pull'[q] = "merged"
  BY GitHubKeeps DEF RecordsHold, RecordHolds
<1>1. status \in [Repos -> RepoStatus] /\ mergeSha \in [Repos -> BOOLEAN]
  BY DEF Shape, SetShape, TypeOK
<1>2. r # q => (status'[r] = "merged" => status[r] = "merged") /\ (mergeSha'[r] => mergeSha[r])
  BY <1>1 DEF RecordMerge, SetRepoStatus
<1>3. UNCHANGED <<pr, ci>>
  BY DEF RecordMerge
<1> QED BY <1>0, <1>2, <1>3, GitHubKeeps DEF RecordHolds

LEMMA RecordsHoldStep ==
    ASSUME Shape, [LoopNext]_vars, Honest
    PROVE  RecordsHold'
<1> SUFFICES ASSUME NEW r \in Repos PROVE RecordHolds(r)'
  BY DEF RecordsHold, RecordHolds
<1>0. RecordHolds(r) /\ RecordsHold
  BY DEF Honest, RecordsHold, RecordHolds
<1>1. CASE UNCHANGED csVars
  BY <1>0, <1>1, RecordKept DEF csVars, candidateVars
<1>2. CASE Recovering
  <2>1. UNCHANGED candidateVars
    BY <1>2, RecoveringSet DEF csVars, PlanRecovery, RecordRecoveryAction
  <2> QED BY <1>0, <2>1, RecordKept DEF candidateVars
<1>3. CASE Deciding
  <2>1. UNCHANGED <<status, mergeSha, pr, ci>>
    BY <1>3, DecidingSet DEF csVars, candidateVars, Prepare, Append_, RecordGovernance, Expire
  <2> QED BY <1>0, <2>1, RecordKept
<1>4. CASE SweepFetch
  BY <1>0, <1>1, <1>4, RecordKept DEF SweepFetch, OpenCase, ResolveCase, candidateVars
<1>5. CASE SweepObserve
  <2>1. PICK f \in sweep.todo : UNCHANGED csVars \/ Observe(f)
    BY <1>5 DEF SweepObserve
  <2>2. f \in Facts /\ f.head = FirstHead /\ Holds(f)
    BY <2>1 DEF Shape, SweepShape, Honest, FactsHold
  <2> QED BY <1>0, <1>1, <2>1, <2>2, ObserveHolds
<1>6. CASE SweepRecord
  <2>1. SweepAt \in Repos /\ Turn(SweepAt)
    BY <1>6, TurnIsSweepAt DEF SweepRecord, Shape, SetShape, SweepShape, OrderInv
  <2>2. pull[SweepAt] = "merged"
    BY <1>6, <2>1 DEF SweepRecord, Honest, TurnHolds
  <2> QED BY <1>0, <1>6, <2>1, <2>2, RecordMergeHolds DEF SweepRecord
<1>7. CASE HookObserve
  <2> DEFINE f == hook.fact
  <2>1. f \in Facts /\ f.head = FirstHead /\ Holds(f) /\ f.repo \in Repos
    BY <1>7 DEF HookObserve, Shape, HookShape, Honest, FactsHold, Facts, FactType
  <2>2. CASE Observe(f)
    BY <1>0, <2>1, <2>2, ObserveHolds
  <2>3. CASE f.kind = "opened" /\ ObservePullRequest(f.repo, f.head)
    <3>1. /\ pr' = [pr EXCEPT ![f.repo] = TRUE] /\ UNCHANGED <<mergeSha, ci>>
          /\ status' = [status EXCEPT ![f.repo] = "pr_open"]
      BY <2>3 DEF ObservePullRequest, SetRepoStatus
    <3>2. status \in [Repos -> RepoStatus] /\ pr \in [Repos -> BOOLEAN]
      BY DEF Shape, SetShape, TypeOK
    <3>3. pull[f.repo] # "none"
      BY <2>1, <2>3 DEF Holds
    <3>4. (pr'[r] => pr[r] \/ r = f.repo) /\ (status'[r] = "merged" => status[r] = "merged")
      BY <3>1, <3>2
    <3> QED BY <1>0, <2>1, <3>1, <3>3, <3>4, GitHubKeeps DEF RecordHolds
  <2>4. CASE f.kind = "merged" /\ RecordMerge(f.repo)
    BY <1>0, <2>1, <2>4, RecordMergeHolds DEF Holds
  <2> QED BY <1>1, <1>7, <2>2, <2>3, <2>4 DEF HookObserve
<1>8. ASSUME NEW q \in Repos, RecordPublication(q) PROVE RecordHolds(r)'
  <2>1. /\ pr' = [pr EXCEPT ![q] = TRUE] /\ UNCHANGED <<mergeSha, ci>> /\ pull[q] # "none"
        /\ status' = [status EXCEPT ![q] = "pr_open"]
    BY <1>8 DEF RecordPublication, ObservePullRequest, SetRepoStatus
  <2>2. status \in [Repos -> RepoStatus] /\ pr \in [Repos -> BOOLEAN]
    BY DEF Shape, SetShape, TypeOK
  <2>3. (pr'[r] => pr[r] \/ r = q) /\ (status'[r] = "merged" => status[r] = "merged")
    BY <2>1, <2>2
  <2> QED BY <1>0, <2>1, <2>3, GitHubKeeps DEF RecordHolds
<1>9. ASSUME NEW q \in Repos, NEW h \in Heads, DispatchRecords(q, h) PROVE RecordHolds(r)'
  <2>1. CASE RequestMerge(q, h)
    <3>1. status \in [Repos -> RepoStatus]
      BY DEF Shape, SetShape, TypeOK
    <3>2. status' = [status EXCEPT ![q] = "merge_requested"] /\ UNCHANGED <<mergeSha, pr, ci>>
      BY <2>1 DEF RequestMerge, SetRepoStatus
    <3>3. status'[r] = "merged" => status[r] = "merged"
      BY <3>1, <3>2
    <3> QED BY <1>0, <3>2, <3>3, RecordKept
  <2> QED BY <1>1, <1>9, <2>1 DEF DispatchRecords
<1>10. CASE Quiet \/ UNCHANGED vars
  BY <1>1, <1>10, QuietSet DEF vars
<1> QED BY <1>2, <1>3, <1>4, <1>5, <1>6, <1>7, <1>8, <1>9, <1>10, Steps DEF Recording
LEMMA TurnHoldsStep ==
    ASSUME Shape, [LoopNext]_vars, TurnHolds
    PROVE  TurnHolds'
<1>0. Frame /\ SetMove /\ SweepShape /\ SweepShape'
  BY Frames, SetMoves, ShapeStep DEF Shape
<1>1. ASSUME sweep'.left = sweep.left, NEW r, Turn(r)' PROVE Turn(r) /\ r \in Repos
  <2>1. r \in sweep.left /\ \A q \in sweep.left : order'[r] <= order'[q]
    BY <1>1 DEF Turn
  <2>2. \A q \in sweep.left : q \in members /\ order'[q] = order[q]
    BY <1>0 DEF SetMove, SweepShape
  <2> QED BY <1>0, <2>1, <2>2 DEF Turn, SetMove
<1>2. CASE UNCHANGED sweep
  BY <1>1, <1>2, GitHubKeeps DEF TurnHolds
<1>3. CASE SweepRaises \/ SweepNext
  BY <1>3 DEF SweepRaises, SweepNext, Resting, TurnHolds
<1>4. CASE SweepStart
  BY <1>4 DEF SweepStart, TurnHolds
<1>5. CASE SweepFetch
  <2>1. CASE sweep' = [pc |-> "observe", left |-> sweep.left,
                       pull |-> pull[SweepAt], todo |-> Listed(SweepAt)]
    <3>1. ASSUME NEW r, Turn(r)' PROVE r = SweepAt /\ r \in Repos
      BY <1>0, <1>1, <1>5, <2>1, <3>1, TurnIsSweepAt DEF SweepFetch, SetMove, SweepShape
    <3> QED BY <2>1, <3>1, GitHubKeeps DEF TurnHolds
  <2> QED BY <1>3, <1>5, <2>1 DEF SweepFetch
<1>6. CASE SweepObserve
  <2>1. CASE \E f \in sweep.todo : sweep' = [sweep EXCEPT !.todo = @ \ {f}]
    <3>1. sweep'.left = sweep.left /\ sweep'.pull = sweep.pull /\ sweep'.pc = sweep.pc
      BY <1>0, <2>1 DEF SweepShape
    <3> QED BY <1>1, <3>1, GitHubKeeps DEF TurnHolds
  <2> QED BY <1>3, <1>6, <2>1 DEF SweepObserve
<1>7. CASE SweepDecide
  <2>1. CASE sweep.pull = "merged" /\ SweepGoto("record")
    <3>1. sweep'.left = sweep.left /\ sweep'.pull = "merged" /\ sweep'.pc = "record"
      BY <1>0, <2>1 DEF SweepShape, SweepGoto
    <3> QED BY <1>1, <2>1, <3>1, GitHubKeeps DEF TurnHolds
  <2> QED BY <1>3, <1>7, <2>1 DEF SweepDecide
<1> QED BY <1>0, <1>2, <1>3, <1>4, <1>5, <1>6, <1>7 DEF Frame, Sweep, SweepRecord, SweepEnd

LEMMA ReadyChecks ==
    ASSUME NEW checks, NEW last, NEW revs, Readiness(checks, last, revs) = "ready_to_merge"
    PROVE  \A c \in RequiredChecks : checks[c] = "passed"
BY DEF Readiness

LEMMA GateChecked ==
    ASSUME Shape, RecordsHold, NEW r, GateOpen(r)
    PROVE  r \in Repos /\ Checked(r)
<1>1. r \in Repos /\ status[r] \in Cleared
  BY DEF GateOpen, Cleared, Shape, SetShape, OrderInv
<1>2. Readiness(ci[r], lastCheck[r], reviews[r]) = "ready_to_merge"
  BY <1>1 DEF Shape, SetShape, EvidenceInv
<1>3. \A c \in RequiredChecks : ci[r][c] = "passed"
  BY <1>2, ReadyChecks
<1> QED BY <1>1, <1>3, CheckAssumption DEF RecordsHold, Checked

\* A merge command comes from EnqueueMerge, for the candidate's head.
LEMMA MergeCommands ==
    ASSUME Shape, [LoopNext]_vars, NEW r \in Repos, NEW h \in Heads,
           queue'[<<"merge", r, h>>] # "absent", queue[<<"merge", r, h>>] = "absent"
    PROVE  EnqueueMerge(r) /\ h = FirstHead /\ r \in gated /\ pull[r] = "open" /\ pushed[r] = h
<1> DEFINE m == <<"merge", r, h>>
<1>0. Frame /\ queue \in [Command -> CommandStatus] /\ head[r] = FirstHead /\ m \in Command
  BY Frames DEF Shape, CommandShape, SetShape, Command
<1>1. ASSUME NEW c, NEW s, Become(c, s), queue[c] # "absent" PROVE FALSE
  BY <1>0, <1>1 DEF Become
<1>2. ~EnqueueUndrafts
  BY <1>0 DEF EnqueueUndrafts
<1>3. ASSUME NEW q \in Repos, EnqueueMerge(q)
      PROVE  q = r /\ h = FirstHead /\ r \in gated /\ pull[r] = "open" /\ pushed[r] = h
  <2>1. q \in gated /\ pull[q] = "open" /\ pushed[q] = head[q] /\ head[q] = FirstHead
        /\ queue' = Enqueued(queue, "merge", q, head[q])
    BY <1>0, <1>3 DEF EnqueueMerge, Shape, SetShape
  <2>2. <<"merge", q, head[q]>> = m
    BY <1>0, <2>1 DEF Enqueued
  <2> QED BY <2>1, <2>2
<1>4. ~\E q \in Repos, g \in Heads :
         DispatchUndraft(q, g) \/ DispatchMerge(q, g) \/ DispatchRecords(q, g)
  BY <1>1 DEF DispatchUndraft, DispatchMerge, DispatchRecords
<1>5. ~\E c \in Command : DispatchFails(c)
  BY <1>1 DEF DispatchFails
<1>6. ~SweepEnd /\ ~HookTail /\ queue' # queue
  BY <1>2 DEF SweepEnd, HookTail
<1>7. PICK q \in Repos : EnqueueMerge(q)
  BY <1>0, <1>4, <1>5, <1>6 DEF Frame, QueueSteps
<1> QED BY <1>3, <1>7

LEMMA CommandsHoldStep ==
    ASSUME Shape, [LoopNext]_vars, Honest
    PROVE  CommandsHold'
<1>0. Frame /\ CommandsHold /\ RecordsHold /\ gated \subseteq Repos /\ FirstHead \in Heads
  BY Frames DEF Honest, Shape, CommandShape
<1>1. ASSUME NEW r \in Repos, Checked(r) PROVE Checked(r)'
  BY <1>0, <1>1, GitHubKeeps, CheckAssumption DEF Checked
<1>2. ASSUME NEW r \in gated' PROVE Checked(r)'
  <2>1. r \in gated \/ GateOpen(r)
    BY <1>0, <1>2 DEF Frame, GatedSteps, SweepDecide, HookTail, EnqueueMerge
  <2> QED BY <1>0, <1>1, <2>1, GateChecked DEF CommandsHold
<1>3. ASSUME NEW r \in Repos, NEW h \in Heads, queue'[<<"merge", r, h>>] # "absent"
      PROVE  h = FirstHead /\ Checked(r)'
  <2>1. h = FirstHead /\ Checked(r)
    BY <1>0, <1>3, MergeCommands DEF CommandsHold
  <2> QED BY <1>1, <2>1
<1> QED BY <1>2, <1>3 DEF CommandsHold

LEMMA HonestStep == Shape /\ Honest /\ [LoopNext]_vars => Honest'
BY FactsHoldStep, RecordsHoldStep, TurnHoldsStep, CommandsHoldStep DEF Honest

LEMMA HonestInit == LoopInit => Honest
<1> SUFFICES ASSUME LoopInit PROVE Honest
  OBVIOUS
<1>1. Init
  BY DEF LoopInit
<1>2. FactsHold /\ TurnHolds
  BY DEF LoopInit, FactsHold, TurnHolds, Resting, NoHook, Turn
<1>3. RecordsHold
  BY <1>1 DEF Init, RecordsHold, NoChecks
<1>4. CommandsHold
  BY DEF LoopInit, CommandsHold, Command
<1> QED BY <1>2, <1>3, <1>4 DEF Honest

LEMMA HonestInvariance == LoopSpec => [](Shape /\ Honest)
<1>1. LoopInit => Shape /\ Honest
  BY ShapeInit, HonestInit
<1>2. Shape /\ Honest /\ [LoopNext]_vars => (Shape /\ Honest)'
  BY ShapeStep, HonestStep
<1> QED BY <1>1, <1>2, PTL DEF LoopSpec

\* A candidate is recorded merged only when GitHub has merged it, although the sweep, the
\* hook and the dispatcher act on what they read some steps before.
THEOREM MergedIsRealCorrect == LoopSpec => []MergedIsReal
<1>1. Honest => MergedIsReal
  BY DEF Honest, RecordsHold, MergedIsReal
<1> QED BY <1>1, HonestInvariance, PTL

\* A merge that a command performs on GitHub is one of a head whose required checks have
\* passed: the command carries the head the gate was opened for.
LEMMA CheckedMergeStep ==
    ASSUME Shape, Honest, [LoopNext]_vars, NEW r \in Repos, NEW c \in RequiredChecks,
           pull[r] # "merged", pull'[r] = "merged", queue' # queue
    PROVE  run[r][pushed[r]][c] = "passed"
<1>0. Frame /\ GitHubShape /\ CommandsHold
  BY Frames DEF Shape, Honest
<1>1. ASSUME NEW q \in Repos PROVE ~HumanMerges(q) /\ ~Publish(q)
  BY DEF HumanMerges, Publish, loopVars
<1>2. ~SagaExecute
  BY DEF SagaExecute
<1>3. ASSUME NEW q \in Repos, NEW h \in Heads PROVE ~DispatchUndraft(q, h)
  <2> SUFFICES ASSUME DispatchUndraft(q, h) PROVE FALSE
    OBVIOUS
  <2>1. pull' = [pull EXCEPT ![q] = IF @ = "draft" THEN "open" ELSE @]
    BY DEF DispatchUndraft
  <2> QED BY <1>0, <2>1 DEF GitHubShape
<1>4. PICK q \in Repos, h \in Heads : DispatchMerge(q, h)
  BY <1>0, <1>1, <1>2, <1>3 DEF Frame, PullSteps
<1>5. q = r /\ queue[<<"merge", q, h>>] = "pending" /\ pushed[q] = h
  BY <1>0, <1>4 DEF DispatchMerge, GitHubShape
<1>6. h = FirstHead /\ Checked(r)
  BY <1>0, <1>5 DEF CommandsHold
<1> QED BY <1>5, <1>6 DEF Checked

THEOREM CheckedMergeCorrect == LoopSpec => CheckedMerge
<1>1. Shape /\ Honest /\ [LoopNext]_vars
      => [\A r \in Repos, c \in RequiredChecks :
            (pull[r] # "merged" /\ pull'[r] = "merged" /\ queue' # queue)
            => run[r][pushed[r]][c] = "passed"]_vars
  BY CheckedMergeStep
<1> QED BY <1>1, HonestInvariance, PTL DEF LoopSpec, CheckedMerge
-----------------------------------------------------------------------------
(* What happens to the actions of recovery plans. *)

\* The compensation of one candidate.
LEMMA Compensations ==
    ASSUME NEW r \in Repos, pr \in [Repos -> BOOLEAN]
    PROVE  /\ \A m \in 1 .. Len(CompensationOf(r)) :
                /\ CompensationOf(r)[m].repo = r /\ CompensationOf(r)[m].status = "pending"
                /\ \/ /\ status[r] = "merged"
                      /\ CompensationOf(r)[m].kind \in {"create_revert", "merge_revert"}
                   \/ /\ status[r] # "merged" /\ pr[r]
                      /\ CompensationOf(r)[m].kind = "close_pull_request"
           /\ status[r] = "merged" =>
                \E m \in 1 .. Len(CompensationOf(r)) : CompensationOf(r)[m].kind = "merge_revert"
           /\ status[r] # "merged" /\ pr[r] =>
                \E m \in 1 .. Len(CompensationOf(r)) : CompensationOf(r)[m].kind = "close_pull_request"
<1> DEFINE x == [kind |-> "create_revert", repo |-> r, status |-> "pending"]
           y == [kind |-> "merge_revert", repo |-> r, status |-> "pending"]
           z == [kind |-> "close_pull_request", repo |-> r, status |-> "pending"]
           C == CompensationOf(r)
<1>1. x.kind = "create_revert" /\ x.repo = r /\ x.status = "pending"
      /\ y.kind = "merge_revert" /\ y.repo = r /\ y.status = "pending"
      /\ z.kind = "close_pull_request" /\ z.repo = r /\ z.status = "pending"
  OBVIOUS
<1>2. CASE status[r] = "merged"
  <2>1. C = << x, y >>
    BY <1>2 DEF CompensationOf
  <2> HIDE DEF x, y, z, C
  <2>2. Len(C) = 2 /\ C[1] = x /\ C[2] = y
    BY <2>1
  <2>3. \A m \in 1 .. Len(C) : C[m] = x \/ C[m] = y
    BY <2>2
  <2>4. 2 \in 1 .. Len(C)
    BY <2>2
  <2>5. \A m \in 1 .. Len(C) : C[m].repo = r /\ C[m].status = "pending"
                               /\ C[m].kind \in {"create_revert", "merge_revert"}
    BY <2>3, <1>1
  <2>6. \E m \in 1 .. Len(C) : C[m].kind = "merge_revert"
    BY <2>2, <2>4, <1>1
  <2> QED BY <1>2, <2>5, <2>6 DEF C
<1>3. CASE status[r] # "merged" /\ pr[r]
  <2>1. C = << z >>
    BY <1>3 DEF CompensationOf
  <2> HIDE DEF x, y, z, C
  <2>2. Len(C) = 1 /\ C[1] = z
    BY <2>1
  <2>3. \A m \in 1 .. Len(C) : C[m] = z
    BY <2>2
  <2>4. 1 \in 1 .. Len(C)
    BY <2>2
  <2>5. \A m \in 1 .. Len(C) : C[m].repo = r /\ C[m].status = "pending"
                               /\ C[m].kind = "close_pull_request"
    BY <2>3, <1>1
  <2>6. \E m \in 1 .. Len(C) : C[m].kind = "close_pull_request"
    BY <2>2, <2>4, <1>1
  <2> QED BY <1>3, <2>5, <2>6 DEF C
<1>4. CASE status[r] # "merged" /\ ~pr[r]
  <2>1. CompensationOf(r) = << >>
    BY <1>4 DEF CompensationOf
  <2>2. 1 .. Len(CompensationOf(r)) = {}
    BY <2>1
  <2> QED BY <1>4, <2>2
<1> QED BY <1>2, <1>3, <1>4

\* A plan of the whole ChangeSet, as RollbackPlan makes it.
FreshPlan(A) ==
    /\ A \in Seq(Action) /\ Len(A) \in Nat \ {0} /\ A[Len(A)] = Revalidate
    /\ \A i \in 1 .. (Len(A) - 1) :
          /\ A[i].repo \in members /\ A[i].status = "pending"
          /\ \/ status[A[i].repo] = "merged" /\ A[i].kind \in {"create_revert", "merge_revert"}
             \/ /\ status[A[i].repo] # "merged" /\ pr[A[i].repo]
                /\ A[i].kind = "close_pull_request"
    /\ \A i, j \in 1 .. (Len(A) - 1) : i < j => order[A[i].repo] >= order[A[j].repo]
    /\ \A r \in members :
          /\ status[r] = "merged" =>
                \E i \in 1 .. (Len(A) - 1) : A[i].repo = r /\ A[i].kind = "merge_revert"
          /\ status[r] # "merged" /\ pr[r] =>
                \E i \in 1 .. (Len(A) - 1) : A[i].repo = r /\ A[i].kind = "close_pull_request"

LEMMA NewPlan == Shape => FreshPlan(RecoveryActions(None))
<1> SUFFICES ASSUME Shape PROVE FreshPlan(RecoveryActions(None))
  OBVIOUS
<1> DEFINE A == RecoveryActions(None)
<1>0. OrderInv /\ pr \in [Repos -> BOOLEAN] /\ members \subseteq Repos
  BY DEF Shape, SetShape, TypeOK
<1>1. PlansFor(A, members)
  <2>1. {r \in members : None = None \/ r = None} = members
    OBVIOUS
  <2> QED BY <1>0, <2>1, RecoveryPlan
<1> HIDE DEF A
<1>2. ASSUME NEW i \in 1 .. (Len(A) - 1)
      PROVE  /\ A[i].repo \in members /\ A[i].status = "pending"
             /\ \/ status[A[i].repo] = "merged" /\ A[i].kind \in {"create_revert", "merge_revert"}
                \/ /\ status[A[i].repo] # "merged" /\ pr[A[i].repo]
                   /\ A[i].kind = "close_pull_request"
  <2>1. A[i].repo \in members
    BY <1>1 DEF PlansFor
  <2>2. PICK m \in 1 .. Len(CompensationOf(A[i].repo)) : A[i] = CompensationOf(A[i].repo)[m]
    BY <1>1 DEF PlansFor
  <2> QED BY <1>0, <2>1, <2>2, Compensations
<1>3. ASSUME NEW r \in members, status[r] = "merged"
      PROVE  \E i \in 1 .. (Len(A) - 1) : A[i].repo = r /\ A[i].kind = "merge_revert"
  <2>1. PICK m \in 1 .. Len(CompensationOf(r)) :
           CompensationOf(r)[m].repo = r /\ CompensationOf(r)[m].kind = "merge_revert"
    BY <1>0, <1>3, Compensations
  <2>2. PICK i \in 1 .. (Len(A) - 1) : A[i] = CompensationOf(r)[m]
    BY <1>1 DEF PlansFor
  <2> QED BY <2>1, <2>2
<1>4. ASSUME NEW r \in members, status[r] # "merged", pr[r]
      PROVE  \E i \in 1 .. (Len(A) - 1) : A[i].repo = r /\ A[i].kind = "close_pull_request"
  <2>1. PICK m \in 1 .. Len(CompensationOf(r)) :
           CompensationOf(r)[m].repo = r /\ CompensationOf(r)[m].kind = "close_pull_request"
    BY <1>0, <1>4, Compensations
  <2>2. PICK i \in 1 .. (Len(A) - 1) : A[i] = CompensationOf(r)[m]
    BY <1>1 DEF PlansFor
  <2> QED BY <2>1, <2>2
<1>5. /\ A \in Seq(Action) /\ Len(A) \in Nat \ {0} /\ A[Len(A)] = Revalidate
      /\ \A i, j \in 1 .. (Len(A) - 1) : i < j => order[A[i].repo] >= order[A[j].repo]
  BY <1>1 DEF PlansFor
<1>6. FreshPlan(A)
  BY <1>2, <1>3, <1>4, <1>5 DEF FreshPlan
<1> QED BY <1>6 DEF A

\* The status of the i-th action of the p-th plan becomes s.
Updated(p, i, s) ==
    /\ p \in DOMAIN plans /\ i \in DOMAIN plans[p]
    /\ plans' = [plans EXCEPT ![p][i].status = s]

LEMMA UpdatedRows ==
    ASSUME TypeOK, NEW p, NEW i, NEW s, Updated(p, i, s)
    PROVE  /\ DOMAIN plans' = DOMAIN plans
           /\ \A k \in DOMAIN plans :
                /\ DOMAIN plans'[k] = DOMAIN plans[k]
                /\ \A j \in DOMAIN plans[k] :
                     plans'[k][j] = IF k = p /\ j = i THEN [plans[p][i] EXCEPT !.status = s]
                                                      ELSE plans[k][j]
<1>0. plans \in Seq(Seq(Action)) /\ plans[p] \in Seq(Action)
  BY DEF TypeOK, Updated
<1>1. DOMAIN plans' = DOMAIN plans
      /\ \A k \in DOMAIN plans : k # p => plans'[k] = plans[k]
  BY <1>0 DEF Updated
<1>2. plans'[p] = [plans[p] EXCEPT ![i] = [plans[p][i] EXCEPT !.status = s]]
  BY <1>0 DEF Updated
<1>3. DOMAIN plans'[p] = DOMAIN plans[p]
      /\ \A j \in DOMAIN plans[p] : plans'[p][j] = IF j = i THEN [plans[p][i] EXCEPT !.status = s]
                                                            ELSE plans[p][j]
  BY <1>0, <1>2
<1> QED BY <1>1, <1>3
\* How the plans change.
PlanMove ==
    \/ UNCHANGED plans
    \/ RollbackPlan /\ ~rollback.replay /\ plans' = Append(plans, RecoveryActions(None))
    \/ /\ SagaClaim /\ LastPlan[Min(Unfinished)].status = "pending"
       /\ Updated(Len(plans), Min(Unfinished), "running")
    \/ /\ SagaRecord /\ CanRecord(SagaAction.status, saga.outcome)
       /\ Updated(saga.plan, saga.action, saga.outcome)
    \/ \E p, i :
          /\ ActionReported(p, i)
          /\ \/ /\ plans[p][i].status = "waiting_worker"
                /\ \/ Updated(p, i, "succeeded") /\ revert' = Repaired(plans[p][i])
                   \/ Updated(p, i, "running") \/ Updated(p, i, "failed")
             \/ plans[p][i].status = "failed" /\ Updated(p, i, "pending")

LEMMA PlanMoves ==
    ASSUME Shape, [LoopNext]_vars
    PROVE  PlanMove
<1>1. CASE UNCHANGED csVars
  BY <1>1 DEF csVars, sideVars, PlanMove
<1>2. CASE Quiet \/ UNCHANGED vars
  BY <1>1, <1>2, QuietSet DEF vars
<1>3. CASE Recording
  <2>1. UNCHANGED plans
    <3>1. ASSUME NEW f, Observe(f) PROVE UNCHANGED plans
      BY <3>1 DEF Observe, ObserveCI, ObserveReview, sideVars
    <3>2. CASE SweepFetch \/ SweepRecord
      BY <3>2 DEF SweepFetch, SweepRecord, OpenCase, ResolveCase, RecordMerge, csVars, sideVars
    <3>3. CASE SweepObserve
      BY <3>1, <3>3 DEF SweepObserve, csVars, sideVars
    <3>4. CASE HookObserve
      BY <3>1, <3>4 DEF HookObserve, ObservePullRequest, RecordMerge, csVars, sideVars
    <3>5. CASE \/ \E r \in Repos : RecordPublication(r)
               \/ \E r \in Repos, h \in Heads : DispatchRecords(r, h)
      BY <3>5 DEF RecordPublication, ObservePullRequest, DispatchRecords, RequestMerge,
         csVars, sideVars
    <3> QED BY <1>3, <3>2, <3>3, <3>4, <3>5 DEF Recording
  <2> QED BY <2>1 DEF PlanMove
<1>4. CASE Deciding
  <2>1. UNCHANGED plans
    BY <1>4, DecidingSet DEF Prepare, Append_, RecordGovernance, Expire, csVars, sideVars
  <2> QED BY <2>1 DEF PlanMove
<1>5. CASE RollbackPlan
  BY <1>1, <1>5 DEF RollbackPlan, PlanRecovery, PlanMove
<1>6. CASE SagaClaim
  <2>1. CASE LastPlan[Min(Unfinished)].status = "pending"
    <3>1. RecordRecoveryAction(Len(plans), Min(Unfinished), "running")
      BY <1>6, <2>1 DEF SagaClaim
    <3> QED BY <1>6, <2>1, <3>1 DEF RecordRecoveryAction, Updated, PlanMove
  <2> QED BY <1>1, <1>6, <2>1 DEF SagaClaim
<1>7. CASE SagaRecord
  <2>1. CASE CanRecord(SagaAction.status, saga.outcome)
    <3>1. RecordRecoveryAction(saga.plan, saga.action, saga.outcome)
      BY <1>7, <2>1 DEF SagaRecord
    <3> QED BY <1>7, <2>1, <3>1 DEF RecordRecoveryAction, Updated, PlanMove
  <2> QED BY <1>1, <1>7, <2>1 DEF SagaRecord
<1>8. ASSUME NEW p, NEW i, ActionReported(p, i) PROVE PlanMove
  <2>1. ASSUME NEW s, RecordRecoveryAction(p, i, s) PROVE Updated(p, i, s)
    BY <2>1 DEF RecordRecoveryAction, Updated
  <2>2. \/ /\ plans[p][i].status = "waiting_worker"
           /\ \/ RecordRecoveryAction(p, i, "succeeded") /\ revert' = Repaired(plans[p][i])
              \/ RecordRecoveryAction(p, i, "running") \/ RecordRecoveryAction(p, i, "failed")
        \/ plans[p][i].status = "failed" /\ RecordRecoveryAction(p, i, "pending")
    BY <1>8 DEF ActionReported
  <2> QED BY <1>8, <2>1, <2>2 DEF PlanMove
<1> QED BY <1>2, <1>3, <1>4, <1>5, <1>6, <1>7, <1>8, Steps DEF Recovering

\* ... seen from one action of one plan.
LEMMA RowMoves ==
    ASSUME Shape, [LoopNext]_vars, NEW p \in DOMAIN plans, NEW i \in DOMAIN plans[p]
    PROVE  /\ p \in DOMAIN plans' /\ i \in DOMAIN plans'[p]
           /\ plans'[p][i].kind = plans[p][i].kind /\ plans'[p][i].repo = plans[p][i].repo
           /\ \/ plans'[p][i].status = plans[p][i].status
              \/ /\ SagaClaim /\ p = Len(plans) /\ i = Min(Unfinished)
                 /\ plans[p][i].status = "pending" /\ plans'[p][i].status = "running"
              \/ /\ SagaRecord /\ p = saga.plan /\ i = saga.action
                 /\ CanRecord(plans[p][i].status, saga.outcome)
                 /\ plans'[p][i].status = saga.outcome
              \/ /\ ActionReported(p, i) /\ plans[p][i].status = "waiting_worker"
                 /\ \/ plans'[p][i].status = "succeeded" /\ revert' = Repaired(plans[p][i])
                    \/ plans'[p][i].status \in {"running", "failed"}
              \/ /\ ActionReported(p, i) /\ plans[p][i].status = "failed"
                 /\ plans'[p][i].status = "pending"
<1>0. TypeOK /\ PlanMove /\ SetMove
  BY PlanMoves, SetMoves DEF SetMove
<1>1. /\ p \in DOMAIN plans' /\ i \in DOMAIN plans'[p]
      /\ plans'[p][i].kind = plans[p][i].kind /\ plans'[p][i].repo = plans[p][i].repo
  BY <1>0 DEF SetMove, SamePlan
<1>2. plans[p][i] \in Action
  BY <1>0 DEF TypeOK
<1>3. ASSUME NEW k, NEW j, NEW s, Updated(k, j, s)
      PROVE  plans'[p][i].status = plans[p][i].status
             \/ (p = k /\ i = j /\ plans'[p][i].status = s)
  <2>1. plans'[p][i] = IF p = k /\ i = j THEN [plans[k][j] EXCEPT !.status = s] ELSE plans[p][i]
    BY <1>0, <1>3, UpdatedRows
  <2> QED BY <1>2, <2>1 DEF Action
<1>4. CASE plans' = Append(plans, RecoveryActions(None))
  <2>1. plans'[p] = plans[p]
    BY <1>0, <1>4 DEF TypeOK
  <2> QED BY <1>1, <2>1
<1>5. CASE /\ SagaClaim /\ LastPlan[Min(Unfinished)].status = "pending"
           /\ Updated(Len(plans), Min(Unfinished), "running")
  BY <1>1, <1>3, <1>5 DEF LastPlan
<1>6. CASE /\ SagaRecord /\ CanRecord(SagaAction.status, saga.outcome)
           /\ Updated(saga.plan, saga.action, saga.outcome)
  BY <1>1, <1>3, <1>6 DEF SagaAction
<1>7. ASSUME NEW k, NEW j, ActionReported(k, j), plans[k][j].status = "waiting_worker",
             \/ Updated(k, j, "succeeded") /\ revert' = Repaired(plans[k][j])
             \/ Updated(k, j, "running") \/ Updated(k, j, "failed")
      PROVE  \/ plans'[p][i].status = plans[p][i].status
             \/ /\ ActionReported(p, i) /\ plans[p][i].status = "waiting_worker"
                /\ \/ plans'[p][i].status = "succeeded" /\ revert' = Repaired(plans[p][i])
                   \/ plans'[p][i].status \in {"running", "failed"}
  BY <1>3, <1>7
<1>8. ASSUME NEW k, NEW j, ActionReported(k, j), plans[k][j].status = "failed",
             Updated(k, j, "pending")
      PROVE  \/ plans'[p][i].status = plans[p][i].status
             \/ /\ ActionReported(p, i) /\ plans[p][i].status = "failed"
                /\ plans'[p][i].status = "pending"
  BY <1>3, <1>8
<1> QED BY <1>0, <1>1, <1>4, <1>5, <1>6, <1>7, <1>8 DEF PlanMove

\* A plan that was not there is the one of RollbackPlan.
LEMMA AddedPlan ==
    ASSUME Shape, [LoopNext]_vars, NEW p \in DOMAIN plans', p \notin DOMAIN plans
    PROVE  /\ RollbackPlan /\ ~rollback.replay
           /\ p = Len(plans) + 1 /\ Len(plans') = p /\ FreshPlan(plans'[p])
           /\ plans' = Append(plans, RecoveryActions(None))
<1>0. TypeOK /\ PlanMove
  BY PlanMoves, SetMoves DEF SetMove
<1>1. RollbackPlan /\ ~rollback.replay /\ plans' = Append(plans, RecoveryActions(None))
  <2>1. ~\E k, i, s : Updated(k, i, s)
    BY <1>0, UpdatedRows
  <2> QED BY <1>0, <2>1 DEF PlanMove
<1>2. p = Len(plans) + 1 /\ plans'[p] = RecoveryActions(None) /\ Len(plans') = p
  BY <1>0, <1>1 DEF TypeOK
<1> QED BY <1>1, <1>2, NewPlan

\* A revert that is merged stays merged.
LEMMA RevertKeeps ==
    ASSUME Shape, [LoopNext]_vars, NEW r \in Repos, revert[r] = "merged"
    PROVE  revert'[r] = "merged"
<1>0. Frame /\ revert \in [Repos -> {"none", "open", "merged"}]
  BY Frames DEF Shape, GitHubShape
<1>1. CASE SagaExecute
  BY <1>0, <1>1 DEF SagaExecute, SagaActs, SagaRevalidate, SagaClose, SagaCreateRevert,
     SagaMergeRevert
<1>2. ASSUME NEW p, NEW i, ActionReported(p, i) PROVE revert'[r] = "merged"
  BY <1>0, <1>2 DEF ActionReported, Repaired
<1> QED BY <1>0, <1>1, <1>2 DEF Frame, RevertSteps
-----------------------------------------------------------------------------
(* A recovery plan that has run to its end. *)

Reverts == {"create_revert", "merge_revert"}

\* What a successful action has brought about.
Effect(kind, r) ==
    /\ kind = "close_pull_request" => pull[r] = "closed"
    /\ kind = "merge_revert" => revert[r] = "merged"

\* An action that reverts is one of a merged candidate, and one that has succeeded has had
\* its effect.
SoundAction(kind, r, st) ==
    /\ kind \in Reverts \cup {"close_pull_request", "revalidate"}
    /\ IF kind = "revalidate" THEN r = None ELSE r \in members
    /\ kind \in Reverts => pull[r] = "merged"
    /\ kind = "close_pull_request" => pr[r]
    /\ st # "skipped"
    /\ st = "waiting_worker" => kind \in Reverts
    /\ st = "succeeded" => Effect(kind, r)

SoundRow(p, i) == SoundAction(plans[p][i].kind, plans[p][i].repo, plans[p][i].status)
RevertMerged(p, i) ==
    plans[p][i].kind = "create_revert" =>
        \E j \in DOMAIN plans[p] :
            plans[p][j].kind = "merge_revert" /\ plans[p][j].repo = plans[p][i].repo
SoundPlans ==
    \A p \in DOMAIN plans : \A i \in DOMAIN plans[p] : SoundRow(p, i) /\ RevertMerged(p, i)

\* What the saga is about to record is so.
SoundSaga ==
    saga.pc = "record" =>
        /\ saga.outcome # "skipped"
        /\ saga.outcome = "waiting_worker" => SagaAction.kind \in Reverts
        /\ saga.outcome = "succeeded" => Effect(SagaAction.kind, SagaAction.repo)

LEMMA EffectKept ==
    ASSUME Shape, [LoopNext]_vars, NEW kind, NEW r, Effect(kind, r),
           kind \in {"close_pull_request", "merge_revert"} => r \in Repos
    PROVE  Effect(kind, r)'
BY GitHubKeeps, RevertKeeps DEF Effect

\* An action whose status stays sound stays sound.
LEMMA SoundKept ==
    ASSUME Shape, [LoopNext]_vars, NEW kind, NEW r, NEW s, NEW t, SoundAction(kind, r, s),
           t # "skipped", t = "waiting_worker" => kind \in Reverts,
           t = "succeeded" => (s = "succeeded" \/ Effect(kind, r)')
    PROVE  SoundAction(kind, r, t)'
<1>0. SetMove /\ \A q \in Repos : pr[q] => pr'[q]
  <2>1. SetMove
    BY SetMoves
  <2> QED BY <2>1, SetKeeps DEF SetMove
<1>1. kind # "revalidate" => r \in Repos /\ r \in members'
  BY <1>0 DEF SetMove, SoundAction
<1>2. kind \in Reverts => kind # "revalidate"
  BY DEF Reverts
<1>3. kind \in Reverts => pull'[r] = "merged"
  BY <1>1, <1>2, GitHubKeeps DEF SoundAction
<1>4. kind = "close_pull_request" => pr'[r]
  BY <1>0, <1>1 DEF SoundAction
<1>5. t = "succeeded" => Effect(kind, r)'
  BY <1>1, EffectKept DEF SoundAction
<1> QED BY <1>1, <1>3, <1>4, <1>5 DEF SoundAction

LEMMA FreshSound ==
    ASSUME Shape, [LoopNext]_vars, RecordsHold, NEW A, FreshPlan(A), UNCHANGED <<members, pr, pull>>
    PROVE  /\ \A i \in DOMAIN A : SoundAction(A[i].kind, A[i].repo, A[i].status)'
           /\ \A i \in DOMAIN A : A[i].kind = "create_revert" =>
                 \E j \in DOMAIN A : A[j].kind = "merge_revert" /\ A[j].repo = A[i].repo
<1>0. DOMAIN A = 1 .. Len(A) /\ Len(A) \in Nat \ {0} /\ members \subseteq Repos
  BY DEF FreshPlan, Shape, SetShape, TypeOK
<1>1. A[Len(A)] = Revalidate
  BY DEF FreshPlan
<1>2. ASSUME NEW i \in DOMAIN A, i # Len(A)
      PROVE  /\ i \in 1 .. (Len(A) - 1) /\ A[i].repo \in members /\ A[i].status = "pending"
             /\ \/ status[A[i].repo] = "merged" /\ A[i].kind \in {"create_revert", "merge_revert"}
                \/ /\ status[A[i].repo] # "merged" /\ pr[A[i].repo]
                   /\ A[i].kind = "close_pull_request"
  <2>1. i \in 1 .. (Len(A) - 1)
    BY <1>0, <1>2
  <2> QED BY <2>1 DEF FreshPlan
<1>3. ASSUME NEW i \in DOMAIN A PROVE SoundAction(A[i].kind, A[i].repo, A[i].status)'
  <2>1. CASE i = Len(A)
    BY <1>1, <2>1 DEF Revalidate, SoundAction, Reverts
  <2>2. CASE i # Len(A)
    BY <1>0, <1>2, <2>2 DEF SoundAction, Reverts, RecordsHold
  <2> QED BY <2>1, <2>2
<1>4. ASSUME NEW i \in DOMAIN A, A[i].kind = "create_revert"
      PROVE  \E j \in DOMAIN A : A[j].kind = "merge_revert" /\ A[j].repo = A[i].repo
  <2>1. i # Len(A)
    BY <1>1, <1>4 DEF Revalidate
  <2>2. A[i].repo \in members /\ status[A[i].repo] = "merged"
    BY <1>2, <1>4, <2>1
  <2>3. PICK j \in 1 .. (Len(A) - 1) : A[j].repo = A[i].repo /\ A[j].kind = "merge_revert"
    BY <2>2 DEF FreshPlan
  <2>4. j \in DOMAIN A
    BY <1>0
  <2> QED BY <2>3, <2>4
<1> QED BY <1>3, <1>4

LEMMA SoundPlansStep ==
    ASSUME Shape, [LoopNext]_vars, RecordsHold, SoundPlans, SoundSaga
    PROVE  SoundPlans'
<1>0. TypeOK /\ SetMove /\ Frame /\ GitHubShape
  BY SetMoves, Frames DEF SetMove, Shape
<1>1. ASSUME NEW p \in DOMAIN plans', p \notin DOMAIN plans
      PROVE  \A i \in DOMAIN plans'[p] : SoundRow(p, i)' /\ RevertMerged(p, i)'
  <2>1. RollbackPlan /\ FreshPlan(plans'[p])
    BY <1>1, AddedPlan
  <2>2. UNCHANGED <<members, pr, pull>>
    BY <2>1 DEF RollbackPlan, PlanRecovery, csVars, candidateVars, githubVars
  <2>3. PICK A : A = plans'[p]
    OBVIOUS
  <2>4. FreshPlan(A)
    BY <2>1, <2>3
  <2>5. /\ \A i \in DOMAIN A : SoundAction(A[i].kind, A[i].repo, A[i].status)'
        /\ \A i \in DOMAIN A : A[i].kind = "create_revert" =>
              \E j \in DOMAIN A : A[j].kind = "merge_revert" /\ A[j].repo = A[i].repo
    BY <2>2, <2>4, FreshSound
  <2> QED BY <2>3, <2>5 DEF SoundRow, RevertMerged, SoundAction, Effect
<1>2. ASSUME NEW p \in DOMAIN plans, NEW i \in DOMAIN plans[p]
      PROVE  SoundRow(p, i)'
  <2>1. PICK kind, r, s : kind = plans[p][i].kind /\ r = plans[p][i].repo /\ s = plans[p][i].status
    OBVIOUS
  <2>2. PICK t : t = plans'[p][i].status
    OBVIOUS
  <2>3. SoundAction(kind, r, s) /\ plans'[p][i].kind = kind /\ plans'[p][i].repo = r
    BY <2>1, RowMoves DEF SoundPlans, SoundRow
  <2>4. SoundAction(kind, r, t)'
    <3>1. CASE t = s
      <4>1. s # "skipped" /\ (s = "waiting_worker" => kind \in Reverts)
        BY <2>3 DEF SoundAction
      <4> QED BY <2>3, <3>1, <4>1, SoundKept
    <3>2. CASE t \in {"running", "failed", "pending"}
      BY <2>3, <3>2, SoundKept
    <3>3. CASE /\ SagaRecord /\ p = saga.plan /\ i = saga.action /\ t = saga.outcome
      <4>1. SagaAction = plans[p][i]
        BY <3>3 DEF SagaAction
      <4>2. /\ t # "skipped" /\ (t = "waiting_worker" => kind \in Reverts)
            /\ (t = "succeeded" => Effect(kind, r))
        BY <2>1, <3>3, <4>1 DEF SoundSaga, SagaRecord
      <4>3. kind \in {"close_pull_request", "merge_revert"} => r \in Repos
        BY <1>0, <2>3 DEF SoundAction, SetMove
      <4>4. t = "succeeded" => Effect(kind, r)'
        BY <4>2, <4>3, EffectKept
      <4> QED BY <2>3, <4>2, <4>4, SoundKept
    <3>4. CASE s = "waiting_worker" /\ t = "succeeded" /\ revert' = Repaired(plans[p][i])
      <4>1. kind \in Reverts
        BY <2>3, <3>4 DEF SoundAction
      <4>2. r \in Repos
        BY <1>0, <2>3, <4>1 DEF SoundAction, Reverts, SetMove
      <4>3. kind = "merge_revert" => revert'[r] = "merged"
        BY <1>0, <2>1, <3>4, <4>2 DEF Repaired, GitHubShape
      <4>4. Effect(kind, r)'
        BY <4>1, <4>3 DEF Effect, Reverts
      <4> QED BY <2>3, <3>4, <4>4, SoundKept
    <3> QED BY <2>1, <2>2, <3>1, <3>2, <3>3, <3>4, RowMoves
  <2> QED BY <2>2, <2>3, <2>4 DEF SoundRow, SoundAction, Effect
<1>3. ASSUME NEW p \in DOMAIN plans
      PROVE  \A i \in DOMAIN plans'[p] : SoundRow(p, i)' /\ RevertMerged(p, i)'
  <2>1. SamePlan(plans[p], plans'[p])
    BY <1>0 DEF SetMove
  <2>2. ASSUME NEW i \in DOMAIN plans[p] PROVE RevertMerged(p, i)'
    <3>1. CASE plans[p][i].kind = "create_revert"
      <4>1. PICK j \in DOMAIN plans[p] :
               plans[p][j].kind = "merge_revert" /\ plans[p][j].repo = plans[p][i].repo
        BY <3>1 DEF SoundPlans, RevertMerged
      <4> QED BY <2>1, <4>1 DEF SamePlan, RevertMerged
    <3>2. CASE plans[p][i].kind # "create_revert"
      BY <2>1, <3>2 DEF SamePlan, RevertMerged
    <3> QED BY <3>1, <3>2
  <2>3. DOMAIN plans'[p] = DOMAIN plans[p]
    BY <2>1 DEF SamePlan
  <2> QED BY <1>2, <2>2, <2>3
<1> QED BY <1>1, <1>3 DEF SoundPlans
LEMMA SoundSagaStep ==
    ASSUME Shape, [LoopNext]_vars, SoundPlans, SoundSaga
    PROVE  SoundSaga'
<1>0. SetMove /\ Frame /\ SagaShape /\ GitHubShape
  BY SetMoves, Frames DEF Shape
<1>1. CASE saga' = NoAction
  BY <1>1 DEF NoAction, SoundSaga
<1>2. CASE SagaClaim
  BY <1>2 DEF SagaClaim, SoundSaga
<1>3. CASE saga.pc # "idle" /\ saga'.plan = saga.plan /\ saga'.action = saga.action
  <2> DEFINE a == SagaAction
  <2>1. saga.plan \in DOMAIN plans /\ saga.action \in DOMAIN plans[saga.plan]
    BY <1>3, <1>0 DEF SagaShape
  <2>2. PICK kind, r : kind = a.kind /\ r = a.repo
    OBVIOUS
  <2>3. SagaAction'.kind = kind /\ SagaAction'.repo = r
    BY <1>0, <1>3, <2>1, <2>2 DEF SagaAction, SetMove, SamePlan
  <2>4. SoundAction(kind, r, a.status)
    BY <2>1, <2>2 DEF SoundPlans, SoundRow, SagaAction
  <2>5. kind \in {"close_pull_request", "merge_revert"} => r \in Repos
    BY <1>0, <2>4 DEF SoundAction, SetMove
  <2>6. CASE UNCHANGED saga
    <3>1. saga.pc = "record" /\ saga.outcome = "succeeded" => Effect(kind, r)'
      BY <2>2, <2>5, EffectKept DEF SoundSaga
    <3> QED BY <2>2, <2>3, <2>6, <3>1 DEF SoundSaga, Effect
  <2>7. CASE SagaExecute
    <3>1. CASE SagaActs /\ (SagaReports("succeeded") \/ SagaReports("failed"))
      <4>1. saga'.outcome \in {"succeeded", "failed"}
        BY <1>0, <3>1 DEF SagaReports, SagaShape
      <4>2. ASSUME NEW q \in Repos, a.repo = q, SagaClose(q) \/ SagaCreateRevert(q) \/ SagaMergeRevert(q)
            PROVE  Effect(kind, r)'
        BY <1>0, <2>2, <4>2 DEF SagaClose, SagaCreateRevert, SagaMergeRevert, Effect, GitHubShape
      <4>3. ASSUME SagaRevalidate PROVE Effect(kind, r)'
        BY <2>2, <4>3 DEF SagaRevalidate, Effect
      <4>4. Effect(kind, r)'
        BY <3>1, <4>2, <4>3 DEF SagaActs
      <4> QED BY <2>3, <4>1, <4>4 DEF SoundSaga, Effect
    <3>2. ASSUME NEW outcome \in {"failed", "pending", "waiting_worker"},
                 outcome # "failed" => SagaPostpones(outcome), SagaReports(outcome)
          PROVE  SoundSaga'
      <4>1. saga'.outcome = outcome
        BY <1>0, <3>2 DEF SagaReports, SagaShape
      <4>2. outcome = "waiting_worker" => kind \in Reverts
        BY <2>2, <3>2 DEF SagaPostpones, Reverts
      <4> QED BY <2>3, <4>1, <4>2 DEF SoundSaga, Reverts
    <3> QED BY <2>7, <3>1, <3>2 DEF SagaExecute
  <2>8. UNCHANGED saga \/ SagaExecute \/ saga' = NoAction \/ SagaClaim
    BY <1>0 DEF Frame, Saga, SagaRecord, SagaCrash
  <2> QED BY <1>1, <1>2, <2>6, <2>7, <2>8
<1>4. CASE UNCHANGED saga /\ saga.pc = "idle"
  BY <1>4 DEF SoundSaga
<1>5. CASE SagaExecute
  BY <1>0, <1>3, <1>5 DEF SagaExecute, SagaReports, SagaShape
<1> QED BY <1>0, <1>1, <1>2, <1>3, <1>4, <1>5 DEF Frame, Saga, SagaRecord, SagaCrash

Sound == Honest /\ SoundPlans /\ SoundSaga

LEMMA SoundInvariance == LoopSpec => [](Shape /\ Sound)
<1>1. LoopInit => Shape /\ Sound
  <2>1. LoopInit => SoundPlans /\ SoundSaga
    BY DEF LoopInit, Init, SoundPlans, SoundSaga, NoAction
  <2> QED BY <2>1, ShapeInit, HonestInit DEF Sound
<1>2. Shape /\ Sound /\ [LoopNext]_vars => (Shape /\ Sound)'
  <2> SUFFICES ASSUME Shape, Sound, [LoopNext]_vars PROVE Shape' /\ Sound'
    OBVIOUS
  <2>1. Shape' /\ Honest'
    BY ShapeStep, HonestStep DEF Sound
  <2>2. SoundPlans' /\ SoundSaga'
    BY SoundPlansStep, SoundSagaStep DEF Sound, Honest
  <2> QED BY <2>1, <2>2 DEF Sound
<1> QED BY <1>1, <1>2, PTL DEF LoopSpec

LEMMA SoundIsComplete == Shape /\ Sound => RollbackComplete
<1> SUFFICES ASSUME Shape, Sound, plans # << >>, LastPlanComplete, NEW r \in Planned(LastPlan)
             PROVE  \/ pull[r] = "closed"
                    \/ pull[r] = "merged" /\ revert[r] = "merged"
  BY DEF RollbackComplete
<1>1. Len(plans) \in DOMAIN plans /\ plans[Len(plans)] \in Seq(Action)
  BY DEF Shape, SetShape, TypeOK
<1>2. ASSUME NEW j \in DOMAIN LastPlan
      PROVE  /\ SoundAction(LastPlan[j].kind, LastPlan[j].repo, "succeeded")
             /\ RevertMerged(Len(plans), j)
  <2>1. LastPlan[j].status \in Finished
    BY <1>2 DEF LastPlanComplete, Complete, LastPlan
  <2>2. SoundRow(Len(plans), j) /\ RevertMerged(Len(plans), j)
    BY <1>1, <1>2 DEF Sound, SoundPlans, LastPlan
  <2>3. LastPlan[j].status = "succeeded"
    BY <2>1, <2>2 DEF SoundRow, SoundAction, Finished, LastPlan
  <2> QED BY <2>2, <2>3 DEF SoundRow, LastPlan
<1>3. PICK i \in DOMAIN LastPlan : LastPlan[i].repo = r /\ r # None
  BY DEF Planned
<1>4. CASE LastPlan[i].kind = "close_pull_request"
  BY <1>2, <1>3, <1>4 DEF SoundAction, Effect
<1>5. CASE LastPlan[i].kind \in Reverts
  <2>1. PICK j \in DOMAIN LastPlan : LastPlan[j].kind = "merge_revert" /\ LastPlan[j].repo = r
    BY <1>2, <1>3, <1>5 DEF RevertMerged, LastPlan, Reverts
  <2> QED BY <1>2, <2>1 DEF SoundAction, Effect, Reverts
<1> QED BY <1>2, <1>3, <1>4, <1>5 DEF SoundAction

\* A rollback that has run to its end has left no candidate of its plan in place, whatever
\* was queued when it started, whatever failed, was lost or was left to a Worker.
THEOREM RollbackCompleteCorrect == LoopSpec => []RollbackComplete
BY SoundInvariance, SoundIsComplete, PTL
-----------------------------------------------------------------------------
(* What GitHub shows to somebody who looks at it only: DeliveryOrder. *)

\* No person merges by hand, and where somebody may ask for a rollback, a head is merged
\* only with a decision on file.
Governed == "human_merges" \notin Occurs /\ ("rollback" \in Occurs => RequireGovernance)

\* The merge of q is on its way or done.
Pipeline(q) ==
    \/ q \in gated \/ pull[q] = "merged"
    \/ \E h \in Heads : queue[<<"merge", q, h>>] # "absent"

\* What is on its way has been published, and what it depends on is merged.
PipelineInv ==
    \A q \in Repos : Pipeline(q) =>
        q \in members /\ pr[q] /\ \A d \in Deps[q] : pull[d] = "merged"

\* A rollback takes the decisions away: candidate by candidate while it is being decided,
\* all of them once it is planned.
DecisionInv ==
    /\ plans # << >> \/ rollback.pc = "decide" => "rollback" \in Occurs
    /\ \A q \in Repos : cleared[q] # {} => q \in members
    /\ plans # << >> => \A q \in Repos : FirstHead \notin cleared[q]
    /\ rollback.pc = "decide" /\ ~rollback.replay =>
          \A q \in Repos : FirstHead \in cleared[q] => <<q, FirstHead>> \in rollback.left

\* A plan takes care of everything whose merge is on its way, downstream first ...
Covers(p, q) ==
    \E i \in DOMAIN plans[p] :
        /\ plans[p][i].repo = q
        /\ plans[p][i].kind \in {"close_pull_request", "merge_revert"}
CoverInv == \A p \in DOMAIN plans, q \in Repos : Pipeline(q) => Covers(p, q)
Downward(p) ==
    \A i, j \in DOMAIN plans[p] :
        i < j /\ plans[p][i].repo \in members /\ plans[p][j].repo \in members
        => order[plans[p][i].repo] >= order[plans[p][j].repo]
DownwardInv == \A p \in DOMAIN plans : Downward(p)

\* ... and one action at a time: none is begun before those before it are finished.
FinishedBefore(p, i) == \A j \in DOMAIN plans[p] : j < i => plans[p][j].status \in Finished
OneByOne ==
    /\ \A p \in DOMAIN plans : \A i \in DOMAIN plans[p] :
           plans[p][i].status # "pending" => FinishedBefore(p, i)
    /\ saga.pc # "idle" => FinishedBefore(saga.plan, saga.action)

\* What is reverted, by a plan, was merged, and whatever was on its way downstream is gone.
RevertInv ==
    /\ \A r \in Repos : revert[r] # "none" => pull[r] = "merged" /\ plans # << >>
    /\ \A r \in Repos : \A d \in Deps[r] :
           revert[d] = "merged" /\ Pipeline(r) => pull[r] = "closed" \/ revert[r] = "merged"

OrderlyInv == PipelineInv /\ DecisionInv /\ CoverInv /\ DownwardInv /\ OneByOne /\ RevertInv

-----------------------------------------------------------------------------
\* The gate is the way in, and a rollback closes it.
LEMMA PipelineFrom ==
    ASSUME Governed, Shape, [LoopNext]_vars, NEW q \in Repos, Pipeline(q)', ~Pipeline(q)
    PROVE  GateOpen(q)
<1>0. Frame /\ GitHubShape /\ CommandShape
  BY Frames DEF Shape
<1>1. q \notin gated /\ pull[q] # "merged"
      /\ \A h \in Heads : queue[<<"merge", q, h>>] = "absent"
  BY DEF Pipeline
<1>2. \A h \in Heads : queue'[<<"merge", q, h>>] = "absent"
  BY <1>1, MergeCommands
<1>3. pull'[q] # "merged"
  <2>1. ASSUME NEW r \in Repos PROVE ~HumanMerges(r)
    BY DEF HumanMerges, Governed
  <2>2. ASSUME NEW r \in Repos, Publish(r) PROVE pull'[q] # "merged"
    BY <1>0, <1>1, <2>2 DEF Publish, GitHubShape
  <2>3. ASSUME NEW r \in Repos, NEW h \in Heads, DispatchUndraft(r, h) PROVE pull'[q] # "merged"
    BY <1>0, <1>1, <2>3 DEF DispatchUndraft, GitHubShape
  <2>4. ASSUME NEW r \in Repos, NEW h \in Heads, DispatchMerge(r, h) PROVE pull'[q] # "merged"
    <3>1. queue[<<"merge", r, h>>] = "pending" /\ pull' = [pull EXCEPT ![r] = "merged"]
      BY <2>4 DEF DispatchMerge
    <3>2. q # r
      BY <1>1, <3>1
    <3> QED BY <1>0, <1>1, <3>1, <3>2 DEF GitHubShape
  <2>5. ASSUME SagaExecute PROVE pull'[q] # "merged"
    BY <1>0, <1>1, <2>5 DEF SagaExecute, SagaActs, SagaRevalidate, SagaClose,
       SagaCreateRevert, SagaMergeRevert, GitHubShape
  <2> QED BY <1>0, <1>1, <2>1, <2>2, <2>3, <2>4, <2>5 DEF Frame, PullSteps
<1>4. q \in gated'
  BY <1>2, <1>3 DEF Pipeline
<1>5. q \in gated \/ GateOpen(q)
  BY <1>0, <1>4 DEF Frame, GatedSteps, SweepDecide, HookTail, EnqueueMerge
<1> QED BY <1>1, <1>4, <1>5
LEMMA GateMeans ==
    ASSUME Shape, RecordsHold, NEW q, GateOpen(q)
    PROVE  q \in Repos /\ q \in members /\ pr[q] /\ \A d \in Deps[q] : pull[d] = "merged"
<1>1. q \in members /\ q \in Repos /\ status[q] \in Cleared /\ UpstreamMerged(q)
  BY DEF GateOpen, Cleared, Shape, SetShape, OrderInv
<1>2. pr[q]
  BY <1>1 DEF Shape, SetShape, EvidenceInv
<1>3. \A d \in Deps[q] : d \in Repos /\ status[d] = "merged"
  BY <1>1 DEF UpstreamMerged
<1> QED BY <1>1, <1>2, <1>3 DEF RecordsHold

LEMMA GateClosed ==
    ASSUME Governed, Shape, DecisionInv, plans # << >>, NEW q, GateOpen(q)
    PROVE  FALSE
<1>1. q \in Repos /\ head[q] = FirstHead
  BY DEF GateOpen, Shape, SetShape, OrderInv
<1>2. RequireGovernance
  BY DEF Governed, DecisionInv
<1> QED BY <1>1, <1>2 DEF GateOpen, DecisionInv

LEMMA PipelineStep ==
    ASSUME Governed, Shape, Honest, PipelineInv, [LoopNext]_vars
    PROVE  PipelineInv'
<1> SUFFICES ASSUME NEW q \in Repos, Pipeline(q)'
             PROVE  q \in members' /\ pr'[q] /\ \A d \in Deps[q] : pull'[d] = "merged"
  BY DEF PipelineInv
<1>1. q \in members /\ pr[q] /\ \A d \in Deps[q] : pull[d] = "merged"
  BY PipelineFrom, GateMeans DEF PipelineInv, Honest
<1>2. SetMove
  BY SetMoves
<1>3. q \in members' /\ pr'[q]
  BY <1>1, <1>2, SetKeeps DEF SetMove
<1>4. \A d \in Deps[q] : d \in Repos
  OBVIOUS
<1> QED BY <1>1, <1>3, <1>4, GitHubKeeps

\* Who decides about a candidate: the operator, or the rollback that is asked for.
LEMMA ClearedMoves ==
    ASSUME Shape, [LoopNext]_vars
    PROVE  \/ UNCHANGED cleared
           \/ \E r \in members :
                /\ cleared' = [cleared EXCEPT ![r] = @ \cup {FirstHead}]
                /\ plans = << >> /\ rollback.pc = "idle" /\ UNCHANGED <<plans, rollback>>
           \/ \E d \in rollback.left :
                /\ d[1] \in members /\ d[2] = FirstHead /\ rollback.pc = "decide"
                /\ cleared' = [cleared EXCEPT ![d[1]] = @ \ {FirstHead}]
                /\ rollback' = [rollback EXCEPT !.left = @ \ {d}] /\ UNCHANGED plans
<1>0. head = [r \in Repos |-> FirstHead] /\ members \subseteq Repos
  BY DEF Shape, SetShape, TypeOK
<1>1. CASE Quiet \/ UNCHANGED vars
  BY <1>1, QuietSet DEF vars, csVars, sideVars
<1>2. CASE Recording
  <2>1. ASSUME NEW f, Observe(f) PROVE UNCHANGED cleared
    BY <2>1 DEF Observe, ObserveCI, ObserveReview, sideVars
  <2>2. CASE SweepFetch \/ SweepRecord
    BY <2>2 DEF SweepFetch, SweepRecord, OpenCase, ResolveCase, RecordMerge, csVars, sideVars
  <2>3. CASE SweepObserve
    BY <2>1, <2>3 DEF SweepObserve, csVars, sideVars
  <2>4. CASE HookObserve
    BY <2>1, <2>4 DEF HookObserve, ObservePullRequest, RecordMerge, csVars, sideVars
  <2>5. CASE \/ \E r \in Repos : RecordPublication(r)
             \/ \E r \in Repos, h \in Heads : DispatchRecords(r, h)
    BY <2>5 DEF RecordPublication, ObservePullRequest, DispatchRecords, RequestMerge,
       csVars, sideVars
  <2> QED BY <1>2, <2>2, <2>3, <2>4, <2>5 DEF Recording
<1>3. CASE Recovering
  BY <1>3, RecoveringSet DEF PlanRecovery, RecordRecoveryAction, csVars, sideVars
<1>4. CASE DeliverBatch \/ ValidationExpires
  BY <1>4 DEF DeliverBatch, Prepare, Append_, ValidationExpires, Expire, sideVars
<1>5. CASE RollbackDecide
  <2>1. PICK d \in rollback.left :
           IF d[2] = head[d[1]]
           THEN /\ RecordGovernance(d[1], d[2], FALSE)
                /\ rollback' = [rollback EXCEPT !.left = @ \ {d}]
           ELSE RollbackEnds /\ UNCHANGED csVars
    BY <1>5 DEF RollbackDecide
  <2>2. CASE d[2] = head[d[1]]
    <3>1. d[1] \in members /\ cleared' = [cleared EXCEPT ![d[1]] = @ \ {d[2]}] /\ UNCHANGED plans
      BY <2>1, <2>2 DEF RecordGovernance
    <3>2. d[2] = FirstHead
      BY <1>0, <2>2, <3>1
    <3> QED BY <1>5, <2>1, <2>2, <3>1, <3>2 DEF RollbackDecide
  <2>3. CASE d[2] # head[d[1]]
    BY <2>1, <2>3 DEF csVars, sideVars
  <2> QED BY <2>2, <2>3
<1>6. ASSUME NEW r \in Repos, Approve(r)
      PROVE  /\ r \in members /\ cleared' = [cleared EXCEPT ![r] = @ \cup {FirstHead}]
             /\ plans = << >> /\ rollback.pc = "idle" /\ UNCHANGED <<plans, rollback>>
  BY <1>0, <1>6 DEF Approve, RecordGovernance, loopVars
<1> QED BY <1>1, <1>2, <1>3, <1>4, <1>5, <1>6, Steps DEF Deciding

LEMMA DecisionStep ==
    ASSUME Shape, DecisionInv, [LoopNext]_vars
    PROVE  DecisionInv'
<1>0. SetMove /\ Frame /\ TypeOK /\ RollbackShape /\ cleared \in [Repos -> SUBSET Heads]
      /\ head = [r \in Repos |-> FirstHead] /\ TypeOK'
  BY SetMoves, Frames DEF Shape, SetShape, SetMove, TypeOK
<1>1. ASSUME plans = << >>, plans' # << >>
      PROVE  /\ RollbackPlan /\ ~rollback.replay /\ rollback.pc = "decide" /\ rollback.left = {}
             /\ UNCHANGED cleared
  <2>1. 1 \in DOMAIN plans'
    BY <1>0, <1>1 DEF TypeOK
  <2>2. 1 \notin DOMAIN plans
    BY <1>1
  <2>3. RollbackPlan /\ ~rollback.replay
    BY <2>1, <2>2, AddedPlan
  <2> QED BY <2>3 DEF RollbackPlan, PlanRecovery
<1>2. plans' # << >> \/ rollback'.pc = "decide" => "rollback" \in Occurs
  <2>1. CASE plans' # << >>
    BY <1>1, <2>1 DEF DecisionInv
  <2>2. CASE rollback'.pc = "decide"
    BY <1>0, <2>2 DEF Frame, Rollback, RollbackStart, RollbackDecide, RollbackPlan,
       RollbackBreaksOff, RollbackEnds, NoRollback, DecisionInv
  <2> QED BY <2>1, <2>2
<1>3. ASSUME NEW q \in Repos, cleared'[q] # {} PROVE q \in members'
  BY <1>0, <1>3, ClearedMoves DEF DecisionInv, SetMove
<1>4. ASSUME NEW q \in Repos, plans' # << >> PROVE FirstHead \notin cleared'[q]
  <2>1. CASE plans = << >>
    BY <1>1, <1>4, <2>1 DEF DecisionInv
  <2>2. CASE plans # << >>
    BY <1>0, <2>2, ClearedMoves DEF DecisionInv
  <2> QED BY <2>1, <2>2
<1>5. ASSUME rollback'.pc = "decide", ~rollback'.replay, NEW q \in Repos, FirstHead \in cleared'[q]
      PROVE  <<q, FirstHead>> \in rollback'.left
  <2>1. CASE UNCHANGED cleared
    <3>1. CASE UNCHANGED rollback
      BY <1>5, <2>1, <3>1 DEF DecisionInv
    <3>2. CASE RollbackStart
      <4>1. rollback'.left = {<<r, head[r]>> : r \in members}
        BY <3>2 DEF RollbackStart
      <4>2. q \in members /\ head[q] = FirstHead
        BY <1>0, <1>5, <2>1 DEF DecisionInv
      <4> QED BY <4>1, <4>2
    <3>3. CASE RollbackDecide
      <4>1. PICK d \in rollback.left :
              IF d[2] = head[d[1]]
              THEN /\ RecordGovernance(d[1], d[2], FALSE)
                   /\ rollback' = [rollback EXCEPT !.left = @ \ {d}]
              ELSE RollbackEnds /\ UNCHANGED csVars
        BY <3>3 DEF RollbackDecide
      <4>0. d[1] \in Repos
        BY <1>0 DEF RollbackShape, SetMove
      <4>7. ~RollbackEnds
        BY <1>5 DEF RollbackEnds, NoRollback
      <4>2. d[2] = head[d[1]] /\ d[1] \in Repos /\ head[d[1]] = FirstHead
        BY <1>0, <4>0, <4>1, <4>7
      <4>3. cleared'[d[1]] = cleared[d[1]] \ {FirstHead}
        BY <1>0, <4>1, <4>2 DEF RecordGovernance, SetMove
      <4>4. q # d[1]
        BY <1>5, <4>3
      <4>5. rollback'.left = rollback.left \ {d} /\ rollback'.replay = rollback.replay
            /\ rollback.pc = "decide"
        BY <1>0, <3>3, <4>1, <4>2 DEF RollbackDecide, RollbackShape
      <4>6. <<q, FirstHead>> \in rollback.left
        BY <1>5, <2>1, <4>5 DEF DecisionInv
      <4> QED BY <4>4, <4>5, <4>6
    <3>4. CASE RollbackPlan \/ RollbackBreaksOff
      BY <1>5, <3>4 DEF RollbackPlan, RollbackBreaksOff, RollbackEnds, NoRollback
    <3> QED BY <1>0, <3>1, <3>2, <3>3, <3>4 DEF Frame, Rollback
  <2>2. CASE rollback.pc = "idle" /\ UNCHANGED rollback
    BY <1>5, <2>2
  <2>3. ASSUME NEW d \in rollback.left, d[1] \in members, d[2] = FirstHead, rollback.pc = "decide",
               cleared' = [cleared EXCEPT ![d[1]] = @ \ {FirstHead}],
               rollback' = [rollback EXCEPT !.left = @ \ {d}]
        PROVE  <<q, FirstHead>> \in rollback'.left
    <3>1. d[1] \in Repos /\ cleared'[d[1]] = cleared[d[1]] \ {FirstHead}
      BY <1>0, <2>3 DEF SetMove
    <3>2. q # d[1]
      BY <1>5, <3>1
    <3>3. FirstHead \in cleared[q]
      BY <1>0, <1>5, <2>3, <3>1, <3>2
    <3>4. rollback'.left = rollback.left \ {d} /\ rollback'.replay = rollback.replay
      BY <1>0, <2>3 DEF RollbackShape
    <3>5. <<q, FirstHead>> \in rollback.left
      BY <1>5, <2>3, <3>3, <3>4 DEF DecisionInv
    <3> QED BY <3>2, <3>4, <3>5
  <2> QED BY <2>1, <2>2, <2>3, ClearedMoves
<1> QED BY <1>2, <1>3, <1>4, <1>5 DEF DecisionInv
LEMMA CoverStep ==
    ASSUME Governed, Shape, PipelineInv, DecisionInv, CoverInv, [LoopNext]_vars
    PROVE  CoverInv'
<1> SUFFICES ASSUME NEW p \in DOMAIN plans', NEW q \in Repos, Pipeline(q)'
             PROVE  Covers(p, q)'
  BY DEF CoverInv
<1>0. SetMove
  BY SetMoves
<1>1. CASE p \in DOMAIN plans
  <2>1. plans # << >>
    BY <1>1
  <2>2. Pipeline(q)
    BY <2>1, PipelineFrom, GateClosed
  <2>3. PICK i \in DOMAIN plans[p] :
           plans[p][i].repo = q /\ plans[p][i].kind \in {"close_pull_request", "merge_revert"}
    BY <1>1, <2>2 DEF CoverInv, Covers
  <2>4. SamePlan(plans[p], plans'[p])
    BY <1>0, <1>1 DEF SetMove
  <2> QED BY <2>3, <2>4 DEF SamePlan, Covers
<1>2. CASE p \notin DOMAIN plans
  <2>1. RollbackPlan /\ FreshPlan(plans'[p])
    BY <1>2, AddedPlan
  <2>2. UNCHANGED <<gated, queue, pull>>
    BY <2>1 DEF RollbackPlan, githubVars
  <2>3. q \in members /\ pr[q]
    BY <2>2 DEF Pipeline, PipelineInv
  <2>4. PICK A : A = plans'[p]
    OBVIOUS
  <2>5. PICK i \in 1 .. (Len(A) - 1) :
           A[i].repo = q /\ A[i].kind \in {"close_pull_request", "merge_revert"}
    BY <2>1, <2>3, <2>4 DEF FreshPlan
  <2>6. i \in DOMAIN A
    BY <2>1, <2>4 DEF FreshPlan
  <2> QED BY <2>4, <2>5, <2>6 DEF Covers
<1> QED BY <1>1, <1>2

LEMMA DownwardStep ==
    ASSUME Shape, SoundPlans, DownwardInv, [LoopNext]_vars
    PROVE  DownwardInv'
<1> SUFFICES ASSUME NEW p \in DOMAIN plans', NEW i \in DOMAIN plans'[p], NEW j \in DOMAIN plans'[p],
                    i < j, plans'[p][i].repo \in members', plans'[p][j].repo \in members'
             PROVE  order'[plans'[p][i].repo] >= order'[plans'[p][j].repo]
  BY DEF DownwardInv, Downward
<1>0. SetMove /\ None \notin members' /\ members' \subseteq Repos
  BY SetMoves, NoneAssumption DEF SetMove
<1>1. CASE p \in DOMAIN plans
  <2>1. SamePlan(plans[p], plans'[p])
    BY <1>0, <1>1 DEF SetMove
  <2>2. i \in DOMAIN plans[p] /\ j \in DOMAIN plans[p]
    BY <2>1 DEF SamePlan
  <2>3. ASSUME NEW k \in DOMAIN plans[p], plans'[p][k].repo \in members'
        PROVE  plans[p][k].repo \in members /\ plans'[p][k].repo = plans[p][k].repo
    BY <1>0, <1>1, <2>1, <2>3 DEF SamePlan, SoundPlans, SoundRow, SoundAction
  <2>4. plans[p][i].repo \in members /\ plans[p][j].repo \in members
        /\ plans'[p][i].repo = plans[p][i].repo /\ plans'[p][j].repo = plans[p][j].repo
    BY <2>2, <2>3
  <2>5. order[plans[p][i].repo] >= order[plans[p][j].repo]
    BY <1>1, <2>2, <2>4 DEF DownwardInv, Downward
  <2>6. order'[plans[p][i].repo] = order[plans[p][i].repo]
        /\ order'[plans[p][j].repo] = order[plans[p][j].repo]
    BY <1>0, <2>4 DEF SetMove
  <2> QED BY <2>4, <2>5, <2>6
<1>2. CASE p \notin DOMAIN plans
  <2>1. RollbackPlan /\ FreshPlan(plans'[p])
    BY <1>2, AddedPlan
  <2>2. UNCHANGED order
    BY <2>1 DEF RollbackPlan, PlanRecovery, csVars, candidateVars
  <2>3. PICK A : A = plans'[p]
    OBVIOUS
  <2>4. DOMAIN A = 1 .. Len(A) /\ Len(A) \in Nat /\ A[Len(A)].repo = None
    BY <2>1, <2>3 DEF FreshPlan, Revalidate
  <2>5. i \in 1 .. (Len(A) - 1) /\ j \in 1 .. (Len(A) - 1)
    <3>1. i # Len(A) /\ j # Len(A)
      BY <1>0, <2>3, <2>4
    <3>2. i \in 1 .. Len(A) /\ j \in 1 .. Len(A)
      BY <2>3, <2>4
    <3> QED BY <2>4, <3>1, <3>2
  <2>6. order[A[i].repo] >= order[A[j].repo]
    BY <2>1, <2>3, <2>5 DEF FreshPlan
  <2> QED BY <2>2, <2>3, <2>6
<1> QED BY <1>1, <1>2

\* A finished action stays finished.
LEMMA FinishedKept ==
    ASSUME Shape, [LoopNext]_vars, NEW p \in DOMAIN plans, NEW i \in DOMAIN plans[p],
           plans[p][i].status \in Finished
    PROVE  plans'[p][i].status \in Finished
<1>1. ASSUME CanRecord(plans[p][i].status, saga.outcome) PROVE saga.outcome = plans[p][i].status
  BY <1>1 DEF CanRecord, Finished
<1>2. plans[p][i].status \notin {"pending", "waiting_worker", "failed"}
  BY DEF Finished
<1> QED BY <1>1, <1>2, RowMoves

LEMMA FinishedBeforeKept ==
    ASSUME Shape, [LoopNext]_vars, NEW p \in DOMAIN plans, NEW i, FinishedBefore(p, i)
    PROVE  FinishedBefore(p, i)'
<1>1. SamePlan(plans[p], plans'[p])
  BY SetMoves DEF SetMove
<1>2. ASSUME NEW j \in DOMAIN plans'[p], j < i PROVE plans'[p][j].status \in Finished
  <2>1. j \in DOMAIN plans[p]
    BY <1>1 DEF SamePlan
  <2> QED BY <1>2, <2>1, FinishedKept DEF FinishedBefore
<1> QED BY <1>2 DEF FinishedBefore

LEMMA ClaimedInTurn ==
    ASSUME Shape, SagaClaim
    PROVE  /\ Len(plans) \in DOMAIN plans /\ FinishedBefore(Len(plans), Min(Unfinished))
           /\ saga'.plan = Len(plans) /\ saga'.action = Min(Unfinished)
<1>1. plans # << >> /\ Unfinished # {} /\ TypeOK
  BY DEF SagaClaim, Shape, SetShape
<1>2. /\ Len(plans) \in DOMAIN plans
      /\ \A i \in DOMAIN LastPlan : i < Min(Unfinished) => LastPlan[i].status \in Finished
  BY <1>1, UnfinishedFirst
<1>3. saga'.plan = Len(plans) /\ saga'.action = Min(Unfinished)
  BY DEF SagaClaim
<1> QED BY <1>2, <1>3 DEF FinishedBefore, LastPlan

LEMMA OneByOneStep ==
    ASSUME Shape, OneByOne, [LoopNext]_vars
    PROVE  OneByOne'
<1>0. SetMove /\ Frame /\ SagaShape
  BY SetMoves, Frames DEF Shape
<1>1. ASSUME NEW p \in DOMAIN plans', NEW i \in DOMAIN plans'[p], plans'[p][i].status # "pending"
      PROVE  FinishedBefore(p, i)'
  <2>1. CASE p \in DOMAIN plans
    <3>1. i \in DOMAIN plans[p]
      BY <1>0, <2>1 DEF SetMove, SamePlan
    <3>2. FinishedBefore(p, i)
      <4>1. CASE plans[p][i].status # "pending"
        BY <2>1, <3>1, <4>1 DEF OneByOne
      <4>2. CASE SagaClaim /\ p = Len(plans) /\ i = Min(Unfinished)
        BY <4>2, ClaimedInTurn
      <4>3. CASE SagaRecord /\ p = saga.plan /\ i = saga.action
        BY <4>3 DEF OneByOne, SagaRecord
      <4> QED BY <1>1, <2>1, <3>1, <4>1, <4>2, <4>3, RowMoves
    <3> QED BY <2>1, <3>2, FinishedBeforeKept
  <2>2. CASE p \notin DOMAIN plans
    <3>1. FreshPlan(plans'[p])
      BY <2>2, AddedPlan
    <3>2. PICK A : A = plans'[p]
      OBVIOUS
    <3>3. DOMAIN A = 1 .. Len(A) /\ Len(A) \in Nat /\ A[Len(A)].status = "pending"
      BY <3>1, <3>2 DEF FreshPlan, Revalidate
    <3>4. i \in 1 .. (Len(A) - 1)
      BY <1>1, <3>2, <3>3
    <3>5. A[i].status = "pending"
      BY <3>1, <3>2, <3>4 DEF FreshPlan
    <3> QED BY <1>1, <3>2, <3>5
  <2> QED BY <2>1, <2>2
<1>2. ASSUME saga'.pc # "idle"
      PROVE  \E p \in DOMAIN plans : \E i :
                p = saga'.plan /\ i = saga'.action /\ FinishedBefore(p, i)
  <2>1. CASE SagaClaim
    BY <2>1, ClaimedInTurn
  <2>2. CASE UNCHANGED saga
    BY <1>0, <1>2, <2>2 DEF OneByOne, SagaShape
  <2>3. CASE SagaExecute
    <3>1. saga'.plan = saga.plan /\ saga'.action = saga.action /\ saga.pc # "idle"
      BY <1>0, <2>3 DEF SagaExecute, SagaReports, SagaShape
    <3> QED BY <1>0, <3>1 DEF OneByOne, SagaShape
  <2>4. CASE saga' = NoAction
    BY <1>2, <2>4 DEF NoAction
  <2> QED BY <1>0, <2>1, <2>2, <2>3, <2>4 DEF Frame, Saga, SagaRecord, SagaCrash
<1>3. ASSUME saga'.pc # "idle" PROVE FinishedBefore(saga.plan, saga.action)'
  <2>1. PICK p \in DOMAIN plans :
           \E i : p = saga'.plan /\ i = saga'.action /\ FinishedBefore(p, i)
    BY <1>2, <1>3
  <2>3. PICK i : p = saga'.plan /\ i = saga'.action /\ FinishedBefore(p, i)
    BY <2>1
  <2>2. FinishedBefore(p, i)'
    BY <2>3, FinishedBeforeKept
  <2> QED BY <2>2, <2>3 DEF FinishedBefore
<1> QED BY <1>1, <1>3 DEF OneByOne
-----------------------------------------------------------------------------
\* A revert is opened and merged by an action of a plan, after those before it.
LEMMA RevertMoves ==
    ASSUME Shape, Sound, OneByOne, [LoopNext]_vars, NEW d \in Repos, revert'[d] # revert[d]
    PROVE  /\ UNCHANGED <<pull, gated, queue>>
           /\ \A q \in Repos : q # d => revert'[q] = revert[q]
           /\ \E p \in DOMAIN plans : \E i \in DOMAIN plans[p] :
                 plans[p][i].repo = d /\ plans[p][i].kind \in Reverts /\ FinishedBefore(p, i)
<1>0. Frame /\ SagaShape /\ GitHubShape
  BY Frames DEF Shape
<1>1. CASE SagaExecute
  <2>1. SagaActs
    BY <1>1 DEF SagaExecute
  <2>2. PICK r \in Repos : SagaAction.repo = r /\ (SagaCreateRevert(r) \/ SagaMergeRevert(r))
    BY <2>1 DEF SagaActs, SagaRevalidate, SagaClose
  <2>3. UNCHANGED pull /\ SagaAction.kind \in Reverts
    BY <2>2 DEF SagaCreateRevert, SagaMergeRevert, Reverts
  <2>4. \A q \in Repos : q # r => revert'[q] = revert[q]
    BY <1>0, <2>2 DEF SagaCreateRevert, SagaMergeRevert, GitHubShape
  <2>5. saga.plan \in DOMAIN plans /\ saga.action \in DOMAIN plans[saga.plan]
        /\ FinishedBefore(saga.plan, saga.action)
    BY <1>0, <1>1 DEF SagaExecute, SagaShape, OneByOne
  <2> QED BY <1>1, <2>2, <2>3, <2>4, <2>5 DEF SagaExecute, SagaAction
<1>2. ASSUME NEW p, NEW i, ActionReported(p, i)
      PROVE  /\ UNCHANGED <<pull, gated, queue>>
             /\ \A q \in Repos : q # d => revert'[q] = revert[q]
             /\ p \in DOMAIN plans /\ i \in DOMAIN plans[p]
             /\ plans[p][i].repo = d /\ plans[p][i].kind \in Reverts /\ FinishedBefore(p, i)
  <2>1. p \in DOMAIN plans /\ i \in DOMAIN plans[p] /\ plans[p][i].status = "waiting_worker"
        /\ revert' = Repaired(plans[p][i])
    BY <1>2 DEF ActionReported
  <2>2. plans[p][i].repo = d /\ \A q \in Repos : q # d => revert'[q] = revert[q]
    BY <1>0, <2>1 DEF Repaired, GitHubShape
  <2>3. plans[p][i].kind \in Reverts
    BY <2>1 DEF Sound, SoundPlans, SoundRow, SoundAction
  <2>4. FinishedBefore(p, i)
    BY <2>1 DEF OneByOne
  <2> QED BY <1>2, <2>1, <2>2, <2>3, <2>4 DEF ActionReported, loopVars
<1> QED BY <1>0, <1>1, <1>2 DEF Frame, RevertSteps

\* By then the plan has done with everything downstream.
LEMMA DoneDownstream ==
    ASSUME Shape, Sound, PipelineInv, CoverInv, DownwardInv,
           NEW p \in DOMAIN plans, NEW i \in DOMAIN plans[p],
           plans[p][i].kind \in Reverts, FinishedBefore(p, i),
           NEW r \in Repos, plans[p][i].repo \in Deps[r], Pipeline(r)
    PROVE  pull[r] = "closed" \/ revert[r] = "merged"
<1>1. PICK d : d = plans[p][i].repo
  OBVIOUS
<1>2. PICK j \in DOMAIN plans[p] :
         plans[p][j].repo = r /\ plans[p][j].kind \in {"close_pull_request", "merge_revert"}
  BY DEF CoverInv, Covers
<1>3. r \in members /\ d \in members /\ order[d] < order[r]
      /\ order[d] \in Nat /\ order[r] \in Nat
  BY <1>1 DEF PipelineInv, Shape, SetShape, OrderInv, OrderRespectsDeps
<1>4. i \in Nat /\ j \in Nat
  BY DEF Shape, SetShape, TypeOK
<1>5. ~(i < j) /\ i # j
  BY <1>1, <1>2, <1>3 DEF DownwardInv, Downward
<1>6. plans[p][j].status \in Finished
  BY <1>4, <1>5 DEF FinishedBefore
<1>7. SoundAction(plans[p][j].kind, r, plans[p][j].status)
  BY <1>2 DEF Sound, SoundPlans, SoundRow
<1>8. plans[p][j].status = "succeeded"
  BY <1>6, <1>7 DEF SoundAction, Finished
<1> QED BY <1>2, <1>7, <1>8 DEF SoundAction, Effect

LEMMA RevertStep ==
    ASSUME Governed, Shape, Sound, OrderlyInv, [LoopNext]_vars
    PROVE  RevertInv'
<1>0. SetMove
  BY SetMoves
<1>1. ASSUME NEW r \in Repos, revert'[r] # "none" PROVE pull'[r] = "merged" /\ plans' # << >>
  <2>1. pull[r] = "merged" /\ plans # << >>
    <3>1. CASE revert'[r] = revert[r]
      BY <1>1, <3>1 DEF OrderlyInv, RevertInv
    <3>2. CASE revert'[r] # revert[r]
      <4>1. PICK p \in DOMAIN plans : \E i \in DOMAIN plans[p] :
               plans[p][i].repo = r /\ plans[p][i].kind \in Reverts
        BY <3>2, RevertMoves DEF OrderlyInv
      <4> QED BY <4>1 DEF Sound, SoundPlans, SoundRow, SoundAction
    <3> QED BY <3>1, <3>2
  <2>2. 1 \in DOMAIN plans
    BY <2>1 DEF Shape, SetShape, TypeOK
  <2>3. 1 \in DOMAIN plans'
    BY <1>0, <2>2 DEF SetMove
  <2> QED BY <2>1, <2>3, GitHubKeeps
<1>2. ASSUME NEW r \in Repos, NEW d \in Deps[r], revert'[d] = "merged", Pipeline(r)'
      PROVE  pull'[r] = "closed" \/ revert'[r] = "merged"
  <2>0. d \in Repos
    OBVIOUS
  <2>1. pull[r] = "closed" \/ revert[r] = "merged"
    <3>1. CASE revert[d] = "merged"
      <4>1. plans # << >>
        BY <2>0, <3>1 DEF OrderlyInv, RevertInv
      <4>2. Pipeline(r)
        BY <1>2, <4>1, PipelineFrom, GateClosed DEF OrderlyInv, Sound, Honest
      <4> QED BY <3>1, <4>2 DEF OrderlyInv, RevertInv
    <3>2. CASE revert[d] # "merged"
      <4>1. UNCHANGED <<pull, gated, queue>>
        BY <1>2, <2>0, <3>2, RevertMoves DEF OrderlyInv
      <4>2. Pipeline(r)
        BY <1>2, <4>1 DEF Pipeline
      <4>3. PICK p \in DOMAIN plans : \E i \in DOMAIN plans[p] :
               plans[p][i].repo = d /\ plans[p][i].kind \in Reverts /\ FinishedBefore(p, i)
        BY <1>2, <2>0, <3>2, RevertMoves DEF OrderlyInv
      <4> QED BY <4>2, <4>3, DoneDownstream DEF OrderlyInv
    <3> QED BY <3>1, <3>2
  <2> QED BY <2>1, GitHubKeeps, RevertKeeps
<1> QED BY <1>1, <1>2 DEF RevertInv

LEMMA OrderlyInit == LoopInit => OrderlyInv
<1> SUFFICES ASSUME LoopInit PROVE OrderlyInv
  OBVIOUS
<1>1. plans = << >> /\ cleared = [r \in Repos |-> {}] /\ rollback = NoRollback /\ saga = NoAction
      /\ pull = [r \in Repos |-> "none"] /\ revert = [r \in Repos |-> "none"]
      /\ queue = [c \in Command |-> "absent"] /\ gated = {}
  BY DEF LoopInit, Init
<1>2. \A q \in Repos : ~Pipeline(q)
  BY <1>1 DEF Pipeline, Command
<1>3. DecisionInv
  BY <1>1 DEF DecisionInv, NoRollback
<1>4. OneByOne
  BY <1>1 DEF OneByOne, NoAction
<1> QED BY <1>1, <1>2, <1>3, <1>4 DEF OrderlyInv, PipelineInv, CoverInv, DownwardInv, RevertInv

LEMMA OrderlyInvariance ==
    ASSUME Governed
    PROVE  LoopSpec => [](Shape /\ Sound /\ OrderlyInv)
<1>1. Shape /\ Sound /\ OrderlyInv /\ [LoopNext]_vars => OrderlyInv'
  <2> SUFFICES ASSUME Shape, Sound, OrderlyInv, [LoopNext]_vars PROVE OrderlyInv'
    OBVIOUS
  <2>1. PipelineInv' /\ DecisionInv' /\ CoverInv'
    BY PipelineStep, DecisionStep, CoverStep DEF OrderlyInv, Sound
  <2>2. DownwardInv' /\ OneByOne'
    BY DownwardStep, OneByOneStep DEF OrderlyInv, Sound
  <2> QED BY <2>1, <2>2, RevertStep DEF OrderlyInv
<1> QED BY <1>1, OrderlyInit, SoundInvariance, PTL DEF LoopSpec
-----------------------------------------------------------------------------
\* The phase of a change, from its revert and its pull request.
Look(v, p) ==
    CASE v = "merged"                     -> "reverted"
      [] v # "merged" /\ p = "merged"     -> "in_place"
      [] v # "merged" /\ p = "closed"     -> "withdrawn"
      [] v # "merged" /\ p = "none"       -> "unpublished"
      [] OTHER                            -> "proposed"
Phases == [r \in Repos |-> Look(revert[r], pull[r])]

Turns(r, from, to) == Phases[r] = from /\ Phases' = [Phases EXCEPT ![r] = to]

LEMMA Looks ==
    ASSUME NEW v, NEW p
    PROVE  /\ v = "merged" => Look(v, p) = "reverted"
           /\ v # "merged" /\ p = "merged" => Look(v, p) = "in_place"
           /\ v # "merged" /\ p = "closed" => Look(v, p) = "withdrawn"
           /\ v # "merged" /\ p = "none" => Look(v, p) = "unpublished"
           /\ v # "merged" /\ p \notin {"merged", "closed", "none"} => Look(v, p) = "proposed"
           /\ Look(v, p) = "in_place" => v # "merged" /\ p = "merged"
BY DEF Look

LEMMA PhaseOf ==
    ASSUME NEW r \in Repos
    PROVE  Phases[r] = Look(revert[r], pull[r]) /\ Phases'[r] = Look(revert'[r], pull'[r])
BY DEF Phases

LEMMA Turning ==
    ASSUME NEW r \in Repos, \A q \in Repos : q # r => revert'[q] = revert[q] /\ pull'[q] = pull[q]
    PROVE  Phases' = [Phases EXCEPT ![r] = Look(revert'[r], pull'[r])]
<1>1. \A q \in Repos : Phases'[q] = Look(revert'[q], pull'[q]) /\ Phases[q] = Look(revert[q], pull[q])
  BY PhaseOf
<1>2. \A q \in Repos : q # r => Phases'[q] = Phases[q]
  BY <1>1
<1>3. Phases = [q \in Repos |-> Phases[q]] /\ Phases' = [q \in Repos |-> Phases'[q]]
  BY DEF Phases
<1> HIDE DEF Phases
<1> QED BY <1>1, <1>2, <1>3

LEMMA SamePhase ==
    ASSUME NEW r \in Repos, \A q \in Repos : q # r => revert'[q] = revert[q] /\ pull'[q] = pull[q],
           Look(revert'[r], pull'[r]) = Look(revert[r], pull[r])
    PROVE  Phases' = Phases
<1>1. Phases'[r] = Phases[r] /\ \A q \in Repos : q # r => Phases'[q] = Phases[q]
  BY PhaseOf
<1>2. Phases = [q \in Repos |-> Phases[q]] /\ Phases' = [q \in Repos |-> Phases'[q]]
  BY DEF Phases
<1> QED BY <1>1, <1>2

\* A merge is performed only where everything upstream is in place.
LEMMA MergeInOrder ==
    ASSUME Shape, OrderlyInv, NEW r \in Repos, NEW h \in Heads, DispatchMerge(r, h), pull[r] # "merged"
    PROVE  Turns(r, "proposed", "in_place") /\ \A d \in Deps[r] : Phases[d] = "in_place"
<1>0. GitHubShape
  BY DEF Shape
<1>1. pull[r] = "open" /\ pull' = [pull EXCEPT ![r] = "merged"] /\ UNCHANGED revert /\ Pipeline(r)
  BY DEF DispatchMerge, Pipeline
<1>2. revert[r] = "none"
  BY <1>0, <1>1 DEF OrderlyInv, RevertInv, GitHubShape
<1>3. ASSUME NEW d \in Deps[r] PROVE Phases[d] = "in_place"
  <2>1. d \in Repos /\ pull[d] = "merged"
    BY <1>1 DEF OrderlyInv, PipelineInv
  <2>2. revert[d] # "merged"
    BY <1>1, <1>2 DEF OrderlyInv, RevertInv
  <2> QED BY <2>1, <2>2, PhaseOf, Looks
<1>4. Phases[r] = "proposed"
  BY <1>1, <1>2, PhaseOf, Looks
<1>5. pull'[r] = "merged" /\ revert'[r] # "merged"
      /\ \A q \in Repos : q # r => revert'[q] = revert[q] /\ pull'[q] = pull[q]
  BY <1>0, <1>1, <1>2 DEF GitHubShape
<1>6. Phases' = [Phases EXCEPT ![r] = "in_place"]
  BY <1>5, Turning, Looks
<1> QED BY <1>3, <1>4, <1>6 DEF Turns

\* A revert is merged only where nothing downstream is in place.
LEMMA RevertInOrder ==
    ASSUME Shape, Sound, OrderlyInv, [LoopNext]_vars, NEW d \in Repos, revert'[d] # revert[d]
    PROVE  \/ Phases' = Phases
           \/ /\ Turns(d, "in_place", "reverted")
              /\ \A q \in Repos : d \in Deps[q] => Phases[q] # "in_place"
<1>0. revert'[d] \in {"none", "open", "merged"}
  BY ShapeStep DEF Shape, GitHubShape
<1>1. UNCHANGED pull /\ \A q \in Repos : q # d => revert'[q] = revert[q] /\ pull'[q] = pull[q]
  BY RevertMoves DEF OrderlyInv
<1>2. PICK p \in DOMAIN plans : \E i \in DOMAIN plans[p] :
         plans[p][i].repo = d /\ plans[p][i].kind \in Reverts /\ FinishedBefore(p, i)
  BY RevertMoves DEF OrderlyInv
<1>3. PICK i \in DOMAIN plans[p] :
         plans[p][i].repo = d /\ plans[p][i].kind \in Reverts /\ FinishedBefore(p, i)
  BY <1>2
<1>4. pull[d] = "merged" /\ pull'[d] = "merged"
  BY <1>1, <1>3 DEF Sound, SoundPlans, SoundRow, SoundAction
<1>5. revert[d] # "merged" /\ Phases[d] = "in_place"
  BY <1>4, RevertKeeps, PhaseOf, Looks
<1>6. CASE revert'[d] # "merged"
  <2>1. Look(revert'[d], pull'[d]) = Look(revert[d], pull[d])
    BY <1>4, <1>5, <1>6, Looks
  <2> QED BY <1>1, <2>1, SamePhase
<1>7. CASE revert'[d] = "merged"
  <2>1. Phases' = [Phases EXCEPT ![d] = "reverted"]
    BY <1>1, <1>7, Turning, Looks
  <2>2. ASSUME NEW q \in Repos, d \in Deps[q], Phases[q] = "in_place" PROVE FALSE
    <3>1. pull[q] = "merged" /\ revert[q] # "merged"
      BY <2>2, PhaseOf, Looks
    <3>2. Pipeline(q)
      BY <3>1 DEF Pipeline
    <3>3. pull[q] = "closed" \/ revert[q] = "merged"
      BY <1>3, <2>2, <3>2, DoneDownstream DEF OrderlyInv
    <3> QED BY <3>1, <3>3
  <2> QED BY <1>5, <2>1, <2>2 DEF Turns
<1> QED BY <1>6, <1>7

\* Only what has been published is withdrawn.
LEMMA WithdrawInOrder ==
    ASSUME Shape, Sound, OrderlyInv, SagaExecute, UNCHANGED revert
    PROVE  Phases' = Phases \/ \E r \in Repos : Turns(r, "proposed", "withdrawn")
<1>0. GitHubShape /\ SagaShape
  BY DEF Shape
<1>1. CASE UNCHANGED pull
  BY <1>1 DEF Phases
<1>2. CASE ~UNCHANGED pull
  <2>1. PICK r \in Repos : SagaAction.repo = r /\ SagaClose(r)
    BY <1>2 DEF SagaExecute, SagaActs, SagaRevalidate, SagaCreateRevert, SagaMergeRevert
  <2>2. saga.plan \in DOMAIN plans /\ saga.action \in DOMAIN plans[saga.plan]
    BY <1>0 DEF SagaExecute, SagaShape
  <2>3. r \in members /\ pr[r]
    BY <2>1, <2>2 DEF SagaClose, SagaAction, Sound, SoundPlans, SoundRow, SoundAction, Reverts
  <2>4. pull[r] \notin {"none", "merged"} /\ revert[r] # "merged"
    BY <2>1, <2>3 DEF SagaClose, Sound, Honest, RecordsHold, OrderlyInv, RevertInv
  <2>5. pull'[r] = "closed" /\ revert'[r] # "merged"
        /\ \A q \in Repos : q # r => revert'[q] = revert[q] /\ pull'[q] = pull[q]
    BY <1>0, <2>1, <2>4 DEF SagaClose, GitHubShape
  <2>6. CASE pull[r] = "closed"
    <3>1. Look(revert'[r], pull'[r]) = Look(revert[r], pull[r])
      BY <2>4, <2>5, <2>6, Looks
    <3> QED BY <2>5, <3>1, SamePhase
  <2>7. CASE pull[r] # "closed"
    <3>1. Phases[r] = "proposed"
      BY <2>4, <2>7, PhaseOf, Looks
    <3>2. Phases' = [Phases EXCEPT ![r] = "withdrawn"]
      BY <2>5, Turning, Looks
    <3> QED BY <3>1, <3>2 DEF Turns
  <2> QED BY <2>6, <2>7
<1> QED BY <1>1, <1>2
LEMMA TurnsInOrder ==
    ASSUME Governed, Shape, Sound, OrderlyInv, [LoopNext]_vars
    PROVE  \/ Phases' = Phases
           \/ \E r \in Repos :
                \/ Turns(r, "unpublished", "proposed")
                \/ Turns(r, "proposed", "withdrawn")
                \/ Turns(r, "proposed", "in_place") /\ \A d \in Deps[r] : Phases[d] = "in_place"
                \/ /\ Turns(r, "in_place", "reverted")
                   /\ \A q \in Repos : r \in Deps[q] => Phases[q] # "in_place"
<1>0. Frame /\ GitHubShape /\ GitHubShape'
  BY Frames, ShapeStep DEF Shape
<1>1. CASE \E d \in Repos : revert'[d] # revert[d]
  BY <1>1, RevertInOrder
<1>2. CASE UNCHANGED revert /\ UNCHANGED pull
  BY <1>2 DEF Phases
<1>3. CASE UNCHANGED revert /\ PullSteps
  <2>1. ASSUME NEW r \in Repos PROVE ~HumanMerges(r)
    BY DEF HumanMerges, Governed
  <2>2. ASSUME NEW r \in Repos, Publish(r) PROVE Turns(r, "unpublished", "proposed")
    <3>1. pull[r] = "none" /\ pull'[r] = "draft"
          /\ \A q \in Repos : q # r => revert'[q] = revert[q] /\ pull'[q] = pull[q]
      BY <1>0, <2>2 DEF Publish, GitHubShape
    <3>2. revert[r] # "merged" /\ revert'[r] # "merged"
      BY <1>3, <3>1 DEF OrderlyInv, RevertInv
    <3>3. Phases[r] = "unpublished"
      BY <3>1, <3>2, PhaseOf, Looks
    <3>4. Phases' = [Phases EXCEPT ![r] = "proposed"]
      BY <3>1, <3>2, Turning, Looks
    <3> QED BY <3>3, <3>4 DEF Turns
  <2>3. ASSUME NEW r \in Repos, NEW h \in Heads, DispatchUndraft(r, h) PROVE Phases' = Phases
    <3>1. /\ pull'[r] = IF pull[r] = "draft" THEN "open" ELSE pull[r]
          /\ revert'[r] = revert[r]
          /\ \A q \in Repos : q # r => revert'[q] = revert[q] /\ pull'[q] = pull[q]
      BY <1>0, <2>3 DEF DispatchUndraft, GitHubShape
    <3>2. Look(revert'[r], pull'[r]) = Look(revert[r], pull[r])
      BY <3>1, Looks
    <3> QED BY <3>1, <3>2, SamePhase
  <2>4. ASSUME NEW r \in Repos, NEW h \in Heads, DispatchMerge(r, h)
        PROVE  \/ Phases' = Phases
               \/ Turns(r, "proposed", "in_place") /\ \A d \in Deps[r] : Phases[d] = "in_place"
    <3>1. CASE pull[r] = "merged"
      <4>1. UNCHANGED pull
        BY <1>0, <2>4, <3>1 DEF DispatchMerge, GitHubShape
      <4> QED BY <1>3, <4>1 DEF Phases
    <3>2. CASE pull[r] # "merged"
      BY <2>4, <3>2, MergeInOrder
    <3> QED BY <3>1, <3>2
  <2>5. ASSUME SagaExecute PROVE Phases' = Phases \/ \E r \in Repos : Turns(r, "proposed", "withdrawn")
    BY <1>3, <2>5, WithdrawInOrder
  <2> QED BY <1>3, <2>1, <2>2, <2>3, <2>4, <2>5 DEF PullSteps
<1>4. UNCHANGED revert \/ \E d \in Repos : revert'[d] # revert[d]
  BY <1>0 DEF GitHubShape
<1> QED BY <1>0, <1>1, <1>2, <1>3, <1>4 DEF Frame

\* On GitHub itself changes are put in place upstream first and taken away downstream first,
\* although the gate is evaluated long before the queued merge is performed and a rollback
\* may be planned in between: as long as nobody merges by hand, and a rollback has decisions
\* to take away.
THEOREM ImplementsOrderCorrect ==
    ASSUME Governed
    PROVE  LoopSpec => ImplementsOrder
<1>1. LoopInit => Order!Init
  BY DEF LoopInit, Order!Init
<1>2. Shape /\ Sound /\ OrderlyInv /\ [LoopNext]_vars => [Order!Next]_Phases
  <2> SUFFICES ASSUME Shape, Sound, OrderlyInv, [LoopNext]_vars PROVE [Order!Next]_Phases
    OBVIOUS
  <2>1. ASSUME NEW r \in Repos, Turns(r, "unpublished", "proposed") PROVE Order!Next
    BY <2>1 DEF Turns, Phases, Look, Order!Next, Order!Propose, Order!Become
  <2>2. ASSUME NEW r \in Repos, Turns(r, "proposed", "withdrawn") PROVE Order!Next
    BY <2>2 DEF Turns, Phases, Look, Order!Next, Order!Withdraw, Order!Become
  <2>3. ASSUME NEW r \in Repos, Turns(r, "proposed", "in_place"),
               \A d \in Deps[r] : Phases[d] = "in_place"
        PROVE  Order!Next
    BY <2>3 DEF Turns, Phases, Look, Order!Next, Order!Merge, Order!Become
  <2>4. ASSUME NEW r \in Repos, Turns(r, "in_place", "reverted"),
               \A q \in Repos : r \in Deps[q] => Phases[q] # "in_place"
        PROVE  Order!Next
    BY <2>4 DEF Turns, Phases, Look, Order!Next, Order!Revert, Order!Become
  <2> QED BY <2>1, <2>2, <2>3, <2>4, TurnsInOrder
<1> QED BY <1>1, <1>2, OrderlyInvariance, PTL DEF LoopSpec, ImplementsOrder, Order!Spec, Phases, Look
InPlaceTogether ==
    \A r \in Repos : \A d \in Deps[r] : Phases[r] = "in_place" => Phases[d] = "in_place"

\* So no change is ever in place on GitHub, merged and not reverted, without all of those it
\* depends on: what the merge order, the gate and the reverse order of a rollback are for.
THEOREM InPlaceCorrect ==
    ASSUME Governed
    PROVE  LoopSpec => []InPlaceTogether
<1>1. ASSUME OrderlyInv, NEW r \in Repos, NEW d \in Deps[r], Phases[r] = "in_place"
      PROVE  Phases[d] = "in_place"
  <2>1. revert[r] # "merged" /\ pull[r] = "merged"
    BY <1>1, PhaseOf, Looks
  <2>2. Pipeline(r) /\ d \in Repos
    BY <2>1 DEF Pipeline
  <2>3. pull[d] = "merged" /\ revert[d] # "merged"
    BY <1>1, <2>1, <2>2 DEF OrderlyInv, PipelineInv, RevertInv
  <2> QED BY <2>2, <2>3, PhaseOf, Looks
<1>2. OrderlyInv => InPlaceTogether
  BY <1>1 DEF InPlaceTogether
<1> QED BY <1>2, OrderlyInvariance, PTL

-----------------------------------------------------------------------------
\* The ChangeSet keeps its own promises when all of the processes work on it at the same
\* time: the merge order, the evidence, the cursor and the one open gate.
THEOREM ChangeSetKeepsItsPromises ==
    LoopSpec => [](OrderRespectsDeps /\ MergeNeedsEvidence /\ CursorExact /\ SerialMerge)
<1>1. Shape => OrderRespectsDeps /\ MergeNeedsEvidence
  BY DEF Shape, SetShape, OrderInv, EvidenceInv, MergeNeedsEvidence, Cleared
<1>2. Shape => CursorExact /\ SerialMerge
  BY CursorIsExact, GateIsSerial DEF Shape, SetShape
<1> QED BY <1>1, <1>2, ShapeInvariance, PTL
================================================================================
