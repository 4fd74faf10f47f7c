---------------------------- MODULE ChangeSet_proofs ----------------------------
(***************************************************************************)
(* Proofs about ChangeSet for any repositories, dependencies, heads,       *)
(* checks, reviewers and policies.                                         *)
(***************************************************************************)
EXTENDS ChangeSet, FiniteSetTheorems, NaturalsInduction, SequenceTheorems, TLAPS

USE DepsAssumption, HeadAssumption, FiniteAssumption

-----------------------------------------------------------------------------
(* The merge order. *)

\* Positions are below the number of members, no two members share one, and a
\* dependency of a member is a member in an earlier position.
OrderInv ==
    /\ members \subseteq Repos
    /\ order \in [Repos -> Nat]
    /\ \A r \in members : order[r] < Cardinality(members)
    /\ \A r, q \in members : r # q => order[r] # order[q]
    /\ OrderRespectsDeps

\* A batch that is disjoint from the members and whose dependencies are on board
\* extends the merge order.
LEMMA FreshOrder ==
    ASSUME NEW S \in SUBSET Repos, S \cap members = {}, OrderInv, Fresh(S),
           \A r \in S : Deps[r] \subseteq members \cup S
    PROVE  OrderInv'
<1> DEFINE n == Cardinality(members)
           k == Cardinality(S)
<1>1. IsFiniteSet(members) /\ IsFiniteSet(S) /\ n \in Nat /\ k \in Nat
  BY FS_Subset, FS_CardinalityType DEF OrderInv
<1>2. PICK o \in MergeOrders(S, n) : order' = [r \in Repos |-> IF r \in S THEN o[r] ELSE order[r]]
  BY DEF Fresh
<1>3. members' = members \cup S
  BY DEF Fresh
<1>4. Cardinality(members') = n + k
  <2>1. Cardinality(members \cup S) = n + k - Cardinality(members \cap S)
    BY <1>1, FS_Union
  <2>2. members \cap S = {}
    OBVIOUS
  <2>3. Cardinality(members \cap S) = 0
    BY <2>2, FS_EmptySet
  <2>4. Cardinality(members \cup S) = n + k
    BY <2>1, <2>3, <1>1
  <2> QED BY <2>4, <1>3
<1>5. PICK round \in [S -> 0 .. (k - 1)] :
        /\ IsRounds(S, round)
        /\ \A r, q \in S : r # q => o[r] # o[q]
        /\ \A r, q \in S : round[r] < round[q] => o[r] < o[q]
  BY <1>2 DEF MergeOrders
<1>6. o \in [S -> n .. (n + k - 1)]
  BY <1>2 DEF MergeOrders
<1>7. ASSUME NEW r \in S PROVE order'[r] = o[r] /\ o[r] \in Nat /\ n <= o[r] /\ o[r] < n + k
  BY <1>1, <1>2, <1>6
<1>8. ASSUME NEW r \in members PROVE order'[r] = order[r] /\ order[r] \in Nat /\ order[r] < n
  BY <1>2 DEF OrderInv
<1>9. members' \subseteq Repos /\ order' \in [Repos -> Nat]
  BY <1>2, <1>3, <1>7 DEF OrderInv
<1>10. \A r \in members' : order'[r] < Cardinality(members')
  BY <1>1, <1>3, <1>4, <1>7, <1>8
<1>11. ASSUME NEW r \in members', NEW q \in members', r # q PROVE order'[r] # order'[q]
  <2>1. CASE r \in S /\ q \in S
    BY <2>1, <1>5, <1>7, <1>11
  <2>2. CASE r \in members /\ q \in members
    BY <2>2, <1>8, <1>11 DEF OrderInv
  <2>3. CASE r \in S /\ q \in members
    BY <2>3, <1>1, <1>7, <1>8
  <2>4. CASE r \in members /\ q \in S
    BY <2>4, <1>1, <1>7, <1>8
  <2> QED BY <2>1, <2>2, <2>3, <2>4, <1>3
<1>12. ASSUME NEW r \in members', NEW d \in Deps[r] PROVE d \in members' /\ order'[d] < order'[r]
  <2>1. CASE r \in members
    BY <2>1, <1>3, <1>8 DEF OrderInv, OrderRespectsDeps
  <2>2. CASE r \in S /\ d \in members
    BY <2>2, <1>1, <1>3, <1>7, <1>8
  <2>3. CASE r \in S /\ d \in S
    <3>1. round[d] < round[r]
      BY <2>3, <1>5, <1>12 DEF IsRounds
    <3> QED BY <2>3, <3>1, <1>3, <1>5, <1>7
  <2> QED BY <2>1, <2>2, <2>3, <1>3
<1> QED BY <1>9, <1>10, <1>11, <1>12 DEF OrderInv, OrderRespectsDeps

\* Only prepare and append_candidates touch the merge order.
LEMMA OrderStep == OrderInv /\ [Next]_csVars => OrderInv'
<1> SUFFICES ASSUME OrderInv, [Next]_csVars PROVE OrderInv'
  OBVIOUS
<1>1. CASE UNCHANGED <<members, order>>
  BY <1>1 DEF OrderInv, OrderRespectsDeps
<1>2. ASSUME NEW S \in SUBSET Repos, Prepare(S) PROVE OrderInv'
  BY <1>2, FreshOrder DEF Prepare
<1>3. ASSUME NEW S \in SUBSET Repos, Append_(S) PROVE OrderInv'
  BY <1>3, FreshOrder DEF Append_
<1>4. CASE Observations
  <2>1. UNCHANGED <<members, order>>
    BY <1>4 DEF Observations, ObservePullRequest, ObserveCI, ObserveReview, CheckUpstream,
         ObserveMerge, RecordMerge, RequestMerge, candidateVars
  <2> QED BY <2>1, <1>1
<1>5. CASE Control
  <2>1. UNCHANGED <<members, order>>
    BY <1>5 DEF Control, RecordGovernance, Revise, OpenCase, ResolveCase, candidateVars
  <2> QED BY <2>1, <1>1
<1>6. CASE Recovery
  <2>1. UNCHANGED <<members, order>>
    BY <1>6 DEF Recovery, PlanRecovery, RecordRecoveryAction, candidateVars
  <2> QED BY <2>1, <1>1
<1>7. CASE Expire \/ UNCHANGED csVars
  <2>1. UNCHANGED <<members, order>>
    BY <1>7 DEF Expire, csVars, candidateVars
  <2> QED BY <2>1, <1>1
<1> QED BY <1>2, <1>3, <1>4, <1>5, <1>6, <1>7 DEF Next, Candidates

\* The merge order of a ChangeSet is topological, whatever batches it grew from
\* (_merge_order and _merge_order_for_append).
THEOREM OrderCorrect == Spec => []OrderRespectsDeps
<1>1. Init => OrderInv
  BY FS_EmptySet DEF Init, OrderInv, OrderRespectsDeps
<1>2. OrderInv => OrderRespectsDeps
  BY DEF OrderInv
<1> QED BY <1>1, <1>2, OrderStep, PTL DEF Spec

-----------------------------------------------------------------------------
(* Evidence. *)

Cleared == {"ready_to_merge", "merge_requested", "merged"}

\* MergeNeedsEvidence, for every repository and not only the members: a repository
\* joins with the status it has.
EvidenceInv ==
    /\ pr \in [Repos -> BOOLEAN]
    /\ DOMAIN ci = Repos /\ DOMAIN lastCheck = Repos /\ DOMAIN reviews = Repos
    /\ DOMAIN status = Repos
    /\ members \subseteq Repos
    /\ \A r \in Repos : status[r] \in Cleared =>
           pr[r] /\ Readiness(ci[r], lastCheck[r], reviews[r]) = "ready_to_merge"

\* An operation that leaves the candidates' evidence and status alone.
LEMMA EvidenceKept ==
    ASSUME EvidenceInv, members' \subseteq Repos, UNCHANGED <<pr, ci, lastCheck, reviews, status>>
    PROVE  EvidenceInv'
BY DEF EvidenceInv

\* Every operation either leaves the evidence alone, or recomputes the status
\* from it, or takes a status that already needed it.
LEMMA EvidenceStep == EvidenceInv /\ [Next]_csVars => EvidenceInv'
<1> SUFFICES ASSUME EvidenceInv, [Next]_csVars PROVE EvidenceInv'
  OBVIOUS
<1>1. ASSUME NEW S \in SUBSET Repos, Prepare(S) \/ Append_(S) PROVE EvidenceInv'
  <2>1. members' \subseteq Repos
    BY <1>1 DEF Prepare, Append_, Fresh, EvidenceInv
  <2>2. UNCHANGED <<pr, ci, lastCheck, reviews, status>>
    BY <1>1 DEF Prepare, Append_
  <2> QED BY <2>1, <2>2, EvidenceKept
<1>2. ASSUME NEW r \in Repos, ObservePullRequest(r, head[r]) PROVE EvidenceInv'
  BY <1>2 DEF ObservePullRequest, SetRepoStatus, EvidenceInv, Cleared
<1>3. ASSUME NEW r \in Repos, NEW c \in Checks, NEW result \in CheckResult,
             ObserveCI(r, c, result)
      PROVE  EvidenceInv'
  <2>1. /\ pr[r] /\ UNCHANGED <<members, pr, reviews>>
        /\ DOMAIN ci' = Repos /\ DOMAIN lastCheck' = Repos /\ DOMAIN status' = Repos
        /\ lastCheck'[r] = c
        /\ status'[r] = Readiness(ci'[r], c, reviews[r])
        /\ \A q \in Repos \ {r} : /\ ci'[q] = ci[q] /\ lastCheck'[q] = lastCheck[q]
                                  /\ status'[q] = status[q]
    BY <1>3 DEF ObserveCI, CanObserveCI, SetRepoStatus, EvidenceInv
  <2>2. Readiness(ci'[r], c, reviews[r]) \in Cleared
            => Readiness(ci'[r], c, reviews[r]) = "ready_to_merge"
    BY DEF Readiness, Cleared
  <2> QED BY <2>1, <2>2 DEF EvidenceInv
<1>4. ASSUME NEW r \in Repos, NEW v \in Reviewers, NEW state \in ReviewState,
             ObserveReview(r, v, state, head[r])
      PROVE  EvidenceInv'
  <2>1. /\ pr[r] /\ UNCHANGED <<members, pr, ci, lastCheck>>
        /\ DOMAIN reviews' = Repos /\ DOMAIN status' = Repos
        /\ status'[r] = Readiness(ci[r], lastCheck[r], reviews'[r])
        /\ \A q \in Repos \ {r} : reviews'[q] = reviews[q] /\ status'[q] = status[q]
    BY <1>4 DEF ObserveReview, CanObserveReview, SetRepoStatus, EvidenceInv
  <2>2. Readiness(ci[r], lastCheck[r], reviews'[r]) \in Cleared
            => Readiness(ci[r], lastCheck[r], reviews'[r]) = "ready_to_merge"
    BY DEF Readiness, Cleared
  <2> QED BY <2>1, <2>2 DEF EvidenceInv
<1>5. ASSUME NEW r \in Repos, CheckUpstream(r) PROVE EvidenceInv'
  BY <1>5, EvidenceKept DEF CheckUpstream, candidateVars, EvidenceInv
<1>6. ASSUME NEW r \in Repos, ObserveMerge(r) PROVE EvidenceInv'
  <2>1. CASE CanObserveMerge(r)
    BY <1>6, <2>1 DEF ObserveMerge, RecordMerge, CanObserveMerge, SetRepoStatus, EvidenceInv, Cleared
  <2>2. CASE ~CanObserveMerge(r)
    BY <1>6, <2>2, EvidenceKept DEF ObserveMerge, RecordMerge, EvidenceInv
  <2> QED BY <2>1, <2>2
<1>7. ASSUME NEW r \in Repos, RequestMerge(r, head[r]) PROVE EvidenceInv'
  BY <1>7 DEF RequestMerge, CanRequestMerge, SetRepoStatus, EvidenceInv, Cleared
<1>8. ASSUME NEW r \in Repos, NEW new \in Heads, Revise(r, head[r], new) PROVE EvidenceInv'
  BY <1>8 DEF Revise, EvidenceInv, Cleared
<1>9. ASSUME NEW r \in Repos,
             \/ \E ready \in BOOLEAN : RecordGovernance(r, head[r], ready)
             \/ OpenCase(r, head[r]) \/ ResolveCase(r)
      PROVE  EvidenceInv'
  BY <1>9, EvidenceKept DEF RecordGovernance, OpenCase, ResolveCase, candidateVars, EvidenceInv
<1>10. CASE Recovery \/ Expire \/ UNCHANGED csVars
  <2>1. UNCHANGED <<members, pr, ci, lastCheck, reviews, status>>
    BY <1>10 DEF Recovery, PlanRecovery, RecordRecoveryAction, Expire, csVars, candidateVars
  <2> QED BY <2>1, EvidenceKept DEF EvidenceInv
<1> QED BY <1>1, <1>2, <1>3, <1>4, <1>5, <1>6, <1>7, <1>8, <1>9, <1>10
        DEF Next, Candidates, Observations, Control

\* A candidate is ready, requested or merged only on evidence of its current head
\* (_readiness_status, request_merge, observe_merge, revise).
THEOREM EvidenceCorrect == Spec => []MergeNeedsEvidence
<1>1. Init => EvidenceInv
  BY DEF Init, EvidenceInv, Cleared
<1>2. EvidenceInv => MergeNeedsEvidence
  BY DEF EvidenceInv, MergeNeedsEvidence, Cleared
<1> QED BY <1>1, <1>2, EvidenceStep, PTL DEF Spec

-----------------------------------------------------------------------------
(* The merge cursor and the gate. *)

\* A set of numbers that is not empty has a minimum, and Min finds it.
LEMMA MinOfSet ==
    ASSUME NEW T \in SUBSET Nat, T # {}
    PROVE  Min(T) \in T /\ \A y \in T : Min(T) <= y
<1>1. \E x \in T : \A y \in T : ~ (<<y, x>> \in OpToRel(<, Nat))
  BY NatLessThanWellFounded, WFMin
<1>2. PICK x \in T : \A y \in T : ~ (<<y, x>> \in OpToRel(<, Nat))
  BY <1>1
<1>3. ASSUME NEW y \in T PROVE x <= y
  <2>1. y < x => <<y, x>> \in OpToRel(<, Nat)
    BY Zenon DEF OpToRel
  <2>2. ~ (y < x)
    BY <1>2, <2>1
  <2> QED BY <2>2
<1> QED BY <1>3 DEF Min

\* The minimum of a set with 0 in it.
LEMMA MinIsZero ==
    ASSUME NEW T \in SUBSET Nat, 0 \in T
    PROVE  Min(T) = 0
<1>1. Min(T) \in T /\ Min(T) <= 0
  BY MinOfSet
<1>2. Min(T) \in Nat
  BY <1>1
<1>3. \A m \in Nat : m <= 0 => m = 0
  OBVIOUS
<1> QED BY <1>1, <1>2, <1>3

\* A first batch numbers some candidate 0: otherwise two would share a number.
LEMMA FirstIsZero ==
    ASSUME NEW S \in SUBSET Repos, S # {}, NEW o \in MergeOrders(S, 0)
    PROVE  \E r \in S : o[r] = 0
<1> DEFINE k == Cardinality(S)
<1>1. IsFiniteSet(S) /\ k \in Nat /\ k # 0
  BY FS_Subset, FS_CardinalityType, FS_EmptySet
<1>2. o \in [S -> 0 .. (k - 1)] /\ \A r, q \in S : r # q => o[r] # o[q]
  BY <1>1 DEF MergeOrders
<1>3. SUFFICES ASSUME \A r \in S : o[r] # 0 PROVE FALSE
  OBVIOUS
<1>4. o \in [S -> 1 .. (k - 1)]
  BY <1>1, <1>2, <1>3
<1>5. IsFiniteSet(1 .. (k - 1)) /\ Cardinality(1 .. (k - 1)) < k
  <2>1. 1 \in Int /\ k - 1 \in Int
    BY <1>1
  <2>2. /\ IsFiniteSet(1 .. (k - 1))
        /\ Cardinality(1 .. (k - 1)) = IF 1 > k - 1 THEN 0 ELSE (k - 1) - 1 + 1
    BY <2>1, FS_Interval, Zenon
  <2> QED BY <2>2, <1>1
<1>6. \E x, y \in S : x # y /\ o[x] = o[y]
  BY <1>1, <1>4, <1>5, FS_PigeonHole
<1> QED BY <1>2, <1>6

\* The cursor is always the one with_repositories computes, although many steps
\* leave it alone, and so does "delivered" agree with the candidates.
CursorInv ==
    /\ status \in [Repos -> RepoStatus]
    /\ \A r \in Repos \ members : status[r] = "pending"
    /\ members # {} =>
          /\ cursor = CursorOf(status, members, order)
          /\ csStatus = "delivered" => Pending(status, members) = {}

\* CursorInv says all there is to say: with the merge order it gives CursorExact.
LEMMA CursorIsExact == OrderInv /\ CursorInv => CursorExact
<1> SUFFICES ASSUME OrderInv, CursorInv, members # {} PROVE
        /\ \A r \in members : order[r] < cursor => status[r] = "merged"
        /\ \/ \E r \in members : order[r] = cursor /\ status[r] # "merged"
           \/ cursor = Cardinality(members) /\ Pending(status, members) = {}
        /\ csStatus = "delivered" => Pending(status, members) = {}
  BY DEF CursorExact
<1> DEFINE P == Pending(status, members)
           T == {order[r] : r \in P}
<1>1. P \subseteq members /\ T \in SUBSET Nat /\ \A r \in members \ P : status[r] = "merged"
  BY DEF Pending, OrderInv
<1>2. cursor = CursorOf(status, members, order)
  BY DEF CursorInv
<1>3. CASE P = {}
  BY <1>1, <1>2, <1>3 DEF CursorOf, CursorInv
<1>4. CASE P # {}
  <2>1. cursor = Min(T)
    BY <1>2, <1>4 DEF CursorOf
  <2>2. cursor \in T /\ \A y \in T : cursor <= y
    BY <2>1, <1>1, <1>4, MinOfSet
  <2>3. \E r \in members : order[r] = cursor /\ status[r] # "merged"
    BY <2>2 DEF Pending
  <2>4. ASSUME NEW r \in members, order[r] < cursor PROVE status[r] = "merged"
    <3>1. r \notin P
      BY <2>2, <2>4, <1>1
    <3> QED BY <3>1, <1>1
  <2> QED BY <2>3, <2>4 DEF CursorInv
<1> QED BY <1>3, <1>4

\* with_repositories establishes the invariant.
LEMMA RefreshKeepsCursor ==
    ASSUME status' \in [Repos -> RepoStatus],
           \A r \in Repos \ members' : status'[r] = "pending",
           Refresh(status', members', order')
    PROVE  CursorInv'
BY DEF CursorInv, Refresh, DeliveryStatus

\* The first batch starts with the cursor at the candidate numbered 0.
LEMMA PrepareCursor ==
    ASSUME OrderInv, CursorInv, NEW S \in SUBSET Repos, Prepare(S)
    PROVE  CursorInv'
<1>1. members = {} /\ S # {} /\ members' = S /\ status' = status
      /\ csStatus' = "ready" /\ cursor' = 0 /\ Cardinality(members) = 0
  BY FS_EmptySet DEF Prepare, Fresh
<1>2. \A r \in Repos : status[r] = "pending"
  BY <1>1 DEF CursorInv
<1>3. PICK o \in MergeOrders(S, 0) :
        order' = [r \in Repos |-> IF r \in S THEN o[r] ELSE order[r]]
  BY <1>1 DEF Prepare, Fresh
<1>4. PICK r \in S : o[r] = 0
  BY <1>1, FirstIsZero
<1>5. \A q \in S : order'[q] \in Nat
  BY <1>1, FreshOrder DEF Prepare, OrderInv
<1>6. Pending(status', members') = S
  BY <1>1, <1>2 DEF Pending
<1> DEFINE T == {order'[q] : q \in S}
<1>7. T \in SUBSET Nat /\ T # {} /\ 0 \in T
  BY <1>1, <1>3, <1>4, <1>5
<1>8. Min(T) = 0
  BY <1>7, MinIsZero
<1>9. CursorOf(status', members', order') = 0
  BY <1>1, <1>6, <1>8 DEF CursorOf
<1> QED BY <1>1, <1>2, <1>9 DEF CursorInv

\* CursorInv is kept by every operation.
LEMMA CursorStep == OrderInv /\ CursorInv /\ [Next]_csVars => CursorInv'
<1> SUFFICES ASSUME OrderInv, CursorInv, [Next]_csVars PROVE CursorInv'
  OBVIOUS
<1> DEFINE Same == UNCHANGED <<members, order, status, cursor>>
<1>1. ASSUME Same, csStatus' = "delivered" => csStatus = "delivered" PROVE CursorInv'
  BY <1>1 DEF CursorInv, CursorOf, Pending
<1>2. ASSUME NEW r \in members, NEW s \in RepoStatus, UNCHANGED <<members, order>>,
             SetRepoStatus(r, s)
      PROVE  CursorInv'
  <2>1. status' \in [Repos -> RepoStatus] /\ \A q \in Repos \ members' : status'[q] = "pending"
    BY <1>2 DEF SetRepoStatus, CursorInv, OrderInv
  <2>2. Refresh(status', members', order')
    BY <1>2 DEF SetRepoStatus
  <2> QED BY <2>1, <2>2, RefreshKeepsCursor
<1>3. ASSUME NEW S \in SUBSET Repos, Append_(S) PROVE CursorInv'
  <2>1. status' = status /\ members' = members \cup S
    BY <1>3 DEF Append_, Fresh
  <2>2. Refresh(status', members', order')
    BY <1>3, <2>1 DEF Append_
  <2> QED BY <2>1, <2>2, RefreshKeepsCursor DEF CursorInv
<1>4. ASSUME NEW checks, NEW last, NEW revs PROVE Readiness(checks, last, revs) \in RepoStatus
  BY DEF Readiness, RepoStatus
<1>5. ASSUME NEW r \in Repos, ObservePullRequest(r, head[r]) PROVE CursorInv'
  BY <1>5, <1>2 DEF ObservePullRequest, CanObservePullRequest, RepoStatus
<1>6. ASSUME NEW r \in Repos, NEW c \in Checks, NEW result \in CheckResult,
             ObserveCI(r, c, result)
      PROVE  CursorInv'
  BY <1>6, <1>2, <1>4 DEF ObserveCI, CanObserveCI
<1>7. ASSUME NEW r \in Repos, NEW v \in Reviewers, NEW state \in ReviewState,
             ObserveReview(r, v, state, head[r])
      PROVE  CursorInv'
  BY <1>7, <1>2, <1>4 DEF ObserveReview, CanObserveReview
<1>8. ASSUME NEW r \in Repos, ObserveMerge(r) PROVE CursorInv'
  <2>1. CASE CanObserveMerge(r)
    <3>1. r \in members
      BY <2>1 DEF CanObserveMerge, CursorInv
    <3>2. SetRepoStatus(r, "merged") /\ UNCHANGED <<members, order>>
      BY <1>8, <2>1 DEF ObserveMerge, RecordMerge
    <3> QED BY <3>1, <3>2, <1>2 DEF RepoStatus
  <2>2. CASE ~CanObserveMerge(r)
    BY <1>8, <2>2, <1>1 DEF ObserveMerge, RecordMerge, summaryVars
  <2> QED BY <2>1, <2>2
<1>9. ASSUME NEW r \in Repos, RequestMerge(r, head[r]) PROVE CursorInv'
  BY <1>9, <1>2 DEF RequestMerge, CanRequestMerge, RepoStatus
<1>10. ASSUME NEW r \in Repos, NEW new \in Heads, Revise(r, head[r], new) PROVE CursorInv'
  <2>1. r \in members /\ UNCHANGED <<members, order>> /\ csStatus' = "delivering"
        /\ cursor' = CursorOf(status', members', order')
    BY <1>10 DEF Revise, CanRevise
  <2>2. status' \in [Repos -> RepoStatus] /\ \A q \in Repos \ members' : status'[q] = "pending"
    BY <1>10, <2>1 DEF Revise, CursorInv, RepoStatus
  <2> QED BY <2>1, <2>2 DEF CursorInv
<1>11. ASSUME NEW r \in Repos,
              \/ CheckUpstream(r)
              \/ \E ready \in BOOLEAN : RecordGovernance(r, head[r], ready)
              \/ OpenCase(r, head[r]) \/ ResolveCase(r)
       PROVE  CursorInv'
  BY <1>11, <1>1 DEF CheckUpstream, RecordGovernance, OpenCase, ResolveCase, candidateVars,
                     summaryVars
<1>12. CASE Recovery
  <2>1. Same /\ csStatus' # "delivered"
    BY <1>12 DEF Recovery, PlanRecovery, RecordRecoveryAction, RecoveryStatus, candidateVars
  <2> QED BY <2>1, <1>1
<1>13. CASE Expire \/ UNCHANGED csVars
  BY <1>13, <1>1 DEF Expire, csVars, candidateVars, summaryVars
<1> QED BY PrepareCursor, <1>3, <1>5, <1>6, <1>7, <1>8, <1>9, <1>10, <1>11, <1>12, <1>13
        DEF Next, Candidates, Observations, Control

\* When the gate is open for a candidate, all before it are merged, and so it is
\* open for no other (evaluate_merge_gate reads the cursor).
LEMMA GateIsSerial == OrderInv /\ CursorExact => SerialMerge
<1> SUFFICES ASSUME OrderInv, CursorExact, NEW r \in Repos, GateOpen(r),
                    NEW q \in members \ {r}
             PROVE  (order[q] < order[r] => status[q] = "merged") /\ ~GateOpen(q)
  BY DEF SerialMerge
<1>1. /\ r \in members /\ status[r] = "ready_to_merge" /\ order[r] <= cursor
      /\ order[r] \in Nat /\ order[q] \in Nat /\ order[r] # order[q]
  BY DEF GateOpen, OrderInv
<1>2. cursor \in Nat
  BY FS_Subset, FS_CardinalityType, FiniteAssumption, <1>1 DEF CursorExact, OrderInv
<1>3. order[q] < order[r] => status[q] = "merged"
  BY <1>1, <1>2 DEF CursorExact
<1>4. GateOpen(q) => order[q] <= cursor /\ status[q] = "ready_to_merge"
  BY DEF GateOpen
<1>5. GateOpen(q) /\ order[r] < order[q] => status[r] = "merged"
  BY <1>1, <1>2, <1>4 DEF CursorExact
<1> QED BY <1>1, <1>3, <1>4, <1>5

\* Both invariants of the merge order and cursor hold in every reachable state.
LEMMA CursorInvariance == Spec => [](OrderInv /\ CursorInv)
<1>1. Init => OrderInv /\ CursorInv
  BY FS_EmptySet DEF Init, OrderInv, OrderRespectsDeps, CursorInv, RepoStatus
<1> QED BY <1>1, OrderStep, CursorStep, PTL DEF Spec

\* The merge cursor, the status of the ChangeSet and the candidates agree
\* (with_repositories).
THEOREM CursorCorrect == Spec => []CursorExact
BY CursorInvariance, CursorIsExact, PTL

\* The gate lets the candidates through one at a time, in merge order.
THEOREM SerialCorrect == Spec => []SerialMerge
BY CursorInvariance, CursorIsExact, GateIsSerial, PTL

-----------------------------------------------------------------------------
(* Recovery. *)

\* record_recovery_action announces "compensated" only for a plan that is complete,
\* and no other step does.
LEMMA CompensatedStep == CompensatedMeansComplete /\ [Next]_csVars => CompensatedMeansComplete'
<1> SUFFICES ASSUME CompensatedMeansComplete, [Next]_csVars PROVE CompensatedMeansComplete'
  OBVIOUS
<1>1. CASE csStatus' # "compensated"
  BY <1>1 DEF CompensatedMeansComplete
<1>2. CASE UNCHANGED <<csStatus, plans>>
  BY <1>2 DEF CompensatedMeansComplete, Complete
<1>3. ASSUME NEW st, NEW mem, NEW ord, Refresh(st, mem, ord) PROVE csStatus' # "compensated"
  BY <1>3 DEF Refresh, DeliveryStatus
<1>4. ASSUME NEW S \in SUBSET Repos, Prepare(S) \/ Append_(S) PROVE CompensatedMeansComplete'
  BY <1>4, <1>1, <1>3 DEF Prepare, Append_
<1>5. CASE Observations
  <2>1. (\E st, mem, ord : Refresh(st, mem, ord)) \/ UNCHANGED <<csStatus, plans>>
    BY <1>5, Zenon DEF Observations, ObservePullRequest, ObserveCI, ObserveReview,
         CheckUpstream, ObserveMerge, RecordMerge, RequestMerge, SetRepoStatus, summaryVars
  <2> QED BY <2>1, <1>1, <1>2, <1>3
<1>6. CASE Control
  <2>1. csStatus' = "delivering" \/ UNCHANGED <<csStatus, plans>>
    BY <1>6 DEF Control, RecordGovernance, Revise, OpenCase, ResolveCase, summaryVars
  <2> QED BY <2>1, <1>1, <1>2
<1>7. ASSUME NEW actions, PlanRecovery(actions) PROVE CompensatedMeansComplete'
  BY <1>7, <1>1 DEF PlanRecovery
<1>8. ASSUME NEW p, NEW i, NEW new, RecordRecoveryAction(p, i, new)
      PROVE  CompensatedMeansComplete'
  <2>1. p \in DOMAIN plans'
    BY <1>8, Zenon DEF RecordRecoveryAction
  <2>2. csStatus' = "compensated" => Complete(plans'[p])
    BY <1>8 DEF RecordRecoveryAction, RecoveryStatus
  <2> QED BY <2>1, <2>2 DEF CompensatedMeansComplete
<1>9. CASE Expire \/ UNCHANGED csVars
  BY <1>9, <1>2 DEF Expire, csVars, summaryVars, sideVars
<1> QED BY <1>4, <1>5, <1>6, <1>7, <1>8, <1>9 DEF Next, Candidates, Recovery

\* A ChangeSet is called compensated only when a recovery plan has run to its end
\* (ChangeSet.record_recovery_action).
THEOREM CompensatedCorrect == Spec => []CompensatedMeansComplete
<1>1. Init => CompensatedMeansComplete
  BY DEF Init, CompensatedMeansComplete
<1> QED BY <1>1, CompensatedStep, PTL DEF Spec
-----------------------------------------------------------------------------
(* The actions of a recovery plan. *)

\* Reversed(S) lists S, each candidate once, the last of the merge order first.
LEMMA ReversedSorts ==
    ASSUME OrderInv, NEW S \in SUBSET members
    PROVE  /\ Cardinality(S) \in Nat
           /\ Reversed(S) \in [1 .. Cardinality(S) -> S]
           /\ \A i, j \in 1 .. Cardinality(S) :
                  i < j => order[Reversed(S)[i]] > order[Reversed(S)[j]]
           /\ \A r \in S : \E i \in 1 .. Cardinality(S) : Reversed(S)[i] = r
<1> DEFINE n == Cardinality(S)
           D == 1 .. n
           Above(r) == {q \in S : order[q] > order[r]}
<1>1. IsFiniteSet(S) /\ n \in Nat /\ \A r \in S : order[r] \in Nat
  BY FS_Subset, FS_CardinalityType DEF OrderInv
<1>2. IsFiniteSet(D) /\ Cardinality(D) = n
  <2>1. IsFiniteSet(D) /\ Cardinality(D) = IF 1 > n THEN 0 ELSE n - 1 + 1
    BY <1>1, FS_Interval
  <2> QED BY <2>1, <1>1
<1>3. ASSUME NEW r \in S
      PROVE IsFiniteSet(Above(r)) /\ Cardinality(Above(r)) \in Nat /\ Cardinality(Above(r)) < n
  <2>1. Above(r) \in SUBSET S /\ r \notin Above(r)
    BY <1>1
  <2>2. IsFiniteSet(Above(r)) /\ Cardinality(Above(r)) <= n
        /\ (Cardinality(Above(r)) = n => Above(r) = S)
    BY <2>1, <1>1, FS_Subset
  <2>3. Cardinality(Above(r)) \in Nat
    BY <2>2, FS_CardinalityType
  <2> QED BY <2>1, <2>2, <2>3, <1>1
<1> DEFINE rank == [r \in S |-> 1 + Cardinality(Above(r))]
<1>4. rank \in [S -> D] /\ \A r \in S : rank[r] = 1 + Cardinality(Above(r))
  BY <1>3, <1>1
<1> HIDE DEF rank
<1>5. ASSUME NEW r \in S, NEW q \in S, order[r] < order[q] PROVE rank[q] < rank[r]
  <2>1. Above(q) \in SUBSET Above(r) /\ q \in Above(r) /\ q \notin Above(q)
    BY <1>1, <1>5
  <2>2. Cardinality(Above(q)) <= Cardinality(Above(r))
        /\ Cardinality(Above(r)) # Cardinality(Above(q))
    BY <2>1, <1>3, FS_Subset
  <2> DEFINE a == Cardinality(Above(q))
             b == Cardinality(Above(r))
  <2>3. a \in Nat /\ b \in Nat /\ a <= b /\ a # b /\ rank[q] = 1 + a /\ rank[r] = 1 + b
    BY <2>2, <1>3, <1>4
  <2> HIDE DEF a, b
  <2> QED BY <2>3
<1>6. rank \in Injection(S, D)
  <2>1. ASSUME NEW r \in S, NEW q \in S, r # q PROVE rank[r] # rank[q]
    <3>1. order[r] < order[q] \/ order[q] < order[r]
      BY <1>1, <2>1 DEF OrderInv
    <3>2. rank[r] \in Int /\ rank[q] \in Int
      BY <1>4, <1>1
    <3> QED BY <3>1, <3>2, <1>5
  <2> QED BY <2>1, <1>4 DEF Injection, IsInjective
<1>7. rank \in Surjection(S, D)
  BY <1>1, <1>2, <1>6, FS_Injection
<1> DEFINE s == [i \in D |-> CHOOSE r \in S : rank[r] = i]
<1>8. \A i \in D : s[i] \in S /\ rank[s[i]] = i
  <2>1. \A i \in D : \E r \in S : rank[r] = i
    BY <1>7 DEF Surjection
  <2> QED BY <2>1
<1>14. s \in [D -> S]
  BY <1>8
<1> HIDE DEF s
<1>9. s \in [D -> S] /\ \A i, j \in D : i < j => order[s[i]] > order[s[j]]
  <2>2. ASSUME NEW i \in D, NEW j \in D, i < j PROVE order[s[i]] > order[s[j]]
    <3>1. s[i] \in S /\ s[j] \in S /\ rank[s[i]] < rank[s[j]]
      BY <1>8, <2>2
    <3>4. rank[s[i]] \in Int /\ rank[s[j]] \in Int
      BY <3>1, <1>4, <1>1
    <3>2. s[i] # s[j] /\ ~(order[s[i]] < order[s[j]])
      BY <3>1, <3>4, <1>5
    <3>3. order[s[i]] # order[s[j]]
      BY <3>1, <3>2 DEF OrderInv
    <3> QED BY <3>1, <3>2, <3>3, <1>1
  <2> QED BY <1>14, <2>2
<1> DEFINE t == Reversed(S)
<1>10. t \in [D -> S] /\ \A i, j \in D : i < j => order[t[i]] > order[t[j]]
  BY <1>9 DEF Reversed
<1> HIDE DEF t
<1>11. t \in Injection(D, S)
  <2>1. ASSUME NEW i \in D, NEW j \in D, i # j PROVE t[i] # t[j]
    <3>1. i < j \/ j < i
      BY <2>1, <1>1
    <3>2. t[i] \in S /\ t[j] \in S
      BY <1>10
    <3> QED BY <3>1, <3>2, <1>1, <1>10
  <2> QED BY <2>1, <1>10 DEF Injection, IsInjective
<1>12. t \in Surjection(D, S)
  BY <1>1, <1>2, <1>11, FS_Injection
<1>13. \A r \in S : \E i \in D : t[i] = r
  BY <1>12 DEF Surjection
<1> QED BY <1>1, <1>10, <1>13 DEF t

\* F is made of the first n blocks: at[i] is the block that F[i] comes from, and everything
\* in a block is in F.
Traces(F, blocks, n, at) ==
    /\ at \in [1 .. Len(F) -> 1 .. n]
    /\ \A i \in 1 .. Len(F) : \E m \in 1 .. Len(blocks[at[i]]) : F[i] = blocks[at[i]][m]
    /\ \A i, j \in 1 .. Len(F) : i < j => at[i] <= at[j]
    /\ \A k \in 1 .. n : \A m \in 1 .. Len(blocks[k]) :
           \E i \in 1 .. Len(F) : at[i] = k /\ F[i] = blocks[k][m]

\* One more block.
LEMMA TracesLonger ==
    ASSUME NEW X, NEW blocks \in Seq(Seq(X)), NEW n \in Nat, n + 1 \in 1 .. Len(blocks),
           NEW F \in Seq(X), NEW at, Traces(F, blocks, n, at)
    PROVE  /\ F \o blocks[n + 1] \in Seq(X)
           /\ \E a : Traces(F \o blocks[n + 1], blocks, n + 1, a)
<1> DEFINE b == blocks[n + 1]
           G == F \o b
           a == [i \in 1 .. Len(G) |-> IF i <= Len(F) THEN at[i] ELSE n + 1]
<1>1. b \in Seq(X)
  BY ElementOfSeq
<1>2. /\ G \in Seq(X) /\ Len(G) = Len(F) + Len(b) /\ Len(F) \in Nat /\ Len(b) \in Nat
      /\ \A i \in 1 .. Len(F) : G[i] = F[i]
      /\ \A m \in 1 .. Len(b) : G[Len(F) + m] = b[m]
  BY <1>1, ConcatProperties, LenProperties
<1>3. at \in [1 .. Len(F) -> 1 .. n]
  BY DEF Traces
<1> HIDE DEF b, G
<1>4. a \in [1 .. Len(G) -> 1 .. (n + 1)]
  BY <1>2, <1>3
<1>5. /\ \A i \in 1 .. Len(F) : a[i] = at[i] /\ a[i] \in 1 .. n /\ i \in 1 .. Len(G)
      /\ \A m \in 1 .. Len(b) : a[Len(F) + m] = n + 1 /\ Len(F) + m \in 1 .. Len(G)
  <2>1. ASSUME NEW i \in 1 .. Len(F)
        PROVE  i \in 1 .. Len(G) /\ i <= Len(F) /\ at[i] \in 1 .. n
    <3>1. Len(G) = Len(F) + Len(b) /\ Len(F) \in Nat /\ Len(b) \in Nat
      BY <1>2
    <3>2. i \in 1 .. Len(G) /\ i <= Len(F)
      BY <3>1
    <3>3. at[i] \in 1 .. n
      BY <1>3
    <3> QED BY <3>2, <3>3
  <2>2. ASSUME NEW m \in 1 .. Len(b)
        PROVE  Len(F) + m \in 1 .. Len(G) /\ ~(Len(F) + m <= Len(F))
    BY <1>2
  <2> QED BY <2>1, <2>2
<1>6. \A i \in 1 .. Len(G) : i \in 1 .. Len(F) \/ \E m \in 1 .. Len(b) : i = Len(F) + m
  <2>1. ASSUME NEW i \in 1 .. Len(G), i \notin 1 .. Len(F)
        PROVE  i - Len(F) \in 1 .. Len(b) /\ i = Len(F) + (i - Len(F))
    BY <2>1, <1>2
  <2> QED BY <2>1
<1> HIDE DEF a
<1>7. ASSUME NEW i \in 1 .. Len(G)
      PROVE  \E m \in 1 .. Len(blocks[a[i]]) : G[i] = blocks[a[i]][m]
  <2>1. CASE i \in 1 .. Len(F)
    <3>1. PICK m \in 1 .. Len(blocks[at[i]]) : F[i] = blocks[at[i]][m]
      BY <2>1 DEF Traces
    <3>2. G[i] = F[i] /\ a[i] = at[i]
      BY <2>1, <1>2, <1>5
    <3> QED BY <3>1, <3>2
  <2>2. CASE \E m \in 1 .. Len(b) : i = Len(F) + m
    <3>1. PICK m \in 1 .. Len(b) : i = Len(F) + m
      BY <2>2
    <3>2. G[i] = b[m] /\ a[i] = n + 1
      BY <3>1, <1>2, <1>5
    <3> QED BY <3>2 DEF b
  <2> QED BY <1>6, <2>1, <2>2
<1>8. ASSUME NEW i \in 1 .. Len(G), NEW j \in 1 .. Len(G), i < j PROVE a[i] <= a[j]
  <2>1. CASE i \in 1 .. Len(F) /\ j \in 1 .. Len(F)
    BY <2>1, <1>5, <1>8 DEF Traces
  <2>2. CASE \E m \in 1 .. Len(b) : j = Len(F) + m
    <3>1. PICK m \in 1 .. Len(b) : j = Len(F) + m
      BY <2>2
    <3>2. a[j] = n + 1 /\ a[i] \in 1 .. (n + 1)
      BY <3>1, <1>4, <1>5
    <3> QED BY <3>2
  <2>3. CASE j \in 1 .. Len(F) /\ \E m \in 1 .. Len(b) : i = Len(F) + m
    BY <2>3, <1>2, <1>8
  <2> QED BY <1>6, <2>1, <2>2, <2>3
<1>9. ASSUME NEW k \in 1 .. (n + 1), NEW m \in 1 .. Len(blocks[k])
      PROVE  \E i \in 1 .. Len(G) : a[i] = k /\ G[i] = blocks[k][m]
  <2>1. CASE k \in 1 .. n
    <3>1. PICK i \in 1 .. Len(F) : at[i] = k /\ F[i] = blocks[k][m]
      BY <2>1 DEF Traces
    <3> QED BY <3>1, <1>2, <1>5
  <2>2. CASE k = n + 1
    BY <2>2, <1>2, <1>5 DEF b
  <2> QED BY <2>1, <2>2
<1>10. Traces(G, blocks, n + 1, a)
  BY <1>4, <1>7, <1>8, <1>9 DEF Traces
<1>11. G = F \o blocks[n + 1]
  BY DEF G, b
<1> QED BY <1>2, <1>10, <1>11

\* FlattenSeq concatenates the blocks.
LEMMA FlattenTraces ==
    ASSUME NEW X, NEW blocks \in Seq(Seq(X))
    PROVE  /\ FlattenSeq(blocks) \in Seq(X)
           /\ \E at : Traces(FlattenSeq(blocks), blocks, Len(blocks), at)
<1> DEFINE N == Len(blocks)
           Body(f, i) == IF i = 1 THEN blocks[i] ELSE f[i - 1] \o blocks[i]
           Partial(n) == \E f : f = [i \in 1 .. n |-> Body(f, i)]
<1>1. N \in Nat
  BY LenProperties
<1>2. CASE N = 0
  <2>1. FlattenSeq(blocks) = blocks /\ blocks = << >>
    BY <1>2 DEF FlattenSeq
  <2>2. << >> \in Seq(X) /\ Len(<< >>) = 0
    BY EmptySeq
  <2>3. Traces(<< >>, blocks, 0, << >>)
    BY <2>2 DEF Traces
  <2> QED BY <2>1, <2>2, <2>3, <1>2
<1>3. CASE N # 0
  <2>1. \A n \in 1 .. N : Partial(n)
    <3> HIDE DEF Partial
    <3> DEFINE T == {n \in 1 .. N : ~Partial(n)}
    <3>1. SUFFICES ASSUME T # {} PROVE FALSE
      OBVIOUS
    <3>2. T \in SUBSET Nat
      BY <1>1
    <3>3. PICK n \in T : \A y \in T : n <= y
      BY <3>1, <3>2, MinOfSet
    <3>4. n \in 1 .. N /\ ~Partial(n)
      BY <3>3
    <3>5. CASE n = 1
      <4> DEFINE f == [i \in 1 .. 1 |-> blocks[1]]
      <4>1. f = [i \in 1 .. 1 |-> Body(f, i)]
        OBVIOUS
      <4> QED BY <4>1, <3>4, <3>5 DEF Partial
    <3>6. CASE n # 1
      <4>1. n - 1 \in 1 .. N /\ ~(n <= n - 1)
        BY <3>4, <3>6, <1>1
      <4>2. PICK f : f = [i \in 1 .. (n - 1) |-> Body(f, i)]
        BY <4>1, <3>3 DEF Partial
      <4> DEFINE g == [i \in 1 .. n |-> IF i = n THEN f[n - 1] \o blocks[n] ELSE f[i]]
      <4>3. ASSUME NEW i \in 1 .. n PROVE g[i] = Body(g, i)
        <5>1. CASE i = 1
          BY <5>1, <4>1, <4>2, <3>4, <3>6
        <5>2. CASE i # 1
          <6>1. g[i - 1] = f[i - 1]
            BY <5>2, <3>4
          <6>2. CASE i = n
            BY <6>1, <6>2, <5>2
          <6>3. CASE i # n
            <7>1. i \in 1 .. (n - 1) /\ g[i] = f[i]
              BY <6>3, <3>4
            <7>2. f[i] = Body(f, i)
              BY <7>1, <4>2
            <7> QED BY <7>1, <7>2, <6>1, <5>2
          <6> QED BY <6>2, <6>3
        <5> QED BY <5>1, <5>2
      <4>4. g = [i \in 1 .. n |-> Body(g, i)]
        BY <4>3
      <4> QED BY <4>4, <3>4 DEF Partial
    <3> QED BY <3>5, <3>6
  <2> DEFINE flatten == CHOOSE f : f = [i \in 1 .. N |-> Body(f, i)]
  <2>2. flatten = [i \in 1 .. N |-> Body(flatten, i)]
    <3>1. N \in 1 .. N
      BY <1>1, <1>3
    <3>2. Partial(N)
      BY <2>1, <3>1 DEF Partial
    <3> QED BY <3>2
  <2>3. FlattenSeq(blocks) = flatten[N]
    BY <1>3 DEF FlattenSeq
  <2> HIDE DEF flatten
  <2>4. flatten[1] = blocks[1] /\ \A n \in 1 .. N : n # 1 => flatten[n] = flatten[n - 1] \o blocks[n]
    <3>1. \A i \in 1 .. N : flatten[i] = Body(flatten, i)
      BY <2>2, Zenon
    <3>2. ASSUME NEW n \in 1 .. N, n # 1 PROVE flatten[n] = flatten[n - 1] \o blocks[n]
      BY <3>1, <3>2, Zenon
    <3>3. 1 \in 1 .. N
      BY <1>1, <1>3
    <3>4. flatten[1] = blocks[1]
      BY <3>1, <3>3, Zenon
    <3> QED BY <3>2, <3>4
  <2> DEFINE Made(n) == flatten[n] \in Seq(X) /\ \E at : Traces(flatten[n], blocks, n, at)
  <2>5. \A n \in 1 .. N : Made(n)
    <3> DEFINE T == {n \in 1 .. N : ~Made(n)}
    <3>1. SUFFICES ASSUME T # {} PROVE FALSE
      OBVIOUS
    <3>2. T \in SUBSET Nat
      BY <1>1
    <3>3. PICK n \in T : \A y \in T : n <= y
      BY <3>1, <3>2, MinOfSet
    <3>4. n \in 1 .. N /\ ~Made(n)
      BY <3>3
    <3>5. CASE n = 1
      <4>1. << >> \in Seq(X) /\ Len(<< >>) = 0
        BY EmptySeq
      <4>2. Traces(<< >>, blocks, 0, << >>)
        BY <4>1 DEF Traces
      <4>3. /\ << >> \o blocks[0 + 1] \in Seq(X)
            /\ \E a : Traces(<< >> \o blocks[0 + 1], blocks, 0 + 1, a)
        <5>1. 0 \in Nat /\ 0 + 1 \in 1 .. Len(blocks)
          BY <3>4, <3>5
        <5> QED BY <4>1, <4>2, <5>1, TracesLonger
      <4>4. blocks[1] \in Seq(X)
        BY <3>4, <3>5, ElementOfSeq
      <4>5. << >> \o blocks[1] = blocks[1]
        BY <4>4, ConcatEmptySeq
      <4> QED BY <4>3, <4>5, <2>4, <3>4, <3>5
    <3>6. CASE n # 1
      <4>1. n - 1 \in 1 .. N /\ ~(n <= n - 1) /\ n - 1 \in Nat /\ (n - 1) + 1 = n
        BY <3>4, <3>6, <1>1
      <4>2. Made(n - 1)
        BY <4>1, <3>3
      <4>3. PICK at : Traces(flatten[n - 1], blocks, n - 1, at)
        BY <4>2
      <4>4. /\ flatten[n - 1] \o blocks[n] \in Seq(X)
            /\ \E a : Traces(flatten[n - 1] \o blocks[n], blocks, n, a)
        <5>1. n - 1 \in Nat /\ (n - 1) + 1 \in 1 .. Len(blocks) /\ flatten[n - 1] \in Seq(X)
          BY <4>1, <4>2, <3>4
        <5>2. /\ flatten[n - 1] \o blocks[(n - 1) + 1] \in Seq(X)
              /\ \E a : Traces(flatten[n - 1] \o blocks[(n - 1) + 1], blocks, (n - 1) + 1, a)
          BY <5>1, <4>3, TracesLonger
        <5> QED BY <5>2, <4>1
      <4>5. flatten[n] = flatten[n - 1] \o blocks[n]
        BY <2>4, <3>4, <3>6
      <4> QED BY <4>4, <4>5, <3>4
    <3> QED BY <3>5, <3>6
  <2> QED BY <2>3, <2>5, <1>1, <1>3
<1> QED BY <1>2, <1>3

\* What is done about one candidate.
LEMMA CompensationType ==
    ASSUME NEW r \in Repos, pr \in [Repos -> BOOLEAN]
    PROVE  /\ CompensationOf(r) \in Seq(Action)
           /\ \A m \in 1 .. Len(CompensationOf(r)) :
                  CompensationOf(r)[m].repo = r /\ CompensationOf(r)[m].status = "pending"
<1> DEFINE act(k) == [kind |-> k, repo |-> r, status |-> "pending"]
<1>1. \A k \in ActionKind : act(k) \in Action /\ act(k).repo = r /\ act(k).status = "pending"
  BY DEF Action, ActionStatus
<1>2. \/ status[r] = "merged"
         /\ CompensationOf(r) = << act("create_revert"), act("merge_revert") >>
      \/ status[r] # "merged" /\ pr[r]
         /\ CompensationOf(r) = << act("close_pull_request") >>
      \/ status[r] # "merged" /\ ~pr[r] /\ CompensationOf(r) = << >>
  BY DEF CompensationOf
<1> HIDE DEF act
<1>3. CASE status[r] = "merged"
  <2> DEFINE x == act("create_revert")
             y == act("merge_revert")
  <2>1. /\ x \in Action /\ x.repo = r /\ x.status = "pending"
        /\ y \in Action /\ y.repo = r /\ y.status = "pending"
    BY <1>1 DEF ActionKind
  <2>2. CompensationOf(r) = << x, y >>
    BY <1>2, <1>3
  <2> HIDE DEF x, y
  <2>3. << x, y >> \in Seq(Action) /\ Len(<< x, y >>) = 2
        /\ \A m \in 1 .. 2 : << x, y >>[m] = x \/ << x, y >>[m] = y
    BY <2>1
  <2> QED BY <2>1, <2>2, <2>3
<1>4. CASE status[r] # "merged" /\ pr[r]
  <2> DEFINE x == act("close_pull_request")
  <2>1. x \in Action /\ x.repo = r /\ x.status = "pending"
    BY <1>1 DEF ActionKind
  <2>2. CompensationOf(r) = << x >>
    BY <1>2, <1>4
  <2> HIDE DEF x
  <2>3. << x >> \in Seq(Action) /\ Len(<< x >>) = 1 /\ \A m \in 1 .. 1 : << x >>[m] = x
    BY <2>1
  <2> QED BY <2>1, <2>2, <2>3
<1>5. CASE status[r] # "merged" /\ ~pr[r]
  <2>1. << >> \in Seq(Action) /\ Len(<< >>) = 0
    BY EmptySeq
  <2>2. CompensationOf(r) = << >>
    BY <1>2, <1>5
  <2>3. 1 .. Len(CompensationOf(r)) = {}
    BY <2>1, <2>2
  <2> QED BY <2>1, <2>2, <2>3
<1> QED BY <1>3, <1>4, <1>5

\* A is a plan for the candidates S: the actions of every one of them and no other,
\* downstream first, and a revalidation at the end.
PlansFor(A, S) ==
    /\ A \in Seq(Action) /\ Len(A) \in Nat \ {0}
    /\ A[Len(A)] = Revalidate
    /\ \A i \in 1 .. Len(A) : A[i].status = "pending"
    /\ \A i \in 1 .. (Len(A) - 1) :
          /\ A[i].repo \in S
          /\ \E m \in 1 .. Len(CompensationOf(A[i].repo)) : A[i] = CompensationOf(A[i].repo)[m]
    /\ \A i, j \in 1 .. (Len(A) - 1) : i < j => order[A[i].repo] >= order[A[j].repo]
    /\ \A r \in S : \A m \in 1 .. Len(CompensationOf(r)) :
          \E i \in 1 .. (Len(A) - 1) : A[i] = CompensationOf(r)[m]

LEMMA RecoveryPlan ==
    ASSUME OrderInv, pr \in [Repos -> BOOLEAN], NEW scope
    PROVE  PlansFor(RecoveryActions(scope), {r \in members : scope = None \/ r = scope})
<1> DEFINE S == {r \in members : scope = None \/ r = scope}
           n == Cardinality(S)
           s == Reversed(S)
           blocks == [i \in 1 .. n |-> CompensationOf(s[i])]
           F == FlattenSeq(blocks)
           A == RecoveryActions(scope)
<1>1. /\ n \in Nat /\ s \in [1 .. n -> S]
      /\ \A i, j \in 1 .. n : i < j => order[s[i]] > order[s[j]]
      /\ \A r \in S : \E i \in 1 .. n : s[i] = r
  BY ReversedSorts
<1>2. \A i \in 1 .. n : s[i] \in S /\ s[i] \in Repos /\ order[s[i]] \in Nat
  BY <1>1 DEF OrderInv
<1>3. A = F \o << Revalidate >>
  BY <1>1 DEF RecoveryActions
<1> HIDE DEF s
<1>4. blocks \in Seq(Seq(Action)) /\ Len(blocks) = n
  <2>1. \A i \in 1 .. n : CompensationOf(s[i]) \in Seq(Action)
    BY <1>2, CompensationType
  <2> QED BY <2>1, <1>1
<1>5. \A k \in 1 .. n : blocks[k] = CompensationOf(s[k])
  OBVIOUS
<1> HIDE DEF blocks
<1>6. F \in Seq(Action) /\ \E at : Traces(F, blocks, n, at)
  BY <1>4, FlattenTraces
<1>7. PICK at : Traces(F, blocks, n, at)
  BY <1>6
<1> HIDE DEF F
<1>8. Revalidate \in Action /\ Revalidate.status = "pending"
  BY DEF Revalidate, Action, ActionKind, ActionStatus
<1>9. /\ A \in Seq(Action) /\ Len(A) = Len(F) + 1 /\ Len(F) \in Nat
      /\ A[Len(A)] = Revalidate
      /\ \A i \in 1 .. Len(F) : A[i] = F[i]
  BY <1>3, <1>6, <1>8
<1> HIDE DEF A
<1>10. ASSUME NEW i \in 1 .. Len(F)
       PROVE  /\ at[i] \in 1 .. n /\ s[at[i]] \in S /\ F[i].repo = s[at[i]]
              /\ F[i].status = "pending"
              /\ \E m \in 1 .. Len(CompensationOf(s[at[i]])) : F[i] = CompensationOf(s[at[i]])[m]
  <2>1. at[i] \in 1 .. n
    BY <1>7 DEF Traces
  <2>2. PICK m \in 1 .. Len(blocks[at[i]]) : F[i] = blocks[at[i]][m]
    BY <1>7 DEF Traces
  <2>3. m \in 1 .. Len(CompensationOf(s[at[i]])) /\ F[i] = CompensationOf(s[at[i]])[m]
    BY <2>1, <2>2, <1>5
  <2> QED BY <2>1, <2>3, <1>2, CompensationType
<1>11. \A i \in 1 .. (Len(A) - 1) : i \in 1 .. Len(F) /\ A[i] = F[i]
  BY <1>9
<1>12. ASSUME NEW i \in 1 .. (Len(A) - 1), NEW j \in 1 .. (Len(A) - 1), i < j
       PROVE  order[A[i].repo] >= order[A[j].repo]
  <2>1. at[i] <= at[j] /\ at[i] \in 1 .. n /\ at[j] \in 1 .. n
    BY <1>7, <1>10, <1>11, <1>12 DEF Traces
  <2>2. A[i].repo = s[at[i]] /\ A[j].repo = s[at[j]]
    BY <1>10, <1>11
  <2>5. order[A[i].repo] \in Nat /\ order[A[j].repo] \in Nat
    BY <2>1, <2>2, <1>2
  <2>3. CASE at[i] = at[j]
    BY <2>2, <2>3, <2>5
  <2>4. CASE at[i] < at[j]
    <3>1. order[s[at[i]]] > order[s[at[j]]]
      BY <2>1, <2>4, <1>1
    <3> QED BY <3>1, <2>2, <2>5
  <2> QED BY <2>1, <2>3, <2>4
<1>13. ASSUME NEW r \in S, NEW m \in 1 .. Len(CompensationOf(r))
       PROVE  \E i \in 1 .. (Len(A) - 1) : A[i] = CompensationOf(r)[m]
  <2>1. PICK k \in 1 .. n : s[k] = r
    BY <1>1
  <2>2. m \in 1 .. Len(blocks[k]) /\ blocks[k] = CompensationOf(r)
    BY <2>1, <1>5
  <2>3. PICK i \in 1 .. Len(F) : at[i] = k /\ F[i] = blocks[k][m]
    BY <2>2, <1>7 DEF Traces
  <2>4. A[i] = F[i] /\ i \in 1 .. (Len(A) - 1)
    BY <1>9
  <2> QED BY <2>2, <2>3, <2>4
<1>14. \A i \in 1 .. Len(A) : A[i].status = "pending"
  <2>1. \A i \in 1 .. Len(A) : i \in 1 .. Len(F) \/ i = Len(A)
    BY <1>9
  <2> QED BY <2>1, <1>8, <1>9, <1>10
<1>15. \A i \in 1 .. (Len(A) - 1) :
          /\ A[i].repo \in S
          /\ \E m \in 1 .. Len(CompensationOf(A[i].repo)) : A[i] = CompensationOf(A[i].repo)[m]
  <2>1. ASSUME NEW i \in 1 .. (Len(A) - 1)
        PROVE  /\ A[i].repo \in S
               /\ \E m \in 1 .. Len(CompensationOf(A[i].repo)) : A[i] = CompensationOf(A[i].repo)[m]
    <3>1. i \in 1 .. Len(F) /\ A[i] = F[i]
      BY <1>11
    <3>2. F[i].repo = s[at[i]]
      BY <3>1, <1>10
    <3>3. /\ s[at[i]] \in S
          /\ \E m \in 1 .. Len(CompensationOf(s[at[i]])) : F[i] = CompensationOf(s[at[i]])[m]
      BY <3>1, <1>10
    <3> QED BY <3>1, <3>2, <3>3
  <2> QED BY <2>1
<1>16. PlansFor(A, S)
  BY <1>9, <1>12, <1>13, <1>14, <1>15 DEF PlansFor
<1> QED BY <1>16 DEF A

-----------------------------------------------------------------------------
(* Types. *)

CandidateTypes ==
    /\ members \subseteq Repos
    /\ order \in [Repos -> Nat]
    /\ head \in [Repos -> Heads]
    /\ base \in [Repos -> Heads \cup Tips]
    /\ pr \in [Repos -> BOOLEAN]
    /\ ci \in [Repos -> [Checks -> CheckResult \cup {"none"}]]
    /\ lastCheck \in [Repos -> Checks \cup {None}]
    /\ reviews \in [Repos -> [Reviewers -> ReviewState \cup {"none"}]]
    /\ status \in [Repos -> RepoStatus]
    /\ mergeSha \in [Repos -> BOOLEAN]
SummaryTypes ==
    /\ csStatus \in SetStatus
    /\ cursor \in Nat
SideTypes ==
    /\ cleared \in [Repos -> SUBSET Heads]
    /\ snapshot \in [Repos -> Heads \cup {None}]
    /\ evidence \in {"passed", "failed", "expired"}
    /\ cases \in [Repos -> Heads \cup {None}]
    /\ merging \subseteq Repos
PlanTypes == plans \in Seq(Seq(Action))

LEMMA TypeParts ==
    /\ TypeOK <=> CandidateTypes /\ SummaryTypes /\ SideTypes /\ PlanTypes
    /\ TypeOK' <=> CandidateTypes' /\ SummaryTypes' /\ SideTypes' /\ PlanTypes'
BY DEF TypeOK, CandidateTypes, SummaryTypes, SideTypes, PlanTypes

LEMMA ReadinessType ==
    ASSUME NEW checks, NEW last, NEW revs
    PROVE  Readiness(checks, last, revs) \in RepoStatus
BY DEF Readiness, RepoStatus

\* with_repositories yields a status and a position.
LEMMA CursorType ==
    ASSUME NEW st, NEW mem \in SUBSET Repos, NEW ord \in [Repos -> Nat]
    PROVE  CursorOf(st, mem, ord) \in Nat
<1> DEFINE P == Pending(st, mem)
           T == {ord[r] : r \in P}
<1>1. P \in SUBSET Repos /\ T \in SUBSET Nat
  BY DEF Pending
<1>2. CASE P = {}
  BY <1>2, FS_Subset, FS_CardinalityType DEF CursorOf
<1>3. CASE P # {}
  <2>1. Min(T) \in T
    BY <1>1, <1>3, MinOfSet
  <2> QED BY <2>1, <1>1, <1>3 DEF CursorOf
<1> QED BY <1>2, <1>3

LEMMA RefreshType ==
    ASSUME NEW st, NEW mem \in SUBSET Repos, NEW ord \in [Repos -> Nat], Refresh(st, mem, ord)
    PROVE  SummaryTypes'
BY CursorType DEF Refresh, SummaryTypes, DeliveryStatus, SetStatus

\* Operations that change the status of one candidate.
LEMMA SetRepoStatusType ==
    ASSUME CandidateTypes, NEW r \in Repos, NEW s \in RepoStatus, SetRepoStatus(r, s)
    PROVE  status' \in [Repos -> RepoStatus] /\ SummaryTypes'
<1>1. status' \in [Repos -> RepoStatus] /\ Refresh(status', members, order)
  BY DEF SetRepoStatus, CandidateTypes
<1> QED BY <1>1, RefreshType DEF CandidateTypes

LEMMA SideKept == SideTypes /\ UNCHANGED <<cleared, snapshot, evidence, cases, merging>> => SideTypes'
BY DEF SideTypes
LEMMA PlansKept == PlanTypes /\ UNCHANGED plans => PlanTypes'
BY DEF PlanTypes
LEMMA SummaryKept == SummaryTypes /\ UNCHANGED summaryVars => SummaryTypes'
BY DEF SummaryTypes, summaryVars
LEMMA CandidatesKept == CandidateTypes /\ UNCHANGED candidateVars => CandidateTypes'
BY DEF CandidateTypes, candidateVars

LEMMA CandidatesType ==
    ASSUME TypeOK, OrderInv, NEW S \in SUBSET Repos, Prepare(S) \/ Append_(S)
    PROVE  TypeOK'
<1>1. OrderInv'
  BY FreshOrder DEF Prepare, Append_
<1>2. CandidateTypes'
  BY <1>1, TypeParts DEF Prepare, Append_, CandidateTypes, OrderInv
<1>3. SummaryTypes'
  <2>1. CASE Prepare(S)
    BY <2>1 DEF Prepare, SummaryTypes, SetStatus
  <2>2. CASE Append_(S)
    <3>1. Refresh(status, members', order') /\ members' \in SUBSET Repos /\ order' \in [Repos -> Nat]
      BY <2>2, <1>1 DEF Append_, OrderInv
    <3> QED BY <3>1, RefreshType
  <2> QED BY <2>1, <2>2
<1>4. SideTypes' /\ PlanTypes'
  BY TypeParts DEF Prepare, Append_, SideTypes, PlanTypes, sideVars, CandidateTypes
<1> QED BY <1>2, <1>3, <1>4, TypeParts

LEMMA RecordMergeType ==
    ASSUME CandidateTypes, SummaryTypes, NEW r \in Repos, RecordMerge(r)
    PROVE  CandidateTypes' /\ SummaryTypes'
<1>1. CASE CanObserveMerge(r)
  <2>1. SetRepoStatus(r, "merged") /\ "merged" \in RepoStatus
        /\ mergeSha' = [mergeSha EXCEPT ![r] = TRUE]
    BY <1>1 DEF RecordMerge, RepoStatus
  <2>2. status' \in [Repos -> RepoStatus] /\ SummaryTypes'
    BY <2>1, SetRepoStatusType
  <2>3. CandidateTypes'
    BY <2>1, <2>2 DEF RecordMerge, CandidateTypes
  <2> QED BY <2>2, <2>3
<1>2. CASE ~CanObserveMerge(r)
  BY <1>2 DEF RecordMerge, CandidateTypes, SummaryTypes, summaryVars
<1> QED BY <1>1, <1>2

LEMMA ObservationsType == TypeOK /\ Observations => TypeOK'
<1> SUFFICES ASSUME CandidateTypes, SummaryTypes, SideTypes, PlanTypes, NEW r \in Repos,
        \/ ObservePullRequest(r, head[r])
        \/ \E c \in Checks, result \in CheckResult : ObserveCI(r, c, result)
        \/ \E v \in Reviewers, state \in ReviewState : ObserveReview(r, v, state, head[r])
        \/ CheckUpstream(r) \/ ObserveMerge(r)
        \/ RequestMerge(r, head[r])
    PROVE CandidateTypes' /\ SummaryTypes' /\ SideTypes' /\ PlanTypes'
  BY TypeParts DEF Observations
<1>1. CASE ObservePullRequest(r, head[r])
  <2>1. status' \in [Repos -> RepoStatus] /\ SummaryTypes'
    BY <1>1, SetRepoStatusType DEF ObservePullRequest, RepoStatus
  <2>2. CandidateTypes'
    BY <1>1, <2>1 DEF ObservePullRequest, CandidateTypes
  <2> QED BY <1>1, <2>1, <2>2, SideKept, PlansKept DEF ObservePullRequest, sideVars
<1>2. ASSUME NEW c \in Checks, NEW result \in CheckResult, ObserveCI(r, c, result)
      PROVE  CandidateTypes' /\ SummaryTypes' /\ SideTypes' /\ PlanTypes'
  <2>1. status' \in [Repos -> RepoStatus] /\ SummaryTypes'
    BY <1>2, SetRepoStatusType, ReadinessType DEF ObserveCI
  <2>2. CandidateTypes'
    BY <1>2, <2>1 DEF ObserveCI, CandidateTypes
  <2> QED BY <1>2, <2>1, <2>2, SideKept, PlansKept DEF ObserveCI, sideVars
<1>3. ASSUME NEW v \in Reviewers, NEW state \in ReviewState, ObserveReview(r, v, state, head[r])
      PROVE  CandidateTypes' /\ SummaryTypes' /\ SideTypes' /\ PlanTypes'
  <2>1. status' \in [Repos -> RepoStatus] /\ SummaryTypes'
    BY <1>3, SetRepoStatusType, ReadinessType DEF ObserveReview
  <2>2. CandidateTypes'
    BY <1>3, <2>1 DEF ObserveReview, CandidateTypes
  <2> QED BY <1>3, <2>1, <2>2, SideKept, PlansKept DEF ObserveReview, sideVars
<1>4. CASE CheckUpstream(r)
  BY <1>4, CandidatesKept, SummaryKept, PlansKept DEF CheckUpstream, SideTypes
<1>5. CASE ObserveMerge(r)
  <2>1. CandidateTypes' /\ SummaryTypes'
    BY <1>5, RecordMergeType DEF ObserveMerge
  <2>2. SideTypes' /\ PlanTypes'
    BY <1>5 DEF ObserveMerge, RecordMerge, SideTypes, PlanTypes
  <2> QED BY <2>1, <2>2
<1>6. CASE RequestMerge(r, head[r])
  <2>1. status' \in [Repos -> RepoStatus] /\ SummaryTypes'
    BY <1>6, SetRepoStatusType DEF RequestMerge, RepoStatus
  <2>2. CandidateTypes'
    BY <1>6, <2>1 DEF RequestMerge, CandidateTypes
  <2> QED BY <1>6, <2>1, <2>2, SideKept, PlansKept DEF RequestMerge, sideVars
<1> QED BY <1>1, <1>2, <1>3, <1>4, <1>5, <1>6

LEMMA ControlType == TypeOK /\ Control => TypeOK'
<1> SUFFICES ASSUME CandidateTypes, SummaryTypes, SideTypes, PlanTypes, NEW r \in Repos,
        \/ \E ready \in BOOLEAN : RecordGovernance(r, head[r], ready)
        \/ \E new \in Heads : Revise(r, head[r], new)
        \/ OpenCase(r, head[r]) \/ ResolveCase(r)
    PROVE CandidateTypes' /\ SummaryTypes' /\ SideTypes' /\ PlanTypes'
  BY TypeParts DEF Control
<1>1. head[r] \in Heads
  BY DEF CandidateTypes
<1>2. CASE \E ready \in BOOLEAN : RecordGovernance(r, head[r], ready)
  <2>1. PICK ready \in BOOLEAN : RecordGovernance(r, head[r], ready)
    BY <1>2
  <2>2. cleared' \in [Repos -> SUBSET Heads]
    BY <1>1, <2>1 DEF RecordGovernance, SideTypes
  <2> QED BY <2>1, <2>2, CandidatesKept, SummaryKept, PlansKept DEF RecordGovernance, SideTypes
<1>3. ASSUME NEW new \in Heads, Revise(r, head[r], new)
      PROVE  CandidateTypes' /\ SummaryTypes' /\ SideTypes' /\ PlanTypes'
  <2>1. NoChecks \in [Checks -> CheckResult \cup {"none"}]
        /\ NoReviews \in [Reviewers -> ReviewState \cup {"none"}]
    BY DEF NoChecks, NoReviews
  <2>2. CandidateTypes'
    BY <1>1, <1>3, <2>1 DEF Revise, CandidateTypes, RepoStatus
  <2>3. SummaryTypes'
    BY <1>3, <2>2, CursorType DEF Revise, SummaryTypes, SetStatus, CandidateTypes
  <2>4. SideTypes' /\ PlanTypes'
    BY <1>3 DEF Revise, SideTypes, PlanTypes
  <2> QED BY <2>2, <2>3, <2>4
<1>4. CASE OpenCase(r, head[r]) \/ ResolveCase(r)
  <2>1. cases' \in [Repos -> Heads \cup {None}]
    BY <1>1, <1>4 DEF OpenCase, ResolveCase, SideTypes
  <2> QED BY <1>4, <2>1, CandidatesKept, SummaryKept, PlansKept
          DEF OpenCase, ResolveCase, SideTypes
<1> QED BY <1>2, <1>3, <1>4

LEMMA RecordActionType ==
    ASSUME PlanTypes, NEW p, NEW i, NEW new \in ActionStatus, RecordRecoveryAction(p, i, new)
    PROVE  PlanTypes' /\ csStatus' \in SetStatus
<1>1. p \in DOMAIN plans /\ i \in DOMAIN plans[p]
      /\ plans' = [plans EXCEPT ![p][i].status = new] /\ csStatus' = RecoveryStatus(plans'[p])
  BY DEF RecordRecoveryAction
<1>2. p \in 1 .. Len(plans) /\ plans[p] \in Seq(Action)
  BY <1>1 DEF PlanTypes
<1>3. i \in 1 .. Len(plans[p]) /\ plans[p][i] \in Action
  BY <1>1, <1>2
<1> DEFINE a == [plans[p][i] EXCEPT !.status = new]
           P == [plans[p] EXCEPT ![i] = a]
<1>4. a \in Action
  BY <1>3 DEF Action
<1>5. plans' = [plans EXCEPT ![p] = P]
  BY <1>1
<1> HIDE DEF a
<1>6. P \in Seq(Action)
  BY <1>2, <1>3, <1>4
<1> HIDE DEF P
<1>7. plans' \in Seq(Seq(Action))
  BY <1>2, <1>5, <1>6 DEF PlanTypes
<1>8. csStatus' \in SetStatus
  BY <1>1 DEF RecoveryStatus, SetStatus
<1> QED BY <1>7, <1>8 DEF PlanTypes

LEMMA PlanRecoveryType ==
    ASSUME OrderInv, CandidateTypes, PlanTypes, NEW actions, PlanRecovery(actions),
           \/ \E scope \in members \cup {None} : actions = RecoveryActions(scope)
           \/ \E r \in members : actions = RunnerRecovery(r)
    PROVE  PlanTypes' /\ csStatus' \in SetStatus
<1>1. actions \in Seq(Action)
  <2>1. CASE \E scope \in members \cup {None} : actions = RecoveryActions(scope)
    BY <2>1, RecoveryPlan DEF PlansFor, CandidateTypes
  <2>2. ASSUME NEW r \in members, actions = RunnerRecovery(r) PROVE actions \in Seq(Action)
    BY <2>2 DEF RunnerRecovery, Action, ActionKind, ActionStatus, CandidateTypes
  <2> QED BY <2>1, <2>2
<1>2. plans' = Append(plans, actions) /\ csStatus' = "compensating"
  BY DEF PlanRecovery
<1> QED BY <1>1, <1>2 DEF PlanTypes, SetStatus

LEMMA RecoveryType == TypeOK /\ OrderInv /\ Recovery => TypeOK'
<1> SUFFICES ASSUME CandidateTypes, SummaryTypes, SideTypes, PlanTypes, OrderInv, Recovery
             PROVE  CandidateTypes' /\ SummaryTypes' /\ SideTypes' /\ PlanTypes'
  BY TypeParts
<1>1. PlanTypes' /\ csStatus' \in SetStatus
  <2>1. CASE \/ \E scope \in members \cup {None} : PlanRecovery(RecoveryActions(scope))
             \/ \E r \in members : PlanRecovery(RunnerRecovery(r))
    BY <2>1, PlanRecoveryType
  <2>2. CASE \E p \in 1 .. MaxPlans, i \in 1 .. (2 * Cardinality(Repos) + 1), new \in ActionStatus :
                RecordRecoveryAction(p, i, new)
    BY <2>2, RecordActionType
  <2> QED BY <2>1, <2>2 DEF Recovery
<1>2. UNCHANGED <<candidateVars, cursor, cleared, snapshot, evidence, cases, merging>>
  BY DEF Recovery, PlanRecovery, RecordRecoveryAction
<1>3. SummaryTypes'
  BY <1>1, <1>2 DEF SummaryTypes
<1> QED BY <1>1, <1>2, <1>3, CandidatesKept, SideKept

LEMMA TypeStep == TypeOK /\ OrderInv /\ [Next]_csVars => TypeOK'
<1> SUFFICES ASSUME TypeOK, OrderInv, [Next]_csVars PROVE TypeOK'
  OBVIOUS
<1>1. CASE Expire
  BY <1>1, TypeParts, CandidatesKept, SummaryKept, PlansKept DEF Expire, SideTypes
<1>2. CASE UNCHANGED csVars
  BY <1>2, TypeParts, CandidatesKept, SummaryKept, SideKept, PlansKept DEF csVars, sideVars
<1>3. CASE Candidates
  BY <1>3, CandidatesType DEF Candidates
<1> QED BY <1>1, <1>2, <1>3, ObservationsType, ControlType, RecoveryType DEF Next

LEMMA TypeInit == Init => TypeOK
<1> SUFFICES ASSUME Init PROVE TypeOK
  OBVIOUS
<1>1. NoChecks \in [Checks -> CheckResult \cup {"none"}]
      /\ NoReviews \in [Reviewers -> ReviewState \cup {"none"}]
  BY DEF NoChecks, NoReviews
<1>2. << >> \in Seq(Seq(Action))
  OBVIOUS
<1> QED BY <1>1, <1>2 DEF Init, TypeOK, RepoStatus, SetStatus

\* The tables have the types of the code's records, whatever is planned, observed or
\* revised: in particular a recovery plan is a sequence of actions (_recovery_actions), and
\* a merge order and a cursor are natural numbers.
THEOREM TypeCorrect == Spec => []TypeOK
<1>1. Init => TypeOK /\ OrderInv
  BY TypeInit, FS_EmptySet DEF Init, OrderInv, OrderRespectsDeps
<1> QED BY <1>1, TypeStep, OrderStep, PTL DEF Spec
================================================================================
