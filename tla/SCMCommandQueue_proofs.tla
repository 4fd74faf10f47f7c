------------------------- MODULE SCMCommandQueue_proofs -------------------------
(***************************************************************************)
(* Proofs about SCMCommandQueue for any set of commands and dispatchers,   *)
(* any lease time and any attempt limit.                                   *)
(***************************************************************************)
EXTENDS SCMCommandQueue, TLAPS

USE SomeCommand, MergeAssumption, LeaseAssumption, AttemptAssumption, OwnerAssumption

\* The initial state satisfies the inductive invariant.
LEMMA InitIInv == Init => IInv
<1> SUFFICES ASSUME Init PROVE IInv
  OBVIOUS
<1>0. IdleWorker \in Worker
  BY DEF IdleWorker, Worker, Phase
<1>1. TypeOK
  BY <1>0 DEF Init, TypeOK, EmptyRow, Command, CommandStatus, PullState
<1>2. LeaseInv /\ PhaseInv /\ RowInv
  BY DEF Init, LeaseInv, PhaseInv, RowInv, IdleWorker, EmptyRow
<1> QED BY <1>1, <1>2 DEF IInv

\* Every step of the queue keeps the state well typed; the attempt limit is part
\* of the type.
LEMMA TypeStep == TypeOK /\ PhaseInv /\ [Next]_vars => TypeOK'
<1> SUFFICES ASSUME TypeOK, PhaseInv, [Next]_vars PROVE TypeOK'
  OBVIOUS
<1> USE DEF TypeOK
<1>0. IdleWorker \in Worker
  BY DEF IdleWorker, Worker, Phase
<1>1. CASE UNCHANGED vars
  BY <1>1 DEF vars
<1>2. ASSUME NEW c \in Commands, Enqueue(c) PROVE TypeOK'
  BY <1>2 DEF Enqueue, PendingRow, Command, CommandStatus
<1>3. ASSUME NEW c \in Commands, PullRequestChanges(c) PROVE TypeOK'
  BY <1>3 DEF PullRequestChanges, PullState
<1>4. ASSUME NEW d \in Dispatchers, NEW c \in Commands, Claim(d, c) PROVE TypeOK'
  <2>1. Claimed(commands[c], d) \in Command
    BY <1>4 DEF Claim, Claimable, Claimed, Command, CommandStatus
  <2>2. [phase |-> "read", command |-> c,
         version |-> commands[c].version + 1, held |-> LeaseTime] \in Worker
    BY DEF Worker, Phase, Command
  <2> QED BY <1>4, <2>1, <2>2 DEF Claim
<1>5. ASSUME NEW d \in Dispatchers, ReadPullRequest(d) PROVE TypeOK'
  <2>1. AfterRead(worker[d].command) \in Phase
    BY DEF AfterRead, Phase, Worker
  <2> QED BY <1>5, <2>1 DEF ReadPullRequest, Goto, Worker, Phase
<1>6. ASSUME NEW d \in Dispatchers, WritePullRequest(d) PROVE TypeOK'
  <2>1. worker' \in [Dispatchers -> Worker]
    BY <1>6 DEF WritePullRequest, Goto, Worker, Phase
  <2>2. pull' \in [Commands -> PullState]
    BY <1>6 DEF WritePullRequest, PullState, Worker
  <2> QED BY <1>6, <2>1, <2>2 DEF WritePullRequest
<1>7. ASSUME NEW d \in Dispatchers, RecordMergeRequested(d) PROVE TypeOK'
  BY <1>7 DEF RecordMergeRequested, Goto, Worker, Phase, PhaseInv
<1>8. ASSUME NEW d \in Dispatchers, NEW s \in {"accepted", "failed"} PROVE
        Released(commands[worker[d].command], s) \in Command
  BY <1>8 DEF Released, Worker, Command, CommandStatus
<1>9. ASSUME NEW d \in Dispatchers, Accept(d) PROVE TypeOK'
  BY <1>9, <1>8, <1>0 DEF Accept, Goto, Rest, Worker, Phase
<1>10. ASSUME NEW d \in Dispatchers, Fail(d) PROVE TypeOK'
  BY <1>10, <1>8, <1>0 DEF Fail, Rest
<1>11. ASSUME NEW d \in Dispatchers, Renew(d) PROVE TypeOK'
  <2>1. commands' \in [Commands -> Command]
    <3> DEFINE c == worker[d].command
    <3>1. c \in Commands
      BY DEF Worker
    <3>2. [commands[c] EXCEPT !.lease = LeaseTime] \in Command
      BY <3>1 DEF Command
    <3> QED BY <1>11, <3>1, <3>2 DEF Renew
  <2>2. worker' \in [Dispatchers -> Worker]
    BY <1>11 DEF Renew, Worker
  <2> QED BY <1>11, <2>1, <2>2 DEF Renew
<1>12. ASSUME NEW d \in Dispatchers, Crash(d) PROVE TypeOK'
  BY <1>12, <1>0 DEF Crash, Rest
<1>13. CASE Tick
  <2>1. ASSUME NEW c \in Commands PROVE commands'[c] \in Command
    <3>1. commands[c].lease \in 0 .. LeaseTime
      BY DEF Command
    <3>2. (IF commands[c].lease > 0 THEN commands[c].lease - 1 ELSE 0) \in 0 .. LeaseTime
      BY <3>1
    <3> QED BY <1>13, <3>2 DEF Tick, Command
  <2>2. ASSUME NEW d \in Dispatchers PROVE worker'[d] \in Worker
    <3>1. worker[d].held \in 0 .. LeaseTime
      BY DEF Worker
    <3>2. (IF worker[d].held > 0 THEN worker[d].held - 1 ELSE 0) \in 0 .. LeaseTime
      BY <3>1
    <3> QED BY <1>13, <3>2 DEF Tick, Worker
  <2> QED BY <1>13, <2>1, <2>2 DEF Tick
<1> QED BY <1>1, <1>2, <1>3, <1>4, <1>5, <1>6, <1>7, <1>9, <1>10, <1>11, <1>12, <1>13
        DEF Next, DispatcherStep

\* Time left on a view always equals the time left on the row: nobody can take
\* a row over, or end it, while its lease is running.
LEMMA LeaseStep == TypeOK /\ LeaseInv /\ RowInv /\ [Next]_vars => LeaseInv'
<1> SUFFICES ASSUME TypeOK, LeaseInv, RowInv, [Next]_vars,
                    NEW e \in Dispatchers,
                    worker'[e].phase # "idle", worker'[e].held > 0
             PROVE  /\ Owned(e)'
                    /\ commands'[worker'[e].command].lease = worker'[e].held
  BY DEF LeaseInv
<1> DEFINE Goal == /\ Owned(e)'
                   /\ commands'[worker'[e].command].lease = worker'[e].held
           k == worker[e].command
<1> USE DEF TypeOK, LeaseInv, RowInv, Owned, Worker, Command
<1>1. CASE UNCHANGED vars
  BY <1>1 DEF vars
<1>2. ASSUME NEW c \in Commands, Enqueue(c) PROVE Goal
  BY <1>2 DEF Enqueue
<1>3. ASSUME NEW c \in Commands, PullRequestChanges(c) PROVE Goal
  BY <1>3 DEF PullRequestChanges
<1>4. ASSUME NEW d \in Dispatchers, NEW c \in Commands, Claim(d, c) PROVE Goal
  <2>1. CASE d = e
    BY <1>4, <2>1 DEF Claim, Claimed
  <2>2. CASE d # e
    <3>1. worker'[e] = worker[e] /\ k # c
      BY <1>4, <2>2 DEF Claim, Claimable
    <3> QED BY <1>4, <3>1 DEF Claim
  <2> QED BY <2>1, <2>2
<1>5. ASSUME NEW d \in Dispatchers, ReadPullRequest(d) PROVE Goal
  <2>1. PICK p : Goto(d, p)
    BY <1>5 DEF ReadPullRequest
  <2> QED BY <1>5, <2>1 DEF ReadPullRequest, Goto
<1>6. ASSUME NEW d \in Dispatchers, WritePullRequest(d) PROVE Goal
  BY <1>6 DEF WritePullRequest, Goto
<1>7. ASSUME NEW d \in Dispatchers, RecordMergeRequested(d) PROVE Goal
  BY <1>7 DEF RecordMergeRequested, Goto
<1>8. ASSUME NEW d \in Dispatchers, Accept(d) PROVE Goal
  <2>1. CASE d = e
    <3>1. CASE Owned(d)
      <4>1. worker'[e] = IdleWorker
        BY <1>8, <2>1, <3>1 DEF Accept, Rest
      <4> QED BY <4>1 DEF IdleWorker
    <3>2. CASE ~Owned(d)
      <4>1. worker'[e].held = worker[e].held /\ worker[e].phase = "accept"
        BY <1>8, <2>1, <3>2 DEF Accept, Goto
      <4> QED BY <4>1, <2>1, <3>2
    <3> QED BY <3>1, <3>2
  <2>2. CASE d # e
    <3>1. worker'[e] = worker[e]
      BY <1>8, <2>2 DEF Accept, Goto, Rest
    <3>2. commands'[k] = commands[k]
      BY <1>8, <2>2, <3>1 DEF Accept
    <3> QED BY <3>1, <3>2
  <2> QED BY <2>1, <2>2
<1>9. ASSUME NEW d \in Dispatchers, Fail(d) PROVE Goal
  BY <1>9 DEF Fail, Rest, IdleWorker
<1>10. ASSUME NEW d \in Dispatchers, Renew(d) PROVE Goal
  BY <1>10 DEF Renew
<1>11. ASSUME NEW d \in Dispatchers, Crash(d) PROVE Goal
  BY <1>11 DEF Crash, Rest, IdleWorker
<1>12. CASE Tick
  <2>1. /\ worker'[e].phase = worker[e].phase
        /\ worker'[e].command = k
        /\ worker'[e].version = worker[e].version
        /\ worker'[e].held = IF worker[e].held > 0 THEN worker[e].held - 1 ELSE 0
    BY <1>12 DEF Tick
  <2>2. /\ commands'[k].status = commands[k].status
        /\ commands'[k].owner = commands[k].owner
        /\ commands'[k].version = commands[k].version
        /\ commands'[k].lease = IF commands[k].lease > 0 THEN commands[k].lease - 1 ELSE 0
    BY <1>12 DEF Tick
  <2>3. worker[e].held > 0 /\ worker[e].phase # "idle"
    BY <2>1
  <2> QED BY <2>1, <2>2, <2>3
<1> QED BY <1>1, <1>2, <1>3, <1>4, <1>5, <1>6, <1>7, <1>8, <1>9, <1>10, <1>11, <1>12
        DEF Next, DispatcherStep

\* A dispatcher reaches its acknowledgement only over the remote write, and what
\* is done on GitHub stays done.
LEMMA PhaseStep == TypeOK /\ PhaseInv /\ [Next]_vars => PhaseInv'
<1> SUFFICES ASSUME TypeOK, PhaseInv, [Next]_vars, NEW e \in Dispatchers
             PROVE  /\ worker'[e].phase = "record" =>
                          /\ worker'[e].command \in MergeCommands
                          /\ pull'[worker'[e].command] = "done"
                    /\ worker'[e].phase = "accept" => Done(worker[e].command)'
  BY DEF PhaseInv
<1> DEFINE Goal == /\ worker'[e].phase = "record" =>
                          /\ worker'[e].command \in MergeCommands
                          /\ pull'[worker'[e].command] = "done"
                   /\ worker'[e].phase = "accept" => Done(worker[e].command)'
           k == worker[e].command
<1> USE DEF TypeOK, PhaseInv, Done, Worker
<1>1. CASE UNCHANGED vars
  BY <1>1 DEF vars
<1>2. ASSUME NEW c \in Commands, Enqueue(c) PROVE Goal
  BY <1>2 DEF Enqueue
<1>3. ASSUME NEW c \in Commands, PullRequestChanges(c) PROVE Goal
  BY <1>3 DEF PullRequestChanges
<1>4. ASSUME NEW d \in Dispatchers, NEW c \in Commands, Claim(d, c) PROVE Goal
  BY <1>4 DEF Claim
<1>5. ASSUME NEW d \in Dispatchers, ReadPullRequest(d) PROVE Goal
  <2>1. PICK p : /\ Goto(d, p)
                 /\ p = AfterRead(worker[d].command) \/ p = "fail"
    BY <1>5 DEF ReadPullRequest
  <2>2. /\ p = "record" => worker[d].command \in MergeCommands /\ pull[worker[d].command] = "done"
        /\ p = "accept" => Done(worker[d].command)
    BY <2>1 DEF AfterRead
  <2> QED BY <1>5, <2>1, <2>2 DEF ReadPullRequest, Goto
<1>6. ASSUME NEW d \in Dispatchers, WritePullRequest(d) PROVE Goal
  <2> DEFINE c == worker[d].command
  <2>0. c \in Commands
    OBVIOUS
  <2>1. PICK p : /\ Goto(d, p)
                 /\ p = "record" => c \in MergeCommands /\ pull'[c] = "done"
                 /\ p = "accept" => c \notin MergeCommands /\ pull'[c] # "open"
    BY <1>6, <2>0 DEF WritePullRequest
  <2>2. \A m \in Commands : /\ pull[m] = "done" => pull'[m] = "done"
                            /\ pull[m] # "open" => pull'[m] # "open"
    BY <1>6, <2>0 DEF WritePullRequest
  <2>3. requested' = requested
    BY <1>6 DEF WritePullRequest
  <2>4. CASE d = e
    BY <2>0, <2>1, <2>2, <2>3, <2>4 DEF Goto
  <2>5. CASE d # e
    <3>1. worker'[e] = worker[e]
      BY <2>1, <2>5 DEF Goto
    <3> QED BY <2>2, <2>3, <3>1
  <2> QED BY <2>4, <2>5
<1>7. ASSUME NEW d \in Dispatchers, RecordMergeRequested(d) PROVE Goal
  BY <1>7 DEF RecordMergeRequested, Goto
<1>8. ASSUME NEW d \in Dispatchers, Accept(d) PROVE Goal
  BY <1>8 DEF Accept, Goto, Rest, IdleWorker
<1>9. ASSUME NEW d \in Dispatchers, Fail(d) PROVE Goal
  BY <1>9 DEF Fail, Rest, IdleWorker
<1>10. ASSUME NEW d \in Dispatchers, Renew(d) PROVE Goal
  BY <1>10 DEF Renew
<1>11. ASSUME NEW d \in Dispatchers, Crash(d) PROVE Goal
  BY <1>11 DEF Crash, Rest, IdleWorker
<1>12. CASE Tick
  <2>1. worker'[e].phase = worker[e].phase /\ worker'[e].command = k
    BY <1>12 DEF Tick
  <2> QED BY <1>12, <2>1 DEF Tick
<1> QED BY <1>1, <1>2, <1>3, <1>4, <1>5, <1>6, <1>7, <1>8, <1>9, <1>10, <1>11, <1>12
        DEF Next, DispatcherStep

\* A step changes a row only where the store's conditions allow it: a row that
\* is not processing carries no lease, and an accepted row is done.
LEMMA RowStep == TypeOK /\ PhaseInv /\ RowInv /\ [Next]_vars => RowInv'
<1> SUFFICES ASSUME TypeOK, PhaseInv, RowInv, [Next]_vars, NEW k \in Commands
             PROVE  /\ commands'[k].status # "processing" => commands'[k].lease = 0
                    /\ commands'[k].status = "accepted" => Done(k)'
  BY DEF RowInv
<1> DEFINE Goal == /\ commands'[k].status # "processing" => commands'[k].lease = 0
                   /\ commands'[k].status = "accepted" => Done(k)'
<1> USE DEF TypeOK, PhaseInv, RowInv, Done, Worker, Command
<1>1. CASE UNCHANGED vars
  BY <1>1 DEF vars
<1>2. ASSUME NEW c \in Commands, Enqueue(c) PROVE Goal
  BY <1>2 DEF Enqueue, PendingRow
<1>3. ASSUME NEW c \in Commands, PullRequestChanges(c) PROVE Goal
  BY <1>3 DEF PullRequestChanges
<1>4. ASSUME NEW d \in Dispatchers, NEW c \in Commands, Claim(d, c) PROVE Goal
  BY <1>4 DEF Claim, Claimed
<1>5. ASSUME NEW d \in Dispatchers, ReadPullRequest(d) PROVE Goal
  BY <1>5 DEF ReadPullRequest
<1>6. ASSUME NEW d \in Dispatchers, WritePullRequest(d) PROVE Goal
  BY <1>6 DEF WritePullRequest
<1>7. ASSUME NEW d \in Dispatchers, RecordMergeRequested(d) PROVE Goal
  BY <1>7 DEF RecordMergeRequested
<1>8. ASSUME NEW d \in Dispatchers, Accept(d) PROVE Goal
  BY <1>8 DEF Accept, Released
<1>9. ASSUME NEW d \in Dispatchers, Fail(d) PROVE Goal
  BY <1>9 DEF Fail, Released
<1>10. ASSUME NEW d \in Dispatchers, Renew(d) PROVE Goal
  <2>1. commands'[k].status = commands[k].status
    BY <1>10 DEF Renew
  <2>2. commands[k].status # "processing" => commands'[k] = commands[k]
    BY <1>10 DEF Renew, Owned
  <2> QED BY <1>10, <2>1, <2>2 DEF Renew
<1>11. ASSUME NEW d \in Dispatchers, Crash(d) PROVE Goal
  BY <1>11 DEF Crash
<1>12. CASE Tick
  <2>1. /\ commands'[k].status = commands[k].status
        /\ commands'[k].lease = IF commands[k].lease > 0 THEN commands[k].lease - 1 ELSE 0
    BY <1>12 DEF Tick
  <2> QED BY <1>12, <2>1 DEF Tick
<1> QED BY <1>1, <1>2, <1>3, <1>4, <1>5, <1>6, <1>7, <1>8, <1>9, <1>10, <1>11, <1>12
        DEF Next, DispatcherStep

LEMMA IInvStep == IInv /\ [Next]_vars => IInv'
BY TypeStep, LeaseStep, PhaseStep, RowStep DEF IInv

\* The inductive invariant holds in every reachable state.
LEMMA Invariance == Spec => []IInv
BY InitIInv, IInvStep, PTL DEF Spec

\* The store and the dispatchers keep their types; in particular claim_batch
\* never claims a command more than max_attempts times.
THEOREM TypeCorrect == Spec => []TypeOK
<1>1. IInv => TypeOK
  BY DEF IInv
<1> QED BY <1>1, Invariance, PTL

\* A granted lease is honoured until it runs out.
THEOREM LeaseCorrect == Spec => []LeaseHonoured
<1>1. IInv => LeaseHonoured
  BY DEF IInv, LeaseInv, LeaseHonoured
<1> QED BY <1>1, Invariance, PTL

\* The dispatcher acknowledges a command only when its effect is on GitHub and,
\* for a merge, on record in the ChangeSet.
THEOREM AcceptanceCorrect == Spec => []AcceptedMeansDone
<1>1. IInv => AcceptedMeansDone
  BY DEF IInv, RowInv, Done, AcceptedMeansDone
<1> QED BY <1>1, Invariance, PTL

\* No step changes the row of an accepted command.
LEMMA FinalStep ==
    IInv /\ [Next]_vars =>
        \A c \in Commands : commands[c].status = "accepted" => commands'[c] = commands[c]
<1> SUFFICES ASSUME IInv, [Next]_vars, NEW k \in Commands, commands[k].status = "accepted"
             PROVE  commands'[k] = commands[k]
  OBVIOUS
<1> USE DEF IInv, TypeOK, RowInv, Worker, Owned
<1>1. CASE UNCHANGED vars
  BY <1>1 DEF vars
<1>2. ASSUME NEW c \in Commands, Enqueue(c) PROVE commands'[k] = commands[k]
  BY <1>2 DEF Enqueue
<1>3. ASSUME NEW d \in Dispatchers, NEW c \in Commands, Claim(d, c)
      PROVE commands'[k] = commands[k]
  BY <1>3 DEF Claim, Claimable
<1>4. ASSUME NEW d \in Dispatchers, Accept(d) PROVE commands'[k] = commands[k]
  BY <1>4 DEF Accept
<1>5. ASSUME NEW d \in Dispatchers, Fail(d) PROVE commands'[k] = commands[k]
  BY <1>5 DEF Fail
<1>6. ASSUME NEW d \in Dispatchers, Renew(d) PROVE commands'[k] = commands[k]
  BY <1>6 DEF Renew
<1>7. CASE Tick
  <2>1. commands[k].lease = 0 /\ commands[k] \in Command
    OBVIOUS
  <2>2. commands'[k] = [commands[k] EXCEPT !.lease = 0]
    BY <1>7, <2>1 DEF Tick
  <2> QED BY <2>1, <2>2 DEF Command
<1>8. ASSUME NEW c \in Commands, PullRequestChanges(c) PROVE commands'[k] = commands[k]
  BY <1>8 DEF PullRequestChanges
<1>9. ASSUME NEW d \in Dispatchers,
             ReadPullRequest(d) \/ WritePullRequest(d) \/ RecordMergeRequested(d) \/ Crash(d)
      PROVE commands'[k] = commands[k]
  BY <1>9 DEF ReadPullRequest, WritePullRequest, RecordMergeRequested, Crash
<1> QED BY <1>1, <1>2, <1>3, <1>4, <1>5, <1>6, <1>7, <1>8, <1>9 DEF Next, DispatcherStep

\* An accepted command is never touched again.
THEOREM AcceptedFinalCorrect == Spec => AcceptedIsFinal
<1> DEFINE Kept == \A c \in Commands :
                      commands[c].status = "accepted" => commands'[c] = commands[c]
<1>1. IInv /\ [Next]_vars => [Kept]_vars
  BY FinalStep
<1> QED BY <1>1, Invariance, PTL DEF Spec, AcceptedIsFinal
=============================================================================
