---------------------------- MODULE SCMCommandQueue ----------------------------
(***************************************************************************)
(* The durable queue of provider commands (merge a pull request, take a    *)
(* pull request out of draft) and the dispatchers that lease commands from *)
(* it, perform them on GitHub and acknowledge them.                        *)
(*                                                                         *)
(*   delivery/application.py      SCMCommandService                        *)
(*   delivery/infrastructure.py   PostgresSCMCommandStore                  *)
(*   scm/command_dispatcher.py    SCMCommandDispatcher                     *)
(*                                                                         *)
(* Every store operation is one transaction and is one step here.  Between *)
(* two steps of a dispatcher (each an await of the code) other dispatchers *)
(* run, time passes, leases run out, the process crashes, and the pull     *)
(* request changes on GitHub.                                              *)
(*                                                                         *)
(* Time.  A lease is represented by the time left until lease_expires_at,  *)
(* so that time needs no bound: 0 is an expired lease, and Tick lets one   *)
(* unit of time pass for every lease at once.                              *)
(***************************************************************************)
EXTENDS Integers

CONSTANTS
    Commands,        \* idempotency keys; a key fixes change set, PR and head
    MergeCommands,   \* the MERGE_PULL_REQUEST ones, the others take out of draft
    Dispatchers,     \* dispatcher processes, each with its own lease_owner
    LeaseTime,       \* lease_seconds, in ticks
    MaxAttempts,     \* max_attempts
    NoOwner          \* lease_owner IS NULL

ASSUME SomeCommand       == Commands # {}
ASSUME MergeAssumption   == MergeCommands \subseteq Commands
ASSUME LeaseAssumption   == LeaseTime \in Nat \ {0}
ASSUME AttemptAssumption == MaxAttempts \in Nat \ {0}
ASSUME OwnerAssumption   == NoOwner \notin Dispatchers

VARIABLES
    commands,    \* the rows of the command table
    worker,      \* what each dispatcher is doing, with the view it claimed
    pull,        \* GitHub: has the pull request reached the commanded state?
    moved,       \* GitHub: pull requests whose head is not the command's head
    requested    \* commands whose candidate is on record as MERGE_REQUESTED

vars == <<commands, worker, pull, moved, requested>>

-----------------------------------------------------------------------------
CommandStatus == {"absent", "pending", "processing", "accepted", "failed"}

Command == [status   : CommandStatus,
            attempts : 0 .. MaxAttempts,
            version  : Nat,
            owner    : Dispatchers \cup {NoOwner},
            lease    : 0 .. LeaseTime]

\* The steps of run_once: read the PR, write to GitHub, record the merge
\* request in the ChangeSet, acknowledge, or report the failure.
Phase == {"idle", "read", "write", "record", "accept", "fail"}

\* The claimed view: command, fencing version, and the time left on the lease
\* as the last claim or renewal granted it.
Worker == [phase : Phase, command : Commands, version : Nat, held : 0 .. LeaseTime]

PullState == {"open", "closed", "done"}

-----------------------------------------------------------------------------
(* The store. *)

\* Mutants of Claimable: no attempt limit; live leases are taken over; expired
\* leases are not.
Claimable_Unlimited(c) ==
    \/ commands[c].status \in {"pending", "failed"}
    \/ commands[c].status = "processing" /\ commands[c].lease = 0
Claimable_IgnoresLease(c) ==
    /\ commands[c].attempts < MaxAttempts
    /\ commands[c].status \in {"pending", "failed", "processing"}
Claimable_NoReclaim(c) ==
    /\ commands[c].attempts < MaxAttempts
    /\ commands[c].status \in {"pending", "failed"}

\* The WHERE clause of claim_batch.
Claimable(c) ==
    /\ commands[c].attempts < MaxAttempts
    /\ \/ commands[c].status \in {"pending", "failed"}
       \/ commands[c].status = "processing" /\ commands[c].lease = 0

\* Mutant of Owned: the row is looked up by id only.
Owned_ById(d) == commands[worker[d].command].status # "absent"

\* _owned: the row is still processing under this owner and fencing version,
\* and the lease has not run out.
Owned(d) ==
    LET row == commands[worker[d].command] IN
    /\ row.status = "processing"
    /\ row.owner = d
    /\ row.version = worker[d].version
    /\ row.lease > 0

EmptyRow == [status |-> "absent", attempts |-> 0, version |-> 0,
             owner |-> NoOwner, lease |-> 0]

\* A new command.
PendingRow == [status |-> "pending", attempts |-> 0, version |-> 1,
               owner |-> NoOwner, lease |-> 0]

Claimed(row, d) ==
    [status |-> "processing", attempts |-> row.attempts + 1,
     version |-> row.version + 1, owner |-> d, lease |-> LeaseTime]

\* accept and fail: leave processing and clear the lease.
Released(row, status) ==
    [status |-> status, attempts |-> row.attempts,
     version |-> row.version + 1, owner |-> NoOwner, lease |-> 0]

\* A dispatcher between two commands holds no view (the command is arbitrary).
IdleWorker == [phase |-> "idle", command |-> CHOOSE c \in Commands : TRUE,
               version |-> 0, held |-> 0]

Goto(d, phase) == worker' = [worker EXCEPT ![d].phase = phase]
Rest(d) == worker' = [worker EXCEPT ![d] = IdleWorker]

-----------------------------------------------------------------------------
Init ==
    /\ commands = [c \in Commands |-> EmptyRow]
    /\ worker = [d \in Dispatchers |-> IdleWorker]
    /\ pull = [c \in Commands |-> "open"]
    /\ moved = {}
    /\ requested = {}

\* enqueue: a key already on file is returned unchanged, whatever its status;
\* the unique key makes the read and the insert one step.
Enqueue(c) ==
    /\ commands[c].status = "absent"
    /\ commands' = [commands EXCEPT ![c] = PendingRow]
    /\ UNCHANGED <<worker, pull, moved, requested>>

\* claim_batch(limit = 1).  Creation order is a preference only: SKIP LOCKED
\* passes over rows that another transaction holds, so any eligible row may be
\* the one returned.
Claim(d, c) ==
    /\ worker[d].phase = "idle"
    /\ Claimable(c)
    /\ commands' = [commands EXCEPT ![c] = Claimed(@, d)]
    /\ worker' = [worker EXCEPT ![d] =
                    [phase |-> "read", command |-> c,
                     version |-> commands[c].version + 1, held |-> LeaseTime]]
    /\ UNCHANGED <<pull, moved, requested>>

\* _renew_lease runs beside the dispatch until the dispatch is over.  A renewal
\* the store refuses ends the renewal task and changes nothing.
Renew(d) ==
    /\ worker[d].phase # "idle"
    /\ Owned(d)
    /\ commands' = [commands EXCEPT ![worker[d].command].lease = LeaseTime]
    /\ worker' = [worker EXCEPT ![d].held = LeaseTime]
    /\ UNCHANGED <<pull, moved, requested>>

\* Mutant of AfterRead: a pull request found merged needs no record.
AfterRead_SkipsRecord(c) ==
    IF c \in moved THEN "fail" ELSE IF pull[c] = "open" THEN "write" ELSE "accept"

\* What get_pull_request leads to in _dispatch and _undraft.
AfterRead(c) ==
    CASE c \in moved                              -> "fail"
      [] c \notin moved /\ c \in MergeCommands    ->
            IF pull[c] = "done" THEN "record" ELSE "write"
      [] c \notin moved /\ c \notin MergeCommands ->
            IF pull[c] = "open" THEN "write" ELSE "accept"

\* get_pull_request answers, or raises.
ReadPullRequest(d) ==
    /\ worker[d].phase = "read"
    /\ \/ Goto(d, AfterRead(worker[d].command))
       \/ Goto(d, "fail")
    /\ UNCHANGED <<commands, pull, moved, requested>>

\* merge_pull_request is refused by GitHub unless the PR is open at the
\* expected head; ready_for_review is not bound to a head, and leaves alone a
\* pull request that is closed or no longer a draft.  Any call may raise with
\* or without having taken effect (a lost answer).
WritePullRequest(d) ==
    LET c == worker[d].command
        takesEffect == pull[c] = "open" /\ (c \in MergeCommands => c \notin moved)
    IN
    /\ worker[d].phase = "write"
    /\ \/ /\ takesEffect
          /\ pull' = [pull EXCEPT ![c] = "done"]
          /\ \/ Goto(d, IF c \in MergeCommands THEN "record" ELSE "accept")
             \/ Goto(d, "fail")
       \/ /\ c \notin MergeCommands /\ pull[c] # "open"
          /\ Goto(d, "accept")
          /\ UNCHANGED pull
       \/ Goto(d, "fail") /\ UNCHANGED pull
    /\ UNCHANGED <<commands, moved, requested>>

\* record_merge_requested: refused when the candidate is no longer
\* READY_TO_MERGE at this head, or when another update won the version race.
RecordMergeRequested(d) ==
    /\ worker[d].phase = "record"
    /\ \/ requested' = requested \cup {worker[d].command} /\ Goto(d, "accept")
       \/ Goto(d, "fail") /\ UNCHANGED requested
    /\ UNCHANGED <<commands, pull, moved>>

\* accept under the lease; a refusal raises, and the handler then tries fail.
Accept(d) ==
    /\ worker[d].phase = "accept"
    /\ IF Owned(d)
       THEN /\ commands' = [commands EXCEPT ![worker[d].command] = Released(@, "accepted")]
            /\ Rest(d)
       ELSE Goto(d, "fail") /\ UNCHANGED commands
    /\ UNCHANGED <<pull, moved, requested>>

\* fail under the lease; a refusal is suppressed.
Fail(d) ==
    /\ worker[d].phase = "fail"
    /\ commands' = IF Owned(d)
                   THEN [commands EXCEPT ![worker[d].command] = Released(@, "failed")]
                   ELSE commands
    /\ Rest(d)
    /\ UNCHANGED <<pull, moved, requested>>

\* The process dies; its successor starts with no claimed view.  (The code gives
\* the successor a fresh lease_owner; the model reuses the name, which is
\* harmless because the old view is gone.)
Crash(d) ==
    /\ worker[d].phase # "idle"
    /\ Rest(d)
    /\ UNCHANGED <<commands, pull, moved, requested>>

\* One unit of time passes.
Tick ==
    /\ \/ \E c \in Commands : commands[c].lease > 0
       \/ \E d \in Dispatchers : worker[d].held > 0
    /\ commands' = [c \in Commands |->
          [commands[c] EXCEPT !.lease = IF @ > 0 THEN @ - 1 ELSE 0]]
    /\ worker' = [d \in Dispatchers |->
          [worker[d] EXCEPT !.held = IF @ > 0 THEN @ - 1 ELSE 0]]
    /\ UNCHANGED <<pull, moved, requested>>

\* GitHub, without us: a reviewer closes, merges or un-drafts the pull request,
\* or somebody pushes to its branch before it is merged.
PullRequestChanges(c) ==
    /\ \/ /\ pull[c] = "open"
          /\ \E s \in {"closed", "done"} : pull' = [pull EXCEPT ![c] = s]
          /\ UNCHANGED moved
       \/ /\ c \notin moved
          /\ c \in MergeCommands => pull[c] = "open"
          /\ moved' = moved \cup {c}
          /\ UNCHANGED pull
    /\ UNCHANGED <<commands, worker, requested>>

\* The next statement of run_once.
DispatcherStep(d) ==
    \/ \E c \in Commands : Claim(d, c)
    \/ ReadPullRequest(d)
    \/ WritePullRequest(d)
    \/ RecordMergeRequested(d)
    \/ Accept(d)
    \/ Fail(d)

Next ==
    \/ \E c \in Commands : Enqueue(c) \/ PullRequestChanges(c)
    \/ \E d \in Dispatchers : DispatcherStep(d) \/ Renew(d) \/ Crash(d)
    \/ Tick

\* The dispatcher loop keeps running (a crashed process is restarted) and time
\* keeps passing.  Nothing is assumed of GitHub's answers, of renewals or of
\* crashes.
Fairness ==
    /\ \A d \in Dispatchers : WF_vars(DispatcherStep(d))
    /\ WF_vars(Tick)

Spec == Init /\ [][Next]_vars /\ Fairness

-----------------------------------------------------------------------------
(* Properties. *)

TypeOK ==
    /\ commands \in [Commands -> Command]
    /\ worker \in [Dispatchers -> Worker]
    /\ pull \in [Commands -> PullState]
    /\ moved \subseteq Commands
    /\ requested \subseteq MergeCommands

\* A lease that claim_batch or renew granted is honoured until it runs out: as
\* long as time is left on the view a working dispatcher holds, the row is still
\* its own, so accept and fail will not be refused.  (No dispatcher can take a
\* command over early, and no stale one can end it.)
LeaseHonoured ==
    \A d \in Dispatchers :
        worker[d].phase # "idle" /\ worker[d].held > 0 => Owned(d)

\* accept acknowledges only what happened: an accepted merge command has been
\* merged on GitHub and its candidate was recorded MERGE_REQUESTED, and an
\* accepted un-draft command leaves no open draft behind, across crashes, lost
\* answers, takeovers and two dispatchers working on the same command.
AcceptedMeansDone ==
    \A c \in Commands : commands[c].status = "accepted" =>
        IF c \in MergeCommands THEN pull[c] = "done" /\ c \in requested
                               ELSE pull[c] # "open"

\* An accepted command is final: no late accept, fail, renewal or claim by a
\* stale dispatcher changes its row again.
AcceptedIsFinal ==
    [][\A c \in Commands :
          commands[c].status = "accepted" => commands'[c] = commands[c]]_vars

\* The strengthening under which the three properties above are inductive: the
\* row and the view agree on the time left; the phases after the remote write
\* are reached only once the pull request is where the command wants it; only a
\* processing row carries a lease.
Done(c) ==
    IF c \in MergeCommands THEN pull[c] = "done" /\ c \in requested ELSE pull[c] # "open"

LeaseInv ==
    \A d \in Dispatchers :
        worker[d].phase # "idle" /\ worker[d].held > 0 =>
            Owned(d) /\ commands[worker[d].command].lease = worker[d].held

PhaseInv ==
    \A d \in Dispatchers :
        /\ worker[d].phase = "record" =>
              worker[d].command \in MergeCommands /\ pull[worker[d].command] = "done"
        /\ worker[d].phase = "accept" => Done(worker[d].command)

RowInv ==
    \A c \in Commands :
        /\ commands[c].status # "processing" => commands[c].lease = 0
        /\ commands[c].status = "accepted" => Done(c)

IInv == TypeOK /\ LeaseInv /\ PhaseInv /\ RowInv

\* A command at its attempt limit that nobody will claim again.
Exhausted(c) ==
    /\ commands[c].attempts = MaxAttempts
    /\ \/ commands[c].status = "failed"
       \/ commands[c].status = "processing" /\ commands[c].lease = 0

\* Every enqueued command settles: whatever crashes, it is accepted, or its
\* attempts are used up (the row then rests in failed, or in processing under a
\* lease that has run out).
Settles ==
    \A c \in Commands :
        commands[c].status = "pending" ~>
            commands[c].status = "accepted" \/ Exhausted(c)
=============================================================================
