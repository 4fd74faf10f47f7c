------------------------------ MODULE AgentBridge -------------------------------
(***************************************************************************)
(* How the Agent Bridge answers the mentions of a room exactly once.           *)
(*                                                                             *)
(* One process on an operator's machine runs two loops over one SQLite file.    *)
(* The room loop (RoomSupervisor) drains the outbox, syncs, runs a turn for      *)
(* each new mention and commits the cursor last. A mention is talk, put to the   *)
(* coding session, or a command, put to RepoMesh's start action. The consumer    *)
(* (NarratingExecutor inside the Runner's serve loop) leases the runs RepoMesh   *)
(* queued and narrates each into the conversation its anchor names.              *)
(*                                                                             *)
(* A mention is its position in the room's timeline, an outbox row and its        *)
(* transaction id are the row's position in the outbox. The loops are coroutines  *)
(* of one thread: only at an await may the other loop step or the process be       *)
(* stopped, while a crash may come between any two transactions. The homeserver   *)
(* forgets no transaction id; RepoMesh has one task, whose live run it hands to    *)
(* whoever asks again. Session references, the leader's notices, the line about    *)
(* tests, invitations and the lengths of back-offs are left out.                   *)
(***************************************************************************)
EXTENDS Integers, Sequences, FiniteSets

CONSTANTS
    MaxMentions,        \* bound: mentions ever posted
    MaxRuns,            \* bound: runs RepoMesh ever starts
    SeenLimit,          \* SEEN_EVENT_LIMIT
    Occurs,             \* the disturbances of an instance
    MaxDisturbances     \* bound: how many of them in a behaviour, each kind once

ASSUME BridgeAssumption ==
    /\ MaxMentions \in Nat /\ MaxRuns \in Nat
    /\ SeenLimit \in Nat \ {0} /\ MaxDisturbances \in Nat
    /\ Occurs \subseteq {"crash", "stop", "timeout", "broken", "unreachable", "answer_lost",
                         "refused", "barred", "redelivered", "truncated", "declined",
                         "unanswered", "accept_lost", "report_lost"}

VARIABLES
    timeline,   \* the homeserver: the mentions of this worker, oldest first
    room,       \* the homeserver: the outbox rows it has, in the order it took them
    runs,       \* RepoMesh: the runs of the task, oldest first
    cursor,     \* sync_cursor: the position acknowledged, NoCursor before the baseline
    seen,       \* seen_events, oldest first
    ledger,     \* turn_ledger: the state of each mention's turn
    outbox,     \* the outbox, by row id
    anchors,    \* run_anchors: the mention that woke each run
    recorded,   \* the Runner's ledger: runs carried to an end here
    loop,       \* where the room loop is
    consumer,   \* where the consumer is
    turns,      \* history: how often each mention's turn was begun
    waived,     \* history: mentions adopted as the past or cut from a timeline
    trouble     \* the kinds of disturbance that have happened

disk == <<cursor, seen, ledger, outbox, anchors, recorded>>
vars == <<timeline, room, runs, disk, loop, consumer, turns, waived, trouble>>

Mentions == 1..MaxMentions
Posted == DOMAIN timeline
NoMention == 0
NoCursor == -1
Kinds == {"talk", "command"}
Terminal == {"completed", "failed"}     \* "blocked" is treated like "completed"
Endings == {"completed", "failed", "input_required"}
Live == {"queued", "leased", "accepted"}

Row == [mention : Mentions, lane : {"turn", "note", "run"}, ordinal : Nat,
        run : 0..MaxRuns, kind : {"text", "accepted", "started"} \cup Endings,
        state : {"owed", "sent", "refused"}]
\* queue: the rows a drain has yet to offer; batch, todo: the mentions of the batch in
\* hand, and those of them whose turn is to come; upto: its next_batch; mention: whose
\* turn it is; status: how the turn ended; raised: the turn ends with a _RoomTrouble;
\* run: the run in RepoMesh's receipt.
Loop == [pc : {"off", "send", "ack", "sync", "turn", "respond", "start", "receipt",
               "anchored", "settle"},
         queue : SUBSET Nat, batch : Seq(Mentions), todo : SUBSET Mentions, upto : Nat,
         mention : Mentions \cup {NoMention}, status : Terminal \cup {"timeout"},
         raised : BOOLEAN, run : 0..MaxRuns]
\* Mutant of Awaits: an await between the anchor and the row.
Awaits_Anchored == {"send", "ack", "sync", "respond", "start", "receipt", "anchored"}
Awaits == {"send", "ack", "sync", "respond", "start", "receipt"}
Off == [pc |-> "off", queue |-> {}, batch |-> <<>>, todo |-> {}, upto |-> 0,
        mention |-> NoMention, status |-> "failed", raised |-> FALSE, run |-> 0]
\* story: the mention a run is narrated to, if any.
Consumer == [pc : {"off", "poll", "accept", "work", "report"}, run : 0..MaxRuns,
             story : Mentions \cup {NoMention}, result : Endings]
Asleep == [pc |-> "off", run |-> 0, story |-> NoMention, result |-> "failed"]
Polling == [Asleep EXCEPT !.pc = "poll"]

Init ==
    /\ timeline = <<>> /\ room = <<>> /\ runs = <<>>
    /\ cursor = NoCursor /\ seen = <<>> /\ outbox = <<>> /\ recorded = {}
    /\ ledger = [m \in Mentions |-> "none"]
    /\ anchors = [r \in 1..MaxRuns |-> NoMention]
    /\ loop = Off /\ consumer = Asleep
    /\ turns = [m \in Mentions |-> 0] /\ waived = {} /\ trouble = {}

Disturb(kind) ==
    /\ kind \in Occurs \ trouble /\ Cardinality(trouble) < MaxDisturbances
    /\ trouble' = trouble \cup {kind}
Calm == UNCHANGED trouble

-----------------------------------------------------------------------------
(* The outbox. *)

Elements(s) == {s[i] : i \in DOMAIN s}
Oldest(S) == CHOOSE n \in S : \A k \in S : n <= k

Intent(m, lane, ordinal, run, kind) ==
    [mention |-> m, lane |-> lane, ordinal |-> ordinal, run |-> run, kind |-> kind,
     state |-> "owed"]
Owed(rows) == {i \in DOMAIN rows : rows[i].state = "owed"}
\* UNIQUE (trigger_event_id, lane, ordinal).
SamePlace(a, b) == a.mention = b.mention /\ a.lane = b.lane /\ a.ordinal = b.ordinal
\* INSERT OR IGNORE.
Written(row) ==
    IF \E i \in DOMAIN outbox : SamePlace(outbox[i], row) THEN outbox ELSE Append(outbox, row)
\* enqueue_send_at raises: the place holds a different message.
Taken(row) ==
    \E i \in DOMAIN outbox : SamePlace(outbox[i], row)
                             /\ (outbox[i].run # row.run \/ outbox[i].kind # row.kind)
Marked(i, state) == [outbox EXCEPT ![i].state = state]

-----------------------------------------------------------------------------
(* The room loop: rounds and drains. *)

\* What follows when a drain has nothing left to offer.
Drain(l, queue) ==
    [l EXCEPT !.queue = queue,
              !.pc = IF queue # {} THEN "send"
                     ELSE IF l.mention = NoMention THEN "sync" ELSE "settle"]
\* Mutant of NewRound: only a turn drains the outbox.
NewRound_NoDrain(rows) == Drain(Off, {})
\* A round begins by offering every intent still owed.
NewRound(rows) == Drain(Off, Owed(rows))
\* A _RoomTrouble: a turn settles before it goes up; the batch is left uncommitted.
InTrouble(l) ==
    IF l.mention = NoMention THEN NewRound(outbox)
    ELSE [l EXCEPT !.pc = "settle", !.queue = {}, !.raised = TRUE]

At(pc) == loop.pc = pc
\* Mutant of Offered: the newest intent first.
Offered_Newest == CHOOSE n \in loop.queue : \A k \in loop.queue : n >= k
Offered == Oldest(loop.queue)

\* The homeserver takes a message, or knows its transaction id already.
Deliver ==
    /\ At("send")
    /\ room' = IF Offered \in Elements(room) THEN room ELSE Append(room, Offered)
    /\ loop' = [loop EXCEPT !.pc = "ack"]
    /\ Calm
    /\ UNCHANGED <<timeline, runs, disk, consumer, turns, waived>>
\* mark_sent
Acknowledge ==
    /\ At("ack")
    /\ outbox' = Marked(Offered, "sent")
    /\ loop' = Drain(loop, loop.queue \ {Offered})
    /\ Calm
    /\ UNCHANGED <<timeline, room, runs, cursor, seen, ledger, anchors, recorded, consumer,
                   turns, waived>>
\* The room refuses the message for good: a dead letter.
Refuse ==
    /\ At("send") /\ Offered \notin Elements(room)
    /\ Disturb("refused")
    /\ outbox' = Marked(Offered, "refused")
    /\ loop' = Drain(loop, loop.queue \ {Offered})
    /\ UNCHANGED <<timeline, room, runs, cursor, seen, ledger, anchors, recorded, consumer,
                   turns, waived>>
\* The call fails, or its answer is lost.
RoomFails ==
    /\ \/ loop.pc \in {"send", "sync"} /\ Disturb("unreachable")
       \/ At("ack") /\ Disturb("answer_lost")
    /\ loop' = InTrouble(loop)
    /\ UNCHANGED <<timeline, room, runs, disk, consumer, turns, waived>>

\* Mutant of Remembered: nothing is ever forgotten.
Remembered_Unbounded(batch) ==
    seen \o (IF batch # <<>> /\ batch[1] \in Elements(seen) THEN Tail(batch) ELSE batch)
\* _remember: the events not held yet, then the newest SeenLimit. Only a repeated event,
\* which comes first, may be held.
Remembered(batch) ==
    LET fresh == IF batch # <<>> /\ batch[1] \in Elements(seen) THEN Tail(batch) ELSE batch
        all == seen \o fresh
    IN  SubSeq(all, IF Len(all) > SeenLimit THEN Len(all) - SeenLimit + 1 ELSE 1, Len(all))
Since(from) == [i \in 1..(Len(timeline) - from) |-> from + i]

\* The first sync answers with history, which is adopted and not run.
Baseline ==
    /\ At("sync") /\ cursor = NoCursor
    /\ seen' = Remembered(Since(0)) /\ cursor' = Len(timeline)
    /\ waived' = Posted
    /\ loop' = NewRound(outbox)
    /\ Calm
    /\ UNCHANGED <<timeline, room, runs, ledger, outbox, anchors, recorded, consumer, turns>>
\* A later one answers with what follows the cursor; the homeserver may leave out the
\* oldest, or repeat an event from before.
Sync ==
    /\ At("sync") /\ cursor # NoCursor
    /\ \E from \in cursor..Len(timeline), again \in {<<>>} \cup {<<m>> : m \in 1..cursor} :
          LET batch == again \o Since(from)
              todo == {m \in Elements(batch) : m \notin Elements(seen)}
          IN  /\ \/ from = cursor /\ again = <<>> /\ Calm
                 \/ from # cursor /\ again = <<>> /\ Disturb("truncated")
                 \/ from = cursor /\ again # <<>> /\ Disturb("redelivered")
              /\ waived' = waived \cup (cursor + 1)..from
              /\ loop' = IF batch = <<>> /\ from = cursor THEN NewRound(outbox)
                         ELSE [loop EXCEPT !.pc = "turn", !.batch = batch, !.todo = todo,
                                           !.upto = Len(timeline)]
    /\ UNCHANGED <<timeline, room, runs, disk, consumer, turns>>
\* The last step of a round: its events are seen and the cursor moves, together.
Commit ==
    /\ At("turn") /\ loop.todo = {}
    /\ seen' = Remembered(loop.batch) /\ cursor' = loop.upto
    /\ loop' = NewRound(outbox)
    /\ Calm
    /\ UNCHANGED <<timeline, room, runs, ledger, outbox, anchors, recorded, consumer, turns,
                   waived>>

-----------------------------------------------------------------------------
(* One turn. *)

Upcoming == Oldest(loop.todo)
\* claim: a settled turn is refused, any other is recorded as in flight and begun.
SkipSettled ==
    /\ At("turn") /\ loop.todo # {} /\ ledger[Upcoming] \in Terminal
    /\ loop' = [loop EXCEPT !.todo = @ \ {Upcoming}]
    /\ Calm
    /\ UNCHANGED <<timeline, room, runs, disk, consumer, turns, waived>>
\* Mutant of Claim: the ledger is not asked.
Claim_Again ==
    /\ At("turn") /\ loop.todo # {}
    /\ ledger' = [ledger EXCEPT ![Upcoming] = "in_flight"]
    /\ turns' = [turns EXCEPT ![Upcoming] = @ + 1]
    /\ loop' = [loop EXCEPT !.todo = @ \ {Upcoming}, !.mention = Upcoming,
                            !.pc = IF timeline[Upcoming] = "talk" THEN "respond" ELSE "start"]
    /\ Calm
    /\ UNCHANGED <<timeline, room, runs, cursor, seen, outbox, anchors, recorded, consumer,
                   waived>>
Claim ==
    /\ At("turn") /\ loop.todo # {} /\ ledger[Upcoming] \notin Terminal
    /\ ledger' = [ledger EXCEPT ![Upcoming] = "in_flight"]
    /\ turns' = [turns EXCEPT ![Upcoming] = @ + 1]
    /\ loop' = [loop EXCEPT !.todo = @ \ {Upcoming}, !.mention = Upcoming,
                            !.pc = IF timeline[Upcoming] = "talk" THEN "respond" ELSE "start"]
    /\ Calm
    /\ UNCHANGED <<timeline, room, runs, cursor, seen, outbox, anchors, recorded, consumer,
                   waived>>

\* The answer is written down, then everything owed is offered.
Conclude(status, lane, run, kind) ==
    /\ outbox' = Written(Intent(loop.mention, lane, 0, run, kind))
    /\ loop' = Drain([loop EXCEPT !.status = status, !.run = 0], Owed(outbox'))
    /\ UNCHANGED <<timeline, room, cursor, seen, ledger, anchors, recorded, consumer, turns,
                   waived>>
Note(status) == Conclude(status, "note", 0, "text")

Respond ==
    /\ At("respond")
    /\ \/ Conclude("completed", "turn", 0, "text") /\ Calm
       \/ Note("timeout") /\ Disturb("timeout")
       \/ Note("failed") /\ Disturb("broken")
    /\ UNCHANGED runs

\* RepoMesh's start action: a live run is handed out again; a task that ended is not
\* started again, one that waits for input is.
LiveRuns == {r \in DOMAIN runs : runs[r] \in Live}
Startable == \A r \in DOMAIN runs : runs[r] = "input_required"
StartServed ==
    /\ At("start")
    /\ IF LiveRuns # {} THEN \E r \in LiveRuns : /\ loop' = [loop EXCEPT !.pc = "receipt", !.run = r]
                                                 /\ UNCHANGED runs
       ELSE /\ Startable /\ Len(runs) < MaxRuns
            /\ runs' = Append(runs, "queued")
            /\ loop' = [loop EXCEPT !.pc = "receipt", !.run = Len(runs) + 1]
    /\ Calm
    /\ UNCHANGED <<timeline, room, disk, consumer, turns, waived>>
\* GovernedTaskRefused, or GovernedTaskUnavailable before anything was started.
StartDeclined ==
    /\ At("start")
    /\ \/ LiveRuns = {} /\ ~(Startable /\ Len(runs) < MaxRuns) /\ Calm
       \/ Disturb("declined")
    /\ Note("failed") /\ UNCHANGED runs
\* The answer does not come back in time, or at all: the room is told to ask again.
NoReceipt ==
    /\ At("receipt") /\ Disturb("unanswered")
    /\ \E status \in {"failed", "timeout"} : Note(status)
    /\ UNCHANGED runs
\* record_anchor, before the room hears of the run.
Receipt ==
    /\ At("receipt") /\ anchors[loop.run] \in {NoMention, loop.mention}
    /\ anchors' = [anchors EXCEPT ![loop.run] = loop.mention]
    /\ loop' = [loop EXCEPT !.pc = "anchored"]
    /\ Calm
    /\ UNCHANGED <<timeline, room, runs, cursor, seen, ledger, outbox, recorded, consumer,
                   turns, waived>>
AnswerReceipt ==
    /\ At("anchored") /\ Conclude("completed", "run", loop.run, "accepted")
    /\ Calm /\ UNCHANGED runs

\* settle: a timeout forgets the turn, anything else is final.
Settle ==
    /\ At("settle")
    /\ ledger' = [ledger EXCEPT ![loop.mention] = IF loop.status = "timeout" THEN "none"
                                                   ELSE loop.status]
    /\ loop' = IF loop.raised THEN NewRound(outbox)
               ELSE [loop EXCEPT !.pc = "turn", !.mention = NoMention, !.status = "failed"]
    /\ Calm
    /\ UNCHANGED <<timeline, room, runs, cursor, seen, outbox, anchors, recorded, consumer,
                   turns, waived>>

-----------------------------------------------------------------------------
(* The consumer: the Runner's serve loop around NarratingExecutor. *)

Line(ordinal, kind) == Intent(consumer.story, "run", ordinal, consumer.run, kind)
Running(pc) == consumer.pc = pc
Lease ==
    /\ Running("poll")
    /\ \E r \in DOMAIN runs \ recorded :
          /\ runs[r] \in {"queued", "leased"}
          /\ runs' = [runs EXCEPT ![r] = "leased"]
          /\ consumer' = [consumer EXCEPT !.pc = "accept", !.run = r]
    /\ Calm
    /\ UNCHANGED <<timeline, room, disk, loop, turns, waived>>
\* The accepted event is taken; the run is looked up and its first line written. A place
\* that holds another message raises, and the run fails before it starts.
Begin ==
    /\ Running("accept")
    /\ runs' = [runs EXCEPT ![consumer.run] = "accepted"]
    /\ LET story == anchors[consumer.run]
           line == Intent(story, "run", 1, consumer.run, "started")
       IN  /\ outbox' = IF story = NoMention THEN outbox ELSE Written(line)
           /\ consumer' = [consumer EXCEPT !.story = story,
                             !.pc = IF story # NoMention /\ Taken(line) THEN "report" ELSE "work"]
    /\ Calm
    /\ UNCHANGED <<timeline, room, cursor, seen, ledger, anchors, recorded, loop, turns, waived>>
\* EventDeliveryError on the accepted event: nothing ran and nothing is recorded.
AcceptFails ==
    /\ Running("accept") /\ Disturb("accept_lost")
    /\ \E state \in {"leased", "accepted"} : runs' = [runs EXCEPT ![consumer.run] = state]
    /\ consumer' = Polling
    /\ UNCHANGED <<timeline, room, disk, loop, turns, waived>>
\* Mutant of Work: whatever did not fail is told as completed.
Work_Completed ==
    /\ Running("work")
    /\ \E result \in Endings :
          LET told == IF result = "failed" THEN "failed" ELSE "completed"
          IN  /\ outbox' = IF consumer.story = NoMention THEN outbox
                           ELSE Written(Line(3, told))
              /\ consumer' = [consumer EXCEPT !.pc = "report", !.result = result]
    /\ Calm
    /\ UNCHANGED <<timeline, room, runs, cursor, seen, ledger, anchors, recorded, loop, turns,
                   waived>>
\* The run ends, an exception among the ways to fail, and its last line is written.
Work ==
    /\ Running("work")
    /\ \E result \in Endings :
          IF consumer.story = NoMention
          THEN /\ consumer' = [consumer EXCEPT !.pc = "report", !.result = result]
               /\ UNCHANGED outbox
          ELSE /\ outbox' = Written(Line(3, result))
               /\ consumer' = [consumer EXCEPT !.pc = "report",
                                 !.result = IF Taken(Line(3, result)) THEN "failed" ELSE result]
    /\ Calm
    /\ UNCHANGED <<timeline, room, runs, cursor, seen, ledger, anchors, recorded, loop, turns,
                   waived>>
\* The terminal event is taken, or not; either way the run is never executed again here.
Report ==
    /\ Running("report")
    /\ \/ Calm /\ runs' = [runs EXCEPT ![consumer.run] = consumer.result]
       \/ Disturb("report_lost") /\ UNCHANGED runs
    /\ recorded' = recorded \cup {consumer.run}
    /\ consumer' = Polling
    /\ UNCHANGED <<timeline, room, cursor, seen, ledger, outbox, anchors, loop, turns, waived>>

-----------------------------------------------------------------------------
(* The process. *)

Start ==
    /\ At("off")
    /\ loop' = NewRound(outbox) /\ consumer' = Polling
    /\ Calm
    /\ UNCHANGED <<timeline, room, runs, disk, turns, waived>>
\* The loops are peers of one task group: when one ends, the other is cancelled, and a
\* narrated run that is cut short is reported to its room.
Exit ==
    /\ outbox' = IF Running("work") /\ consumer.story # NoMention
                 THEN Written(Line(3, "failed")) ELSE outbox
    /\ loop' = Off /\ consumer' = Asleep
    /\ UNCHANGED <<timeline, room, runs, cursor, seen, anchors, recorded, turns, waived>>
\* Mutant of Stop: the turn is settled as it stands.
Stop_Final ==
    /\ loop.pc \in Awaits /\ Disturb("stop")
    /\ ledger' = IF loop.mention = NoMention THEN ledger
                 ELSE [ledger EXCEPT ![loop.mention] = loop.status]
    /\ Exit
\* The operator stops the process: the turn in hand is left to be retried.
Stop ==
    /\ loop.pc \in Awaits /\ Disturb("stop")
    /\ ledger' = IF loop.mention = NoMention THEN ledger
                 ELSE [ledger EXCEPT ![loop.mention] = "interrupted"]
    /\ Exit
\* The homeserver refuses this identity's sync.
Barred ==
    /\ At("sync") /\ Disturb("barred")
    /\ Exit /\ UNCHANGED ledger
\* record_anchor raises: the run belongs to another message. Nothing on the way up
\* catches it, so the turn is settled as failed and the process ends.
AnchorClash ==
    /\ At("receipt") /\ anchors[loop.run] \notin {NoMention, loop.mention}
    /\ ledger' = [ledger EXCEPT ![loop.mention] = "failed"]
    /\ Calm /\ Exit
\* Power goes: what was in memory is gone.
Crash ==
    /\ ~At("off") /\ Disturb("crash")
    /\ loop' = Off /\ consumer' = Asleep
    /\ UNCHANGED <<timeline, room, runs, disk, turns, waived>>

Post ==
    /\ Len(timeline) < MaxMentions
    /\ \E kind \in Kinds : timeline' = Append(timeline, kind)
    /\ Calm
    /\ UNCHANGED <<room, runs, disk, loop, consumer, turns, waived>>

LoopStep ==
    \/ Deliver \/ Acknowledge \/ Refuse \/ RoomFails
    \/ Baseline \/ Sync \/ Commit
    \/ SkipSettled \/ Claim \/ Respond \/ Settle
    \/ StartServed \/ StartDeclined \/ NoReceipt \/ Receipt \/ AnchorClash \/ AnswerReceipt
\* The consumer steps while the room loop awaits.
ConsumerStep ==
    /\ loop.pc \in Awaits
    /\ Lease \/ Begin \/ AcceptFails \/ Work \/ Report
Next == Post \/ Start \/ LoopStep \/ ConsumerStep \/ Stop \/ Barred \/ Crash

Spec == Init /\ [][Next]_vars
\* The loops run, calls return or time out, and the operator starts the process again.
FairSpec ==
    /\ Spec
    /\ WF_vars(Start) /\ WF_vars(LoopStep) /\ WF_vars(ConsumerStep)

-----------------------------------------------------------------------------
(* What the Bridge promises. *)

\* The rows and the program states have their shape, and the book-keeping of the process
\* is within the timeline: what is seen, claimed or anchored was posted.
BridgeTypeOK ==
    /\ timeline \in Seq(Kinds) /\ Len(timeline) <= MaxMentions
    /\ outbox \in Seq(Row) /\ Elements(room) \subseteq DOMAIN outbox
    /\ runs \in Seq(Live \cup Endings) /\ recorded \subseteq DOMAIN runs
    /\ cursor \in {NoCursor} \cup 0..Len(timeline) /\ Len(seen) <= SeenLimit
    /\ loop \in Loop /\ consumer \in Consumer /\ loop.queue \subseteq DOMAIN outbox
    /\ ledger \in [Mentions -> {"none", "in_flight", "interrupted"} \cup Terminal]
    /\ \A m \in Mentions : m \notin Posted => ledger[m] = "none" /\ turns[m] = 0
    /\ \A r \in 1..MaxRuns : anchors[r] \in Posted \cup {NoMention}

HasRow(m) == \E i \in DOMAIN outbox : outbox[i].mention = m
\* A run the mention may have been handed belongs to another one.
Clashes(m) == /\ m \in Posted /\ timeline[m] = "command"
              /\ \E r \in DOMAIN runs : anchors[r] \notin {NoMention, m}

\* A mention behind the cursor has an answer in the outbox, whatever was lost, stopped,
\* cut or repeated on the way: "answer one mention, or record why it was not answered"
\* (supervisor._run_turn; Inbox.commit moves the cursor last). The one exception is a
\* second mention of a live run: record_anchor raises outside the try of _start_governed,
\* which promises "the canned failure line rather than escaping into the round".
NobodyIgnored ==
    \A m \in (1..cursor) \ waived : HasRow(m) \/ Clashes(m)

\* The room reads the outbox in its order, each row once and none left out but the dead
\* letters, whichever sends and acknowledgements were lost and whoever wrote the rows
\* (supervisor._drain, the transaction id derived from the row).
RoomReadsInOrder ==
    /\ \A i, j \in DOMAIN room : i < j => room[i] < room[j]
    /\ \A i \in DOMAIN outbox :
          /\ outbox[i].state = "sent" => i \in Elements(room)
          /\ outbox[i].state = "refused" => i \notin Elements(room)
          /\ outbox[i].state = "owed" => \A k \in Elements(room) : k <= i

\* A mention is put to the session, or to RepoMesh, once; again only where its turn may
\* have had no effect, at most once for each crash, stop or late answer. Lost sends and
\* repeated or forgotten events never run it again (Inbox.triggers and claim,
\* state.begin_turn).
OneTurnEach ==
    LET excuses == trouble \cap {"crash", "stop", "timeout", "unanswered"}
    IN  \A m \in Mentions : turns[m] <= 1 + Cardinality(excuses)

\* The conversation of a mention tells each run in order: accepted, started, ended. The two
\* loops write its rows; the anchor written first and the ordinals keep them apart. Only a
\* crash between the anchor and the first row lets the consumer begin the story, and only
\* a mention whose turn ran again tells of a second run (supervisor._start_governed,
\* NarratingExecutor.execute).
StoryInOrder ==
    \A i, j \in DOMAIN outbox :
        LET a == outbox[i]  b == outbox[j]
        IN  (a.lane = "run" /\ b.lane = "run" /\ a.mention = b.mention /\ i < j)
            => /\ a.run = b.run => a.ordinal < b.ordinal \/ "crash" \in trouble
               /\ turns[a.mention] = 1 => a.run = b.run

\* What the room was told of a run's end is what RepoMesh recorded
\* (NarratingExecutor.execute tells before engine.ExecuteRunnerTask reports).
RoomAgrees ==
    \A i \in DOMAIN outbox :
        (outbox[i].ordinal = 3 /\ runs[outbox[i].run] \in Endings)
        => runs[outbox[i].run] = outbox[i].kind

\* Every mention comes to rest: adopted or cut, its answer in the room or a dead letter,
\* or the clash. The room loop never wedges on a message, a run or a stopped process.
Heard(m) == \E i \in DOMAIN outbox : outbox[i].mention = m /\ outbox[i].state # "owed"
EveryMentionSettles ==
    \A m \in Mentions : m \in Posted ~> (m \in waived \/ Heard(m) \/ Clashes(m))

=============================================================================
