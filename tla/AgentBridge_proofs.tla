--------------------------- MODULE AgentBridge_proofs ---------------------------
(***************************************************************************)
(* Proofs about AgentBridge for any number of mentions, runs and           *)
(* disturbances, and any limit on the events remembered.                   *)
(***************************************************************************)
EXTENDS AgentBridge, TLAPS, FiniteSetTheorems, SequenceTheorems, WellFoundedInduction

USE BridgeAssumption

-----------------------------------------------------------------------------
(* The helpers. *)

\* A set of numbers that is not empty has a least one, and Oldest finds it.
LEMMA OldestIs ==
    ASSUME NEW S \in SUBSET Nat, S # {}
    PROVE  Oldest(S) \in S /\ \A k \in S : Oldest(S) <= k
<1>1. PICK n \in S : \A k \in S : ~ (<<k, n>> \in OpToRel(<, Nat))
  BY NatLessThanWellFounded, WFMin
<1>2. ASSUME NEW k \in S PROVE n <= k
  <2>1. <<k, n>> \notin OpToRel(<, Nat)
    BY <1>1
  <2>2. ~ (k < n)
    BY <2>1 DEF OpToRel
  <2> QED BY <2>2
<1> QED BY <1>2 DEF Oldest

\* Rows keep their message; only the state of one may change.
Kept(a, b) ==
    /\ a.mention = b.mention /\ a.lane = b.lane /\ a.ordinal = b.ordinal
    /\ a.run = b.run /\ a.kind = b.kind

\* INSERT OR IGNORE adds the row at the end, unless its place is taken.
LEMMA WrittenIs ==
    ASSUME outbox \in Seq(Row), NEW row \in Row
    PROVE  /\ Written(row) \in Seq(Row)
           /\ Len(Written(row)) \in {Len(outbox), Len(outbox) + 1}
           /\ \A i \in DOMAIN outbox : i \in DOMAIN Written(row) /\ Written(row)[i] = outbox[i]
           /\ \A i \in DOMAIN Written(row) \ DOMAIN outbox :
                 i = Len(outbox) + 1 /\ Written(row)[i] = row
                 /\ \A k \in DOMAIN outbox : ~ SamePlace(outbox[k], row)
           /\ \E i \in DOMAIN Written(row) : SamePlace(Written(row)[i], row)
<1>1. CASE \E i \in DOMAIN outbox : SamePlace(outbox[i], row)
  BY <1>1 DEF Written
<1>2. CASE ~ \E i \in DOMAIN outbox : SamePlace(outbox[i], row)
  <2>1. Written(row) = Append(outbox, row)
    BY <1>2 DEF Written
  <2>2. SamePlace(Written(row)[Len(outbox) + 1], row)
    BY <2>1 DEF SamePlace
  <2> QED BY <1>2, <2>1, <2>2
<1> QED BY <1>1, <1>2

LEMMA MarkedIs ==
    ASSUME outbox \in Seq(Row), NEW n \in DOMAIN outbox, NEW state \in {"owed", "sent", "refused"}
    PROVE  /\ Marked(n, state) \in Seq(Row) /\ Len(Marked(n, state)) = Len(outbox)
           /\ DOMAIN Marked(n, state) = DOMAIN outbox
           /\ \A i \in DOMAIN outbox :
                 /\ Marked(n, state)[i] \in Row
                 /\ Kept(Marked(n, state)[i], outbox[i])
                 /\ Marked(n, state)[i].state = IF i = n THEN state ELSE outbox[i].state
<1>1. \A i \in DOMAIN outbox : outbox[i] \in Row
  OBVIOUS
<1>2. Marked(n, state) = [outbox EXCEPT ![n] = [outbox[n] EXCEPT !.state = state]]
  BY DEF Marked
<1>3. [outbox[n] EXCEPT !.state = state] \in Row
      /\ Kept([outbox[n] EXCEPT !.state = state], outbox[n])
      /\ [outbox[n] EXCEPT !.state = state].state = state
  BY <1>1 DEF Row, Kept
<1>4. \A i \in DOMAIN outbox : Kept(outbox[i], outbox[i])
  BY DEF Kept
<1> HIDE DEF Row, Kept
<1>5. Marked(n, state) \in Seq(Row) /\ Len(Marked(n, state)) = Len(outbox)
      /\ DOMAIN Marked(n, state) = DOMAIN outbox
  BY <1>2, <1>3
<1> QED BY <1>1, <1>2, <1>3, <1>4, <1>5

LEMMA DrainIs ==
    ASSUME NEW l \in Loop, NEW queue \in SUBSET Nat
    PROVE  /\ Drain(l, queue) \in Loop /\ Drain(l, queue).queue = queue
           /\ Drain(l, queue).pc = IF queue # {} THEN "send"
                                    ELSE IF l.mention = NoMention THEN "sync" ELSE "settle"
           /\ Drain(l, queue).batch = l.batch /\ Drain(l, queue).todo = l.todo
           /\ Drain(l, queue).upto = l.upto /\ Drain(l, queue).mention = l.mention
           /\ Drain(l, queue).status = l.status /\ Drain(l, queue).raised = l.raised
           /\ Drain(l, queue).run = l.run
  BY DEF Drain, Loop

LEMMA OffIs == Off \in Loop
  BY DEF Off, Loop, Terminal, NoMention

-----------------------------------------------------------------------------
(* Shapes. *)

DiskShape ==
    /\ timeline \in Seq(Kinds) /\ Len(timeline) <= MaxMentions
    /\ outbox \in Seq(Row) /\ \A i \in DOMAIN outbox : outbox[i].mention \in Posted
    /\ room \in Seq(Nat) /\ \A k \in DOMAIN room : room[k] \in DOMAIN outbox
    /\ runs \in Seq(Live \cup Endings) /\ Len(runs) <= MaxRuns /\ recorded \subseteq DOMAIN runs
    /\ cursor \in {NoCursor} \cup 0..Len(timeline)
    /\ seen \in Seq(1..cursor) /\ Len(seen) <= SeenLimit
    /\ ledger \in [Mentions -> {"none", "in_flight", "interrupted"} \cup Terminal]
    /\ turns \in [Mentions -> Nat]
    /\ \A m \in Mentions : m \notin Posted => ledger[m] = "none" /\ turns[m] = 0
    /\ anchors \in [1..MaxRuns -> Mentions \cup {NoMention}]
    /\ \A r \in 1..MaxRuns : anchors[r] \in Posted \cup {NoMention}
    /\ waived \subseteq Nat /\ trouble \subseteq Occurs

InTurn == {"respond", "start", "receipt", "anchored", "settle"}
Starting == {"start", "receipt", "anchored"}
LoopShape ==
    /\ loop \in Loop /\ loop.queue \subseteq Owed(outbox)
    /\ loop.pc \in {"send", "ack"} => loop.queue # {}
    /\ loop.mention \in Posted \cup {NoMention} /\ loop.todo \subseteq Posted
    /\ loop.upto <= Len(timeline) /\ loop.batch \in Seq(1..loop.upto)
    /\ (loop.pc = "turn" \/ loop.mention # NoMention) => 0 <= cursor /\ cursor <= loop.upto
    /\ loop.run <= Len(runs)
    /\ loop.pc \in InTurn => loop.mention # NoMention
    /\ loop.pc \in {"off", "sync", "turn"} => loop.mention = NoMention
    /\ loop.pc \in Starting => timeline[loop.mention] = "command"
    /\ loop.pc \in {"receipt", "anchored"} => loop.run # 0
    /\ loop.pc = "anchored" => anchors[loop.run] = loop.mention

ConsumerShape ==
    /\ consumer \in Consumer /\ consumer.run <= Len(runs)
    /\ Running("off") <=> At("off")
    /\ consumer.pc \in {"accept", "work", "report"} => consumer.run # 0
    /\ consumer.pc \in {"off", "poll", "accept"} => consumer.story = NoMention
    /\ consumer.story # NoMention =>
          consumer.story \in Posted /\ consumer.run # 0 /\ anchors[consumer.run] = consumer.story

Shape == DiskShape /\ LoopShape /\ ConsumerShape

LEMMA ShapeInit == Init => Shape
<1> SUFFICES ASSUME Init PROVE Shape
  OBVIOUS
<1>1. DiskShape
  BY DEF Init, DiskShape, NoMention, NoCursor, Posted
<1>2. LoopShape
  BY OffIs DEF Init, LoopShape, Off, Owed, Posted, NoMention, InTurn, Starting
<1>3. ConsumerShape
  BY DEF Init, ConsumerShape, Consumer, Asleep, Running, At, Off, Posted, NoMention, Endings
<1> QED BY <1>1, <1>2, <1>3 DEF Shape

\* Where a drain leaves the room loop, in a turn or between two.
LEMMA LoopDrained ==
    ASSUME NEW l \in Loop, NEW queue, loop' = Drain(l, queue), outbox' \in Seq(Row),
           queue \subseteq Owed(outbox'), l.mention \in Posted' \cup {NoMention},
           l.todo \subseteq Posted', l.upto <= Len(timeline'), l.batch \in Seq(1..l.upto),
           l.mention # NoMention => 0 <= cursor' /\ cursor' <= l.upto,
           l.run <= Len(runs')
    PROVE  LoopShape' /\ ~ At("off")'
<1>1. queue \in SUBSET Nat
  BY DEF Owed
<1>2. /\ loop' \in Loop /\ loop'.queue = queue /\ loop'.batch = l.batch
      /\ loop'.pc = IF queue # {} THEN "send" ELSE IF l.mention = NoMention THEN "sync" ELSE "settle"
      /\ loop'.todo = l.todo /\ loop'.upto = l.upto /\ loop'.mention = l.mention
      /\ loop'.run = l.run
  BY <1>1, DrainIs
<1> QED BY <1>2 DEF LoopShape, InTurn, Starting, At

\* Where a round begins.
LEMMA LoopRestarted ==
    ASSUME loop' = NewRound(outbox'), outbox' \in Seq(Row), Len(timeline') \in Nat,
           Len(runs') \in Nat
    PROVE  LoopShape' /\ ~ At("off")'
<1>1. <<>> \in Seq(1..0)
  OBVIOUS
<1>2. /\ Off.mention = NoMention /\ Off.todo = {} /\ Off.upto = 0 /\ Off.batch = <<>>
      /\ Off.run = 0
  BY DEF Off
<1>3. loop' = Drain(Off, Owed(outbox'))
  BY DEF NewRound
<1>4. /\ Off.batch \in Seq(1..Off.upto) /\ Off.mention \in Posted' \cup {NoMention}
      /\ (Off.mention # NoMention => 0 <= cursor' /\ cursor' <= Off.upto)
      /\ Off.todo \subseteq Posted' /\ Off.upto <= Len(timeline') /\ Off.run <= Len(runs')
  BY <1>1, <1>2
<1> HIDE DEF Off
<1> QED BY <1>3, <1>4, OffIs, LoopDrained

\* Where the loop is when the process ends.
LEMMA LoopEnded ==
    ASSUME loop' = Off, outbox' \in Seq(Row), Len(timeline') \in Nat, Len(runs') \in Nat
    PROVE  LoopShape' /\ At("off")'
<1>1. /\ Off.mention = NoMention /\ Off.todo = {} /\ Off.upto = 0 /\ Off.batch = <<>>
      /\ Off.run = 0 /\ Off.queue = {} /\ Off.pc = "off"
  BY DEF Off
<1>2. <<>> \in Seq(1..0)
  OBVIOUS
<1> QED BY <1>1, <1>2, OffIs DEF LoopShape, InTurn, Starting, At

LEMMA OfferedIs ==
    ASSUME DiskShape, LoopShape, loop.queue # {}
    PROVE  /\ Offered \in loop.queue /\ Offered \in DOMAIN outbox
           /\ outbox[Offered].state = "owed" /\ \A k \in loop.queue : Offered <= k
<1>1. loop.queue \subseteq DOMAIN outbox /\ DOMAIN outbox \subseteq Nat
  BY DEF LoopShape, Owed, DiskShape
<1>2. Offered \in loop.queue /\ \A k \in loop.queue : Offered <= k
  BY <1>1, OldestIs DEF Offered
<1> QED BY <1>1, <1>2 DEF LoopShape, Owed

\* The disk keeps its shape where only the outbox is written, and the rows it had keep
\* their messages.
LEMMA DiskKept ==
    ASSUME DiskShape, outbox' \in Seq(Row), Len(outbox') >= Len(outbox),
           \A i \in DOMAIN outbox' : outbox'[i].mention \in Posted,
           UNCHANGED <<timeline, room, runs, cursor, seen, anchors, recorded, turns>>,
           \/ UNCHANGED ledger
           \/ /\ loop.mention \in Posted
              /\ \E state \in {"none", "in_flight", "interrupted"} \cup Terminal :
                    ledger' = [ledger EXCEPT ![loop.mention] = state],
           waived' = waived, trouble' \subseteq Occurs
    PROVE  DiskShape'
<1>1. /\ ledger' \in [Mentions -> {"none", "in_flight", "interrupted"} \cup Terminal]
      /\ \A m \in Mentions : m \notin Posted => ledger'[m] = "none"
  <2>1. CASE UNCHANGED ledger
    BY <2>1 DEF DiskShape
  <2>2. CASE /\ loop.mention \in Posted
             /\ \E state \in {"none", "in_flight", "interrupted"} \cup Terminal :
                   ledger' = [ledger EXCEPT ![loop.mention] = state]
    <3>1. PICK state \in {"none", "in_flight", "interrupted"} \cup Terminal :
             ledger' = [ledger EXCEPT ![loop.mention] = state]
      BY <2>2
    <3>2. \A m \in Mentions : m \notin Posted => m # loop.mention
      BY <2>2
    <3> QED BY <3>1, <3>2 DEF DiskShape
  <2> QED BY <2>1, <2>2
<1>2. Posted' = Posted /\ DOMAIN outbox \subseteq DOMAIN outbox'
  BY DEF Posted, DiskShape
<1> QED BY <1>1, <1>2 DEF DiskShape

\* Sending: what the room took, and what the outbox says of it.
LEMMA SendingShape ==
    ASSUME Shape, Deliver \/ Acknowledge \/ Refuse \/ RoomFails
    PROVE  Shape'
<1> USE DEF Shape
<1>0. trouble \subseteq Occurs
  BY DEF DiskShape
<1>1. CASE Deliver
  <2>1. loop.queue # {} /\ At("send") /\ ~ At("ack")
    BY <1>1 DEF Deliver, LoopShape, At
  <2>2. DiskShape'
    <3>1. Offered \in Nat /\ Offered \in DOMAIN outbox
      BY <2>1, OfferedIs DEF DiskShape
    <3>2. room' \in Seq(Nat) /\ \A k \in DOMAIN room' : room'[k] \in DOMAIN outbox
      BY <1>1, <3>1 DEF Deliver, DiskShape
    <3> QED BY <1>1, <3>2 DEF Deliver, DiskShape, disk, Posted, Calm
  <2>3. loop' = [loop EXCEPT !.pc = "ack"] /\ loop' \in Loop
    BY <1>1 DEF Deliver, LoopShape, Loop
  <2>4. LoopShape'
    BY <1>1, <2>1, <2>3 DEF Deliver, LoopShape, Loop, disk, InTurn, Starting, Posted, Owed
  <2>5. ConsumerShape'
    BY <1>1, <2>1, <2>3 DEF Deliver, ConsumerShape, LoopShape, Loop, disk, At, Running, Posted
  <2> QED BY <2>2, <2>4, <2>5
<1>2. ASSUME NEW state \in {"sent", "refused"}, loop.pc \in {"send", "ack"},
             outbox' = Marked(Offered, state), loop' = Drain(loop, loop.queue \ {Offered}),
             UNCHANGED <<timeline, room, runs, cursor, seen, ledger, anchors, recorded,
                         consumer, turns, waived>>,
             trouble' \subseteq Occurs
      PROVE  Shape'
  <2>1. Offered \in DOMAIN outbox
    BY <1>2, OfferedIs DEF LoopShape
  <2>2. /\ outbox' \in Seq(Row) /\ Len(outbox') = Len(outbox) /\ DOMAIN outbox' = DOMAIN outbox
        /\ \A i \in DOMAIN outbox :
              /\ Kept(outbox'[i], outbox[i])
              /\ outbox'[i].state = IF i = Offered THEN state ELSE outbox[i].state
    BY <1>2, <2>1, MarkedIs DEF DiskShape
  <2>3. \A i \in DOMAIN outbox' : outbox'[i].mention \in Posted
    BY <2>2 DEF DiskShape, Kept
  <2>4. DiskShape'
    BY <1>2, <2>2, <2>3, DiskKept DEF DiskShape
  <2>5. loop.queue \ {Offered} \subseteq Owed(outbox')
    BY <2>2 DEF LoopShape, Owed
  <2>6. Posted' = Posted
    BY <1>2 DEF Posted
  <2>7. LoopShape' /\ ~ At("off")'
    <3>1. /\ loop \in Loop /\ loop.mention \in Posted' \cup {NoMention} /\ loop.todo \subseteq Posted'
          /\ loop.upto <= Len(timeline') /\ loop.batch \in Seq(1..loop.upto) /\ loop.run <= Len(runs')
          /\ (loop.mention # NoMention => 0 <= cursor' /\ cursor' <= loop.upto)
      BY <1>2, <2>6 DEF LoopShape
    <3> QED BY <1>2, <2>2, <2>5, <3>1, LoopDrained
  <2>8. ConsumerShape'
    BY <1>2, <2>6, <2>7 DEF ConsumerShape, At, Running
  <2> QED BY <2>4, <2>7, <2>8
<1>3. CASE Acknowledge
  BY <1>0, <1>2, <1>3 DEF Acknowledge, At, Calm
<1>4. CASE Refuse
  BY <1>0, <1>2, <1>4 DEF Refuse, At, Disturb
<1>5. CASE RoomFails
  <2>1. UNCHANGED <<timeline, room, runs, disk, consumer, turns, waived>> /\ trouble' \subseteq Occurs
        /\ loop.pc \in {"send", "sync", "ack"} /\ loop' = InTrouble(loop)
    BY <1>0, <1>5 DEF RoomFails, At, Disturb
  <2>2. DiskShape'
    BY <2>1 DEF DiskShape, disk, Posted
  <2>3. LoopShape' /\ ~ At("off")'
    <3>1. CASE loop.mention = NoMention
      BY <2>1, <3>1, LoopRestarted DEF InTrouble, disk, DiskShape
    <3>2. CASE loop.mention # NoMention
      BY <2>1, <3>2 DEF InTrouble, disk, LoopShape, Loop, InTurn, Starting, Posted, Owed, At
    <3> QED BY <3>1, <3>2
  <2>4. ConsumerShape'
    BY <2>1, <2>3 DEF ConsumerShape, At, Running, disk, Posted
  <2> QED BY <2>2, <2>3, <2>4
<1> QED BY <1>1, <1>3, <1>4, <1>5

\* What is remembered was remembered, or is in the batch.
LEMMA RememberedIs ==
    ASSUME NEW S, seen \in Seq(S), NEW b \in Seq(S)
    PROVE  Remembered(b) \in Seq(S) /\ Len(Remembered(b)) <= SeenLimit
<1> DEFINE fresh == IF b # <<>> /\ b[1] \in Elements(seen) THEN Tail(b) ELSE b
           all == seen \o fresh
           first == IF Len(all) > SeenLimit THEN Len(all) - SeenLimit + 1 ELSE 1
<1>1. fresh \in Seq(S)
  BY HeadTailProperties
<1> HIDE DEF fresh
<1>2. all \in Seq(S) /\ Len(all) \in Nat
  BY <1>1
<1> HIDE DEF all
<1>3. first \in 1..(Len(all) + 1) /\ Len(all) - first + 1 <= SeenLimit
  BY <1>2
<1> HIDE DEF first
<1>4. \A i \in first..Len(all) : all[i] \in S
  BY <1>2, <1>3
<1>5. /\ SubSeq(all, first, Len(all)) \in Seq(S)
      /\ Len(SubSeq(all, first, Len(all))) = IF first <= Len(all) THEN Len(all) - first + 1 ELSE 0
  BY <1>2, <1>3, <1>4, SubSeqProperties
<1>6. Remembered(b) = SubSeq(all, first, Len(all))
  BY DEF Remembered, all, first, fresh
<1> QED BY <1>3, <1>5, <1>6

LEMMA SeqWidens ==
    ASSUME NEW n \in Int, NEW m \in Int, n <= m, NEW s \in Seq(1..n)
    PROVE  s \in Seq(1..m)
<1>1. \A i \in 1..Len(s) : s[i] \in 1..m
  <2>1. \A i \in 1..Len(s) : s[i] \in 1..n
    OBVIOUS
  <2> QED BY <2>1
<1> QED BY <1>1

\* Synchronising: what is in hand, seen and behind the cursor was posted.
LEMMA SyncingShape ==
    ASSUME Shape, Baseline \/ Sync \/ Commit
    PROVE  Shape'
<1> USE DEF Shape
<1>0. trouble \subseteq Occurs /\ Len(timeline) \in Nat /\ Posted = 1..Len(timeline)
  BY DEF DiskShape, Posted
<1>1. CASE Baseline
  <2>1. Since(0) \in Seq(1..Len(timeline))
    BY <1>0 DEF Since
  <2>2. seen \in Seq(1..Len(timeline))
    BY <1>0 DEF DiskShape, NoCursor
  <2>3. seen' \in Seq(1..cursor') /\ Len(seen') <= SeenLimit
    BY <1>1, <2>1, <2>2, RememberedIs DEF Baseline
  <2>4. DiskShape'
    BY <1>0, <1>1, <2>3 DEF Baseline, DiskShape, Calm, Posted
  <2>5. LoopShape' /\ ~ At("off")'
    BY <1>1, <2>4, LoopRestarted DEF Baseline, DiskShape
  <2>6. ConsumerShape'
    BY <1>1, <2>5 DEF Baseline, ConsumerShape, At, Running, Posted
  <2> QED BY <2>4, <2>5, <2>6
<1>2. CASE Sync
  <2>1. UNCHANGED <<timeline, room, runs, disk, consumer, turns>> /\ At("sync") /\ cursor # NoCursor
    BY <1>2 DEF Sync
  <2>2. PICK from \in cursor..Len(timeline), again \in {<<>>} \cup {<<m>> : m \in 1..cursor} :
           LET batch == again \o Since(from)
               todo == {m \in Elements(batch) : m \notin Elements(seen)}
           IN  /\ Calm \/ Disturb("truncated") \/ Disturb("redelivered")
               /\ waived' = waived \cup (cursor + 1)..from
               /\ loop' = IF batch = <<>> /\ from = cursor THEN NewRound(outbox)
                          ELSE [loop EXCEPT !.pc = "turn", !.batch = batch, !.todo = todo,
                                            !.upto = Len(timeline)]
    BY <1>2 DEF Sync
  <2> DEFINE batch == again \o Since(from)
             todo == {m \in Elements(batch) : m \notin Elements(seen)}
  <2>3. cursor \in 0..Len(timeline) /\ from \in Nat /\ cursor <= from /\ from <= Len(timeline)
    BY <2>1 DEF DiskShape
  <2>4. batch \in Seq(1..Len(timeline))
    <3>1. again \in Seq(1..Len(timeline))
      <4>1. ASSUME NEW m \in 1..cursor PROVE <<m>> \in Seq(1..Len(timeline))
        <5>1. m \in 1..Len(timeline)
          BY <2>3
        <5> QED BY <5>1
      <4>2. CASE again = <<>>
        BY <4>2
      <4>3. CASE again # <<>>
        <5>1. PICK m \in 1..cursor : again = <<m>>
          BY <2>2, <4>3
        <5> QED BY <4>1, <5>1
      <4> QED BY <4>2, <4>3
    <3>2. Since(from) \in Seq(1..Len(timeline))
      BY <2>3, <1>0 DEF Since
    <3> QED BY <3>1, <3>2
  <2>5. DiskShape'
    <3>1. trouble' \subseteq Occurs
      BY <1>0, <2>2 DEF Calm, Disturb
    <3>2. waived' \subseteq Nat
      BY <2>2, <2>3 DEF DiskShape
    <3> QED BY <2>1, <3>1, <3>2 DEF DiskShape, disk, Posted
  <2>6. LoopShape' /\ ~ At("off")'
    <3>1. CASE loop' = NewRound(outbox)
      BY <1>0, <2>1, <3>1, LoopRestarted DEF disk, DiskShape
    <3>2. CASE loop' = [loop EXCEPT !.pc = "turn", !.batch = batch, !.todo = todo,
                                    !.upto = Len(timeline)]
      <4>1. todo \subseteq Posted /\ batch \in Seq(Mentions) /\ todo \subseteq Mentions
        <5>1. Elements(batch) \subseteq Posted
          <6> HIDE DEF batch
          <6> QED BY <1>0, <2>4 DEF Elements
        <5>2. Posted \subseteq Mentions /\ Len(timeline) <= MaxMentions
          BY <1>0 DEF DiskShape, Mentions
        <5>3. batch \in Seq(Mentions)
          <6> HIDE DEF batch
          <6>1. batch \in Seq(1..MaxMentions)
            BY <1>0, <2>4, <5>2, SeqWidens
          <6> QED BY <6>1 DEF Mentions
        <5> QED BY <5>1, <5>2, <5>3
      <4>2. loop' \in Loop
        <5>1. Len(timeline) \in Nat /\ loop \in Loop
          BY <1>0 DEF LoopShape
        <5> HIDE DEF batch, todo, Shape
        <5> QED BY <3>2, <4>1, <5>1 DEF Loop
      <4>3. /\ loop'.pc = "turn" /\ loop'.batch = batch /\ loop'.todo = todo
            /\ loop'.upto = Len(timeline) /\ loop'.mention = loop.mention
            /\ loop'.run = loop.run /\ loop'.queue = loop.queue
        BY <3>2 DEF LoopShape, Loop
      <4> HIDE DEF batch, todo
      <4>4. Posted' = Posted /\ loop.mention = NoMention /\ Owed(outbox') = Owed(outbox)
        BY <2>1 DEF Posted, disk, At, LoopShape
      <4> QED BY <1>0, <2>1, <2>3, <2>4, <4>1, <4>2, <4>3, <4>4 DEF LoopShape, At, InTurn, Starting, disk
    <3> QED BY <2>2, <3>1, <3>2
  <2>7. ConsumerShape'
    BY <2>1, <2>6 DEF ConsumerShape, At, Running, disk, Posted
  <2> QED BY <2>5, <2>6, <2>7
<1>3. CASE Commit
  <2>1. /\ 0 <= cursor /\ cursor <= loop.upto /\ loop.upto \in Nat /\ loop.upto <= Len(timeline)
        /\ loop.batch \in Seq(1..loop.upto)
    BY <1>3 DEF Commit, LoopShape, Loop, At
  <2>2. seen \in Seq(1..loop.upto)
    BY <2>1, SeqWidens DEF DiskShape, NoCursor
  <2>3. seen' \in Seq(1..cursor') /\ Len(seen') <= SeenLimit
    BY <1>3, <2>1, <2>2, RememberedIs DEF Commit
  <2>4. DiskShape'
    <3>1. cursor' \in 0..Len(timeline)
      BY <1>3, <2>1 DEF Commit
    <3> QED BY <1>0, <1>3, <2>3, <3>1 DEF Commit, DiskShape, Calm, Posted
  <2>5. LoopShape' /\ ~ At("off")'
    BY <1>3, <2>4, LoopRestarted DEF Commit, DiskShape
  <2>6. ConsumerShape'
    BY <1>3, <2>5 DEF Commit, ConsumerShape, At, Running, Posted
  <2> QED BY <2>4, <2>5, <2>6
<1> QED BY <1>1, <1>2, <1>3

\* The least of the mentions to come was posted.
LEMMA UpcomingIs ==
    ASSUME Shape, loop.todo # {}
    PROVE  /\ Upcoming \in loop.todo /\ Upcoming \in Posted /\ Upcoming \in Mentions
           /\ \A m \in loop.todo : Upcoming <= m
<1>1. loop.todo \subseteq Posted /\ Posted = 1..Len(timeline) /\ Len(timeline) \in Nat
      /\ Len(timeline) <= MaxMentions
  BY DEF Shape, LoopShape, DiskShape, Posted
<1>2. Upcoming \in loop.todo /\ \A m \in loop.todo : Upcoming <= m
  BY <1>1, OldestIs DEF Upcoming
<1> QED BY <1>1, <1>2 DEF Mentions

\* Between two turns, and claiming the next.
LEMMA ClaimingShape ==
    ASSUME Shape, SkipSettled \/ Claim
    PROVE  Shape'
<1> USE DEF Shape
<1>0. loop.todo # {} /\ loop.pc = "turn" /\ trouble' = trouble /\ Posted' = Posted
  BY DEF SkipSettled, Claim, At, Calm, Posted
<1>1. Upcoming \in loop.todo /\ Upcoming \in Posted /\ Upcoming \in Mentions
  BY <1>0, UpcomingIs
<1>2. CASE SkipSettled
  <2>1. DiskShape'
    BY <1>0, <1>2 DEF SkipSettled, DiskShape, disk
  <2>2. LoopShape'
    BY <1>0, <1>2 DEF SkipSettled, LoopShape, Loop, disk, InTurn, Starting, Owed
  <2>3. ConsumerShape'
    BY <1>0, <1>2 DEF SkipSettled, ConsumerShape, LoopShape, Loop, disk, At, Running
  <2> QED BY <2>1, <2>2, <2>3
<1>3. CASE Claim
  <2>1. /\ loop' = [loop EXCEPT !.todo = @ \ {Upcoming}, !.mention = Upcoming,
                                !.pc = IF timeline[Upcoming] = "talk" THEN "respond" ELSE "start"]
        /\ UNCHANGED <<timeline, room, runs, cursor, seen, outbox, anchors, recorded, consumer,
                       waived>>
        /\ ledger' = [ledger EXCEPT ![Upcoming] = "in_flight"]
        /\ turns' = [turns EXCEPT ![Upcoming] = @ + 1]
    BY <1>3 DEF Claim
  <2>2. DiskShape'
    <3>1. ledger' \in [Mentions -> {"none", "in_flight", "interrupted"} \cup Terminal]
          /\ turns' \in [Mentions -> Nat]
          /\ \A m \in Mentions : m # Upcoming => ledger'[m] = ledger[m] /\ turns'[m] = turns[m]
      BY <1>1, <2>1 DEF DiskShape
    <3>2. \A m \in Mentions : m \notin Posted' => ledger'[m] = "none" /\ turns'[m] = 0
      BY <1>0, <1>1, <3>1 DEF DiskShape
    <3> HIDE DEF Shape
    <3> QED BY <1>0, <2>1, <3>1, <3>2 DEF Shape, DiskShape
  <2>3. timeline[Upcoming] \in Kinds
    BY <1>1 DEF DiskShape, Posted
  <2>4. /\ loop'.pc = (IF timeline[Upcoming] = "talk" THEN "respond" ELSE "start")
        /\ loop'.mention = Upcoming /\ loop'.todo = loop.todo \ {Upcoming}
        /\ loop'.batch = loop.batch /\ loop'.upto = loop.upto /\ loop'.run = loop.run
        /\ loop'.queue = loop.queue /\ loop' \in Loop
    BY <1>1, <2>1 DEF LoopShape, Loop
  <2>5. LoopShape'
    <3>1. Upcoming # NoMention
      BY <1>1 DEF Mentions, NoMention
    <3>2. timeline[Upcoming] \in {"talk", "command"}
      BY <2>3 DEF Kinds
    <3> QED BY <1>0, <1>1, <2>1, <2>4, <3>1, <3>2 DEF LoopShape, InTurn, Starting, Owed
  <2>6. ConsumerShape'
    BY <1>0, <2>1, <2>4 DEF ConsumerShape, LoopShape, At, Running
  <2> QED BY <2>2, <2>5, <2>6
<1> QED BY <1>2, <1>3

\* An answer, written down and queued with all that is owed.
LEMMA ConcludedShape ==
    ASSUME Shape, NEW status \in Terminal \cup {"timeout"}, NEW lane \in {"turn", "note", "run"},
           NEW run \in 0..MaxRuns, NEW kind \in {"text", "accepted", "started"} \cup Endings,
           loop.pc \in InTurn, Conclude(status, lane, run, kind), UNCHANGED runs,
           trouble' \subseteq Occurs
    PROVE  Shape'
<1> USE DEF Shape
<1> DEFINE row == Intent(loop.mention, lane, 0, run, kind)
           l == [loop EXCEPT !.status = status, !.run = 0]
<1>1. /\ outbox' = Written(row) /\ loop' = Drain(l, Owed(outbox'))
      /\ UNCHANGED <<timeline, room, cursor, seen, ledger, anchors, recorded, consumer, turns,
                     waived>>
  BY DEF Conclude
<1>2. loop.mention \in Posted /\ loop.mention \in Mentions /\ Posted' = Posted
      /\ loop.mention # NoMention
  BY <1>1 DEF LoopShape, Loop, Posted
<1>3. row \in Row /\ row.mention = loop.mention
  BY <1>2 DEF Intent, Row
<1>4. l \in Loop /\ l.mention = loop.mention /\ l.todo = loop.todo /\ l.upto = loop.upto
      /\ l.batch = loop.batch /\ l.run = 0
  <2>1. loop \in Loop /\ 0 \in 0..MaxRuns
    BY DEF LoopShape
  <2> HIDE DEF Shape
  <2> QED BY <2>1 DEF Loop
<1> HIDE DEF row, l
<1>5. /\ outbox' \in Seq(Row) /\ Len(outbox') >= Len(outbox)
      /\ \A i \in DOMAIN outbox : outbox'[i] = outbox[i]
      /\ \A i \in DOMAIN outbox' \ DOMAIN outbox : outbox'[i] = row
  <2>1. outbox \in Seq(Row)
    BY DEF DiskShape
  <2>2. /\ Written(row) \in Seq(Row)
        /\ Len(Written(row)) \in {Len(outbox), Len(outbox) + 1}
        /\ \A i \in DOMAIN outbox : i \in DOMAIN Written(row) /\ Written(row)[i] = outbox[i]
        /\ \A i \in DOMAIN Written(row) \ DOMAIN outbox : Written(row)[i] = row
    BY <1>3, <2>1, WrittenIs
  <2>3. Len(outbox) \in Nat
    BY <2>1
  <2> HIDE DEF Shape
  <2> QED BY <1>1, <2>2, <2>3
<1>6. \A i \in DOMAIN outbox' : outbox'[i].mention \in Posted
  <2> SUFFICES ASSUME NEW i \in DOMAIN outbox' PROVE outbox'[i].mention \in Posted
    OBVIOUS
  <2>1. CASE i \in DOMAIN outbox
    BY <1>5, <2>1 DEF DiskShape
  <2>2. CASE i \notin DOMAIN outbox
    BY <1>2, <1>3, <1>5, <2>2
  <2> QED BY <2>1, <2>2
<1>7. DiskShape'
  BY <1>1, <1>5, <1>6, DiskKept
<1>8. LoopShape' /\ ~ At("off")'
  <2>1. /\ l.mention \in Posted' \cup {NoMention} /\ l.todo \subseteq Posted'
        /\ l.upto <= Len(timeline') /\ l.batch \in Seq(1..l.upto) /\ l.run <= Len(runs')
        /\ (l.mention # NoMention => 0 <= cursor' /\ cursor' <= l.upto)
    BY <1>1, <1>2, <1>4 DEF LoopShape, DiskShape
  <2> QED BY <1>1, <1>4, <1>5, <2>1, LoopDrained
<1>9. ConsumerShape'
  BY <1>1, <1>2, <1>8 DEF ConsumerShape, At, Running, InTurn
<1> QED BY <1>7, <1>8, <1>9

\* One turn: what is answered, started, anchored and settled.
LEMMA TurningShape ==
    ASSUME Shape,
           Respond \/ StartServed \/ StartDeclined \/ NoReceipt \/ Receipt \/ AnswerReceipt \/ Settle
    PROVE  Shape'
<1> USE DEF Shape
<1>0. trouble \subseteq Occurs
  BY DEF DiskShape
<1>1. ASSUME Respond \/ StartDeclined \/ NoReceipt PROVE Shape'
  <2>1. /\ loop.pc \in InTurn /\ UNCHANGED runs /\ trouble' \subseteq Occurs
        /\ \/ Conclude("completed", "turn", 0, "text")
           \/ \E status \in {"failed", "timeout"} : Conclude(status, "note", 0, "text")
    BY <1>0, <1>1 DEF Respond, StartDeclined, NoReceipt, Note, At, InTurn, Calm, Disturb
  <2> QED BY <2>1, ConcludedShape DEF Terminal
<1>2. CASE AnswerReceipt
  <2>1. /\ loop.pc \in InTurn /\ UNCHANGED runs /\ trouble' \subseteq Occurs
        /\ Conclude("completed", "run", loop.run, "accepted") /\ loop.run \in 0..MaxRuns
    BY <1>0, <1>2 DEF AnswerReceipt, At, InTurn, Calm, LoopShape, Loop
  <2> QED BY <2>1, ConcludedShape DEF Terminal
<1>3. CASE StartServed
  <2>1. /\ loop.pc = "start" /\ UNCHANGED <<timeline, room, disk, consumer, turns, waived>>
        /\ trouble' = trouble
    BY <1>3 DEF StartServed, At, Calm
  <2>2. Posted' = Posted
    BY <2>1 DEF Posted
  <2>3. \E r \in 1..Len(runs') : loop' = [loop EXCEPT !.pc = "receipt", !.run = r]
    <3>1. CASE LiveRuns # {}
      <4>1. PICK r \in LiveRuns : loop' = [loop EXCEPT !.pc = "receipt", !.run = r] /\ UNCHANGED runs
        BY <1>3, <3>1 DEF StartServed
      <4>2. r \in 1..Len(runs')
        BY <4>1 DEF LiveRuns, DiskShape
      <4> QED BY <4>1, <4>2
    <3>2. CASE LiveRuns = {}
      <4>1. runs' = Append(runs, "queued") /\ loop' = [loop EXCEPT !.pc = "receipt", !.run = Len(runs) + 1]
        BY <1>3, <3>2 DEF StartServed
      <4>2. Len(runs') = Len(runs) + 1 /\ Len(runs) \in Nat
        BY <4>1 DEF DiskShape
      <4>3. Len(runs) + 1 \in 1..Len(runs')
        BY <4>2
      <4> QED BY <4>1, <4>3
    <3> QED BY <3>1, <3>2
  <2>4. runs' \in Seq(Live \cup Endings) /\ Len(runs') <= MaxRuns /\ Len(runs') >= Len(runs)
        /\ DOMAIN runs \subseteq DOMAIN runs'
    <3>1. CASE UNCHANGED runs
      BY <3>1 DEF DiskShape
    <3>2. CASE runs' = Append(runs, "queued") /\ Len(runs) < MaxRuns
      <4>1. "queued" \in Live \cup Endings /\ runs \in Seq(Live \cup Endings)
        BY DEF Live, DiskShape
      <4> QED BY <3>2, <4>1
    <3> QED BY <1>3, <3>1, <3>2 DEF StartServed
  <2>5. DiskShape'
    BY <2>1, <2>2, <2>4 DEF DiskShape, disk
  <2>6. PICK r \in 1..Len(runs') : loop' = [loop EXCEPT !.pc = "receipt", !.run = r]
    BY <2>3
  <2>7. /\ loop' \in Loop /\ loop'.pc = "receipt" /\ loop'.run = r /\ loop'.mention = loop.mention
        /\ loop'.queue = loop.queue /\ loop'.todo = loop.todo /\ loop'.batch = loop.batch
        /\ loop'.upto = loop.upto
    <3>1. loop \in Loop /\ r \in 0..MaxRuns
      BY <2>4, <2>5 DEF LoopShape, DiskShape
    <3> HIDE DEF Shape
    <3> QED BY <2>6, <3>1 DEF Loop
  <2>8. LoopShape'
    BY <2>1, <2>2, <2>6, <2>7 DEF LoopShape, disk, InTurn, Starting, Owed
  <2>9. ConsumerShape'
    BY <2>1, <2>2, <2>4, <2>7 DEF ConsumerShape, disk, At, Running, DiskShape, Consumer
  <2> QED BY <2>5, <2>8, <2>9
<1>4. CASE Receipt
  <2>1. /\ loop.pc = "receipt" /\ anchors[loop.run] \in {NoMention, loop.mention}
        /\ anchors' = [anchors EXCEPT ![loop.run] = loop.mention]
        /\ loop' = [loop EXCEPT !.pc = "anchored"] /\ trouble' = trouble
        /\ UNCHANGED <<timeline, room, runs, cursor, seen, ledger, outbox, recorded, consumer,
                       turns, waived>>
    BY <1>4 DEF Receipt, At, Calm
  <2>2. loop.run \in 1..MaxRuns /\ loop.mention \in Posted /\ loop.mention \in Mentions
        /\ loop.mention # NoMention /\ Posted' = Posted
    BY <2>1 DEF LoopShape, Loop, InTurn, Posted
  <2>3. /\ anchors' \in [1..MaxRuns -> Mentions \cup {NoMention}]
        /\ anchors'[loop.run] = loop.mention
        /\ \A r \in 1..MaxRuns : r # loop.run => anchors'[r] = anchors[r]
    BY <2>1, <2>2 DEF DiskShape
  <2>4. DiskShape'
    BY <2>1, <2>2, <2>3 DEF DiskShape
  <2>5. /\ loop' \in Loop /\ loop'.pc = "anchored" /\ loop'.run = loop.run
        /\ loop'.mention = loop.mention /\ loop'.queue = loop.queue /\ loop'.todo = loop.todo
        /\ loop'.batch = loop.batch /\ loop'.upto = loop.upto
    BY <2>1 DEF LoopShape, Loop
  <2>6. LoopShape'
    BY <2>1, <2>2, <2>3, <2>5 DEF LoopShape, InTurn, Starting, Owed
  <2>7. ConsumerShape'
    <3>1. ASSUME consumer.story # NoMention PROVE anchors'[consumer.run] = consumer.story
      <4>1. anchors[consumer.run] = consumer.story /\ consumer.run \in 1..MaxRuns
        BY <3>1 DEF ConsumerShape, Consumer
      <4>2. CASE consumer.run = loop.run
        BY <2>1, <2>3, <3>1, <4>1, <4>2
      <4>3. CASE consumer.run # loop.run
        BY <2>3, <4>1, <4>3
      <4> QED BY <4>2, <4>3
    <3> QED BY <2>1, <2>2, <2>5, <3>1 DEF ConsumerShape, At, Running
  <2> QED BY <2>4, <2>6, <2>7
<1>5. CASE Settle
  <2>1. /\ loop.pc = "settle" /\ trouble' = trouble
        /\ ledger' = [ledger EXCEPT ![loop.mention] = IF loop.status = "timeout" THEN "none"
                                                       ELSE loop.status]
        /\ UNCHANGED <<timeline, room, runs, cursor, seen, outbox, anchors, recorded, consumer,
                       turns, waived>>
    BY <1>5 DEF Settle, At, Calm
  <2>2. loop.mention \in Posted /\ loop.mention # NoMention
    BY <2>1 DEF LoopShape, InTurn
  <2>3. DiskShape'
    <3>1. (IF loop.status = "timeout" THEN "none" ELSE loop.status)
             \in {"none", "in_flight", "interrupted"} \cup Terminal
      BY DEF LoopShape, Loop
    <3>2. /\ outbox' \in Seq(Row) /\ Len(outbox') >= Len(outbox)
          /\ \A i \in DOMAIN outbox' : outbox'[i].mention \in Posted
      BY <2>1 DEF DiskShape
    <3> QED BY <1>0, <2>1, <2>2, <3>1, <3>2, DiskKept
  <2>4. LoopShape' /\ ~ At("off")'
    <3>1. CASE loop.raised
      BY <1>5, <2>1, <2>3, <3>1, LoopRestarted DEF Settle, DiskShape
    <3>2. CASE ~ loop.raised
      <4>1. loop' = [loop EXCEPT !.pc = "turn", !.mention = NoMention, !.status = "failed"]
        BY <1>5, <3>2 DEF Settle
      <4>2. /\ loop' \in Loop /\ loop'.pc = "turn" /\ loop'.run = loop.run
            /\ loop'.mention = NoMention /\ loop'.queue = loop.queue /\ loop'.todo = loop.todo
            /\ loop'.batch = loop.batch /\ loop'.upto = loop.upto
        BY <4>1 DEF LoopShape, Loop, Terminal
      <4> QED BY <2>1, <2>2, <4>2 DEF LoopShape, InTurn, Starting, Owed, At, Posted
    <3> QED BY <3>1, <3>2
  <2>5. ConsumerShape'
    BY <2>1, <2>4 DEF ConsumerShape, At, Running, Posted
  <2> QED BY <2>3, <2>4, <2>5
<1> QED BY <1>1, <1>2, <1>3, <1>4, <1>5

\* The disk keeps its shape when one row is added for a mention that was posted.
LEMMA WrittenKept ==
    ASSUME Shape, NEW row \in Row, row.mention \in Posted, outbox' = Written(row)
    PROVE  /\ outbox' \in Seq(Row) /\ Len(outbox') >= Len(outbox)
           /\ \A i \in DOMAIN outbox : i \in DOMAIN outbox' /\ outbox'[i] = outbox[i]
           /\ \A i \in DOMAIN outbox' : outbox'[i].mention \in Posted
           /\ Owed(outbox) \subseteq Owed(outbox')
<1>1. outbox \in Seq(Row) /\ \A i \in DOMAIN outbox : outbox[i].mention \in Posted
  BY DEF Shape, DiskShape
<1>2. /\ outbox' \in Seq(Row) /\ Len(outbox') \in {Len(outbox), Len(outbox) + 1}
      /\ \A i \in DOMAIN outbox : i \in DOMAIN outbox' /\ outbox'[i] = outbox[i]
      /\ \A i \in DOMAIN outbox' \ DOMAIN outbox : outbox'[i] = row
  BY <1>1, WrittenIs
<1>3. \A i \in DOMAIN outbox' : outbox'[i].mention \in Posted
  <2> SUFFICES ASSUME NEW i \in DOMAIN outbox' PROVE outbox'[i].mention \in Posted
    OBVIOUS
  <2>1. CASE i \in DOMAIN outbox
    BY <1>1, <1>2, <2>1
  <2>2. CASE i \notin DOMAIN outbox
    BY <1>2, <2>2
  <2> QED BY <2>1, <2>2
<1>4. Len(outbox) \in Nat
  BY <1>1
<1> QED BY <1>2, <1>3, <1>4 DEF Owed

\* The lines the consumer writes are rows about the mention it narrates to.
LEMMA LineIs ==
    ASSUME Shape, NEW m \in Posted, NEW ordinal \in Nat, NEW run \in 0..MaxRuns,
           NEW kind \in {"accepted", "started"} \cup Endings
    PROVE  /\ Intent(m, "run", ordinal, run, kind) \in Row
           /\ Intent(m, "run", ordinal, run, kind).mention = m
<1>1. m \in Mentions
  BY DEF Shape, DiskShape, Posted, Mentions
<1> QED BY <1>1 DEF Intent, Row

\* The consumer keeps the room loop's state, whose rows are still owed.
LEMMA BesideShape ==
    ASSUME Shape, DiskShape', UNCHANGED <<timeline, cursor, anchors, loop>>,
           Len(runs') = Len(runs), Owed(outbox) \subseteq Owed(outbox')
    PROVE  LoopShape'
<1> QED BY DEF Shape, LoopShape, Posted, InTurn, Starting

\* The consumer.
LEMMA ConsumingShape ==
    ASSUME Shape, loop.pc \in Awaits, Lease \/ Begin \/ AcceptFails \/ Work \/ Report
    PROVE  Shape'
<1> USE DEF Shape
<1>0. trouble \subseteq Occurs /\ ~ At("off") /\ runs \in Seq(Live \cup Endings)
      /\ DOMAIN runs = 1..Len(runs) /\ Len(runs) \in Nat /\ Len(runs) <= MaxRuns
  BY DEF DiskShape, At, Awaits
<1>1. Polling \in Consumer /\ Polling.pc = "poll" /\ Polling.run = 0 /\ Polling.story = NoMention
  BY DEF Polling, Asleep, Consumer, Endings
<1>2. ASSUME NEW r \in DOMAIN runs, NEW state \in Live \cup Endings,
             runs' = [runs EXCEPT ![r] = state] \/ runs' = runs
      PROVE  runs' \in Seq(Live \cup Endings) /\ Len(runs') = Len(runs) /\ DOMAIN runs' = DOMAIN runs
  BY <1>0, <1>2
<1>3. ASSUME Running("accept") \/ Running("work") \/ Running("report")
      PROVE  consumer.run \in DOMAIN runs /\ consumer.run \in 0..MaxRuns /\ consumer \in Consumer
             /\ consumer.run # 0
  BY <1>0, <1>3 DEF ConsumerShape, Consumer, Running
<1>4. CASE Lease
  <2>1. PICK r \in DOMAIN runs : /\ runs' = [runs EXCEPT ![r] = "leased"]
                                 /\ consumer' = [consumer EXCEPT !.pc = "accept", !.run = r]
    BY <1>4 DEF Lease
  <2>2. UNCHANGED <<timeline, room, disk, loop, turns, waived>> /\ trouble' = trouble /\ Running("poll")
    BY <1>4 DEF Lease, Calm
  <2>3. runs' \in Seq(Live \cup Endings) /\ Len(runs') = Len(runs) /\ DOMAIN runs' = DOMAIN runs
    BY <1>2, <2>1 DEF Live
  <2>4. DiskShape'
    BY <2>2, <2>3 DEF DiskShape, disk, Posted
  <2>5. LoopShape'
    BY <2>2, <2>3, <2>4, BesideShape DEF disk
  <2>6. consumer' \in Consumer /\ consumer'.pc = "accept" /\ consumer'.run = r
        /\ consumer'.story = consumer.story
    <3>1. consumer \in Consumer /\ r \in 0..MaxRuns
      BY <1>0 DEF ConsumerShape
    <3> HIDE DEF Shape
    <3> QED BY <2>1, <3>1 DEF Consumer
  <2>7. consumer.story = NoMention
    BY <2>2 DEF ConsumerShape, Running
  <2> QED BY <1>0, <2>2, <2>3, <2>4, <2>5, <2>6, <2>7 DEF ConsumerShape, At, Running
<1>5. CASE AcceptFails
  <2>1. PICK state \in {"leased", "accepted"} : runs' = [runs EXCEPT ![consumer.run] = state]
    BY <1>5 DEF AcceptFails
  <2>2. UNCHANGED <<timeline, room, disk, loop, turns, waived>> /\ trouble' \subseteq Occurs
        /\ consumer' = Polling /\ Running("accept")
    BY <1>0, <1>5 DEF AcceptFails, Disturb
  <2>3. runs' \in Seq(Live \cup Endings) /\ Len(runs') = Len(runs) /\ DOMAIN runs' = DOMAIN runs
    BY <1>2, <1>3, <2>1, <2>2 DEF Live
  <2>4. DiskShape'
    BY <2>2, <2>3 DEF DiskShape, disk, Posted
  <2>5. LoopShape'
    BY <2>2, <2>3, <2>4, BesideShape DEF disk
  <2> QED BY <1>0, <1>1, <2>2, <2>3, <2>4, <2>5 DEF ConsumerShape, At, Running
<1>6. CASE Report
  <2>1. runs' = [runs EXCEPT ![consumer.run] = consumer.result] \/ runs' = runs
    BY <1>6 DEF Report
  <2>2. UNCHANGED <<timeline, room, cursor, seen, ledger, outbox, anchors, loop, turns, waived>>
        /\ trouble' \subseteq Occurs /\ consumer' = Polling /\ Running("report")
        /\ recorded' = recorded \cup {consumer.run}
    BY <1>0, <1>6 DEF Report, Calm, Disturb
  <2>3. runs' \in Seq(Live \cup Endings) /\ Len(runs') = Len(runs) /\ DOMAIN runs' = DOMAIN runs
    BY <1>2, <1>3, <2>1, <2>2 DEF Consumer
  <2>4. DiskShape'
    BY <1>3, <2>2, <2>3 DEF DiskShape, Posted
  <2>5. LoopShape'
    BY <2>2, <2>3, <2>4, BesideShape
  <2> QED BY <1>0, <1>1, <2>2, <2>3, <2>4, <2>5 DEF ConsumerShape, At, Running
<1>7. ASSUME NEW m \in Posted, NEW ordinal \in Nat, NEW kind \in {"started"} \cup Endings,
             outbox' = outbox \/ outbox' = Written(Intent(m, "run", ordinal, consumer.run, kind)),
             UNCHANGED <<timeline, room, cursor, seen, ledger, anchors, recorded, loop, turns, waived,
                         trouble>>,
             runs' \in Seq(Live \cup Endings), Len(runs') = Len(runs), consumer.run \in 0..MaxRuns
      PROVE  DiskShape' /\ LoopShape'
  <2>1. /\ outbox' \in Seq(Row) /\ Len(outbox') >= Len(outbox)
        /\ \A i \in DOMAIN outbox : i \in DOMAIN outbox'
        /\ \A i \in DOMAIN outbox' : outbox'[i].mention \in Posted
        /\ Owed(outbox) \subseteq Owed(outbox')
    <3>1. CASE outbox' = outbox
      BY <3>1 DEF DiskShape
    <3>2. CASE outbox' = Written(Intent(m, "run", ordinal, consumer.run, kind))
      BY <1>7, <3>2, LineIs, WrittenKept
    <3> QED BY <1>7, <3>1, <3>2
  <2>2. Posted' = Posted /\ DOMAIN runs' = DOMAIN runs
    BY <1>0, <1>7 DEF Posted
  <2>3. DiskShape'
    BY <1>7, <2>1, <2>2 DEF DiskShape
  <2> QED BY <1>7, <2>1, <2>3, BesideShape
<1>8. CASE Begin
  <2> DEFINE story == anchors[consumer.run]
  <2>1. /\ Running("accept") /\ runs' = [runs EXCEPT ![consumer.run] = "accepted"]
        /\ outbox' = IF story = NoMention THEN outbox
                     ELSE Written(Intent(story, "run", 1, consumer.run, "started"))
        /\ \E pc \in {"report", "work"} : consumer' = [consumer EXCEPT !.story = story, !.pc = pc]
        /\ UNCHANGED <<timeline, room, cursor, seen, ledger, anchors, recorded, loop, turns, waived,
                       trouble>>
    BY <1>8 DEF Begin, Calm
  <2>2. consumer.run \in DOMAIN runs /\ consumer.run \in 0..MaxRuns /\ consumer \in Consumer
        /\ consumer.run # 0
    BY <1>3, <2>1
  <2>3. runs' \in Seq(Live \cup Endings) /\ Len(runs') = Len(runs)
    BY <1>2, <2>1, <2>2 DEF Live
  <2>4. story \in Posted \cup {NoMention} /\ story \in Mentions \cup {NoMention}
    BY <1>0, <2>2 DEF DiskShape
  <2>5. DiskShape' /\ LoopShape'
    <3>1. CASE story = NoMention
      <4>1. outbox' = outbox
        BY <2>1, <3>1
      <4>2. DiskShape'
        BY <2>1, <2>3, <1>0, <4>1 DEF DiskShape, Posted
      <4> QED BY <2>1, <2>3, <4>1, <4>2, BesideShape
    <3>2. CASE story # NoMention
      <4>1. story \in Posted /\ outbox' = Written(Intent(story, "run", 1, consumer.run, "started"))
        BY <2>1, <2>4, <3>2
      <4> HIDE DEF story
      <4> QED BY <1>7, <2>1, <2>2, <2>3, <4>1
    <3> QED BY <3>1, <3>2
  <2>6. consumer' \in Consumer /\ consumer'.pc \in {"report", "work"} /\ consumer'.run = consumer.run
        /\ consumer'.story = story
    <3> HIDE DEF story
    <3> QED BY <2>1, <2>2, <2>4 DEF Consumer
  <2>7. Posted' = Posted /\ anchors'[consumer.run] = story
    BY <2>1 DEF Posted
  <2> HIDE DEF story
  <2> QED BY <1>0, <2>1, <2>2, <2>3, <2>4, <2>5, <2>6, <2>7 DEF ConsumerShape, At, Running
<1>9. CASE Work
  <2>1. PICK result \in Endings :
          /\ outbox' = outbox \/ (consumer.story # NoMention /\ outbox' = Written(Line(3, result)))
          /\ \E end \in Endings : consumer' = [consumer EXCEPT !.pc = "report", !.result = end]
    BY <1>9 DEF Work, Endings
  <2>2. /\ Running("work")
        /\ UNCHANGED <<timeline, room, runs, cursor, seen, ledger, anchors, recorded, loop, turns,
                       waived, trouble>>
    BY <1>9 DEF Work, Calm
  <2>3. consumer.run \in DOMAIN runs /\ consumer.run \in 0..MaxRuns /\ consumer \in Consumer
        /\ consumer.run # 0
    BY <1>3, <2>2
  <2>4. DiskShape' /\ LoopShape'
    <3>1. CASE outbox' = outbox
      <4>1. DiskShape'
        BY <2>2, <3>1 DEF DiskShape, Posted
      <4> QED BY <2>2, <3>1, <4>1, BesideShape
    <3>2. CASE outbox' # outbox
      <4>1. consumer.story \in Posted
            /\ outbox' = Written(Intent(consumer.story, "run", 3, consumer.run, result))
        BY <2>1, <3>2 DEF Line, ConsumerShape
      <4> QED BY <1>0, <1>7, <2>2, <2>3, <4>1
    <3> QED BY <3>1, <3>2
  <2>5. consumer' \in Consumer /\ consumer'.pc = "report" /\ consumer'.run = consumer.run
        /\ consumer'.story = consumer.story
    BY <2>1, <2>3 DEF Consumer
  <2>6. Posted' = Posted
    BY <2>2 DEF Posted
  <2> QED BY <1>0, <2>2, <2>3, <2>4, <2>5, <2>6 DEF ConsumerShape, At, Running
<1> QED BY <1>4, <1>5, <1>6, <1>8, <1>9

\* The process ends.
LEMMA ExitShape ==
    ASSUME Shape, Exit, trouble' \subseteq Occurs,
           \/ UNCHANGED ledger
           \/ /\ loop.mention # NoMention
              /\ \E state \in {"interrupted", "failed"} :
                    ledger' = [ledger EXCEPT ![loop.mention] = state]
    PROVE  Shape'
<1> USE DEF Shape
<1>1. /\ loop' = Off /\ consumer' = Asleep
      /\ UNCHANGED <<timeline, room, runs, cursor, seen, anchors, recorded, turns, waived>>
      /\ \/ outbox' = outbox
         \/ consumer.story # NoMention /\ outbox' = Written(Line(3, "failed"))
  BY DEF Exit
<1>2. outbox' \in Seq(Row) /\ Len(outbox') >= Len(outbox)
      /\ \A i \in DOMAIN outbox' : outbox'[i].mention \in Posted
  <2>1. CASE outbox' = outbox
    BY <2>1 DEF DiskShape
  <2>2. CASE consumer.story # NoMention /\ outbox' = Written(Line(3, "failed"))
    <3>1. consumer.story \in Posted /\ consumer.run \in 0..MaxRuns
          /\ outbox' = Written(Intent(consumer.story, "run", 3, consumer.run, "failed"))
      BY <2>2 DEF Line, ConsumerShape, Consumer
    <3> QED BY <3>1, LineIs, WrittenKept DEF Endings
  <2> QED BY <1>1, <2>1, <2>2
<1>3. DiskShape'
  <2>1. \/ UNCHANGED ledger
        \/ /\ loop.mention \in Posted
           /\ \E state \in {"none", "in_flight", "interrupted"} \cup Terminal :
                 ledger' = [ledger EXCEPT ![loop.mention] = state]
    BY DEF LoopShape, Terminal
  <2> QED BY <1>1, <1>2, <2>1, DiskKept
<1>4. LoopShape' /\ At("off")'
  BY <1>1, <1>3, LoopEnded DEF DiskShape
<1>5. ConsumerShape'
  <2>1. Asleep \in Consumer /\ Asleep.pc = "off" /\ Asleep.run = 0 /\ Asleep.story = NoMention
    BY DEF Asleep, Consumer, Endings
  <2>2. Len(runs') \in Nat
    BY <1>3 DEF DiskShape
  <2> QED BY <1>1, <1>4, <2>1, <2>2 DEF ConsumerShape, At, Running
<1> QED BY <1>3, <1>4, <1>5

\* Messages are posted; the process starts and ends.
LEMMA ProcessShape ==
    ASSUME Shape, Post \/ Start \/ Stop \/ Barred \/ AnchorClash \/ Crash
    PROVE  Shape'
<1> USE DEF Shape
<1>0. trouble \subseteq Occurs
  BY DEF DiskShape
<1>1. CASE Post
  <2>1. PICK kind \in Kinds : timeline' = Append(timeline, kind)
    BY <1>1 DEF Post
  <2>2. UNCHANGED <<room, runs, disk, loop, consumer, turns, waived, trouble>> /\ Len(timeline) < MaxMentions
    BY <1>1 DEF Post, Calm
  <2>3. /\ timeline' \in Seq(Kinds) /\ Len(timeline') = Len(timeline) + 1 /\ Len(timeline) \in Nat
        /\ \A m \in Posted : m \in Posted' /\ timeline'[m] = timeline[m]
    BY <2>1 DEF DiskShape, Posted
  <2>4. DiskShape'
    <3>1. Len(timeline') <= MaxMentions /\ cursor' \in {NoCursor} \cup 0..Len(timeline')
      BY <2>2, <2>3 DEF DiskShape, disk
    <3> HIDE DEF Posted
    <3> QED BY <2>2, <2>3, <3>1 DEF DiskShape, disk
  <2>5. LoopShape'
    <3>1. loop.upto \in Nat
      BY DEF LoopShape, Loop
    <3> HIDE DEF Posted
    <3> QED BY <2>2, <2>3, <3>1 DEF LoopShape, disk, InTurn, Starting
  <2>6. ConsumerShape'
    BY <2>2, <2>3 DEF ConsumerShape, At, Running, disk
  <2> QED BY <2>4, <2>5, <2>6
<1>2. CASE Start
  <2>1. UNCHANGED <<timeline, room, runs, disk, turns, waived, trouble>> /\ consumer' = Polling
        /\ loop' = NewRound(outbox)
    BY <1>2 DEF Start, Calm
  <2>2. DiskShape'
    BY <2>1 DEF DiskShape, disk, Posted
  <2>3. LoopShape' /\ ~ At("off")'
    BY <2>1, <2>2, LoopRestarted DEF disk, DiskShape
  <2>4. Polling \in Consumer /\ Polling.pc = "poll" /\ Polling.run = 0 /\ Polling.story = NoMention
    BY DEF Polling, Asleep, Consumer, Endings
  <2>5. Len(runs') \in Nat
    BY <2>2 DEF DiskShape
  <2> QED BY <2>1, <2>2, <2>3, <2>4, <2>5 DEF ConsumerShape, At, Running
<1>3. CASE Stop
  BY <1>0, <1>3, ExitShape DEF Stop, Disturb
<1>4. CASE Barred
  BY <1>0, <1>4, ExitShape DEF Barred, Disturb
<1>5. CASE AnchorClash
  <2>1. loop.mention # NoMention
    BY <1>5 DEF AnchorClash, At, LoopShape, InTurn
  <2> QED BY <1>0, <1>5, <2>1, ExitShape DEF AnchorClash, Calm
<1>6. CASE Crash
  <2>1. UNCHANGED <<timeline, room, runs, disk, turns, waived>> /\ trouble' \subseteq Occurs
        /\ loop' = Off /\ consumer' = Asleep
    BY <1>0, <1>6 DEF Crash, Disturb
  <2>2. DiskShape'
    BY <2>1 DEF DiskShape, disk, Posted
  <2>3. LoopShape' /\ At("off")'
    BY <2>1, <2>2, LoopEnded DEF DiskShape
  <2>4. Asleep \in Consumer /\ Asleep.pc = "off" /\ Asleep.run = 0 /\ Asleep.story = NoMention
    BY DEF Asleep, Consumer, Endings
  <2>5. Len(runs') \in Nat
    BY <2>2 DEF DiskShape
  <2> QED BY <2>1, <2>2, <2>3, <2>4, <2>5 DEF ConsumerShape, At, Running
<1> QED BY <1>1, <1>2, <1>3, <1>4, <1>5, <1>6

LEMMA ShapeStep == Shape /\ [Next]_vars => Shape'
<1> SUFFICES ASSUME Shape, [Next]_vars PROVE Shape'
  OBVIOUS
<1>1. CASE UNCHANGED vars
  BY <1>1 DEF vars, disk, Shape, DiskShape, LoopShape, ConsumerShape, Posted, Owed, InTurn,
              Starting, At, Running
<1>2. CASE Next
  <2>1. \/ Deliver \/ Acknowledge \/ Refuse \/ RoomFails
        \/ Baseline \/ Sync \/ Commit
        \/ SkipSettled \/ Claim
        \/ Respond \/ StartServed \/ StartDeclined \/ NoReceipt \/ Receipt \/ AnswerReceipt \/ Settle
        \/ loop.pc \in Awaits /\ (Lease \/ Begin \/ AcceptFails \/ Work \/ Report)
        \/ Post \/ Start \/ Stop \/ Barred \/ AnchorClash \/ Crash
    BY <1>2 DEF Next, LoopStep, ConsumerStep
  <2>2. CASE Deliver \/ Acknowledge \/ Refuse \/ RoomFails
    BY <2>2, SendingShape
  <2>3. CASE Baseline \/ Sync \/ Commit
    BY <2>3, SyncingShape
  <2>4. CASE SkipSettled \/ Claim
    BY <2>4, ClaimingShape
  <2>5. CASE Respond \/ StartServed \/ StartDeclined \/ NoReceipt \/ Receipt \/ AnswerReceipt \/ Settle
    BY <2>5, TurningShape
  <2>6. CASE loop.pc \in Awaits /\ (Lease \/ Begin \/ AcceptFails \/ Work \/ Report)
    BY <2>6, ConsumingShape
  <2>7. CASE Post \/ Start \/ Stop \/ Barred \/ AnchorClash \/ Crash
    BY <2>7, ProcessShape
  <2> QED BY <2>1, <2>2, <2>3, <2>4, <2>5, <2>6, <2>7
<1> QED BY <1>1, <1>2

LEMMA ShapeAlways == Spec => []Shape
<1> QED BY ShapeInit, ShapeStep, PTL DEF Spec

\* The rows and the program states keep their shape (state.py and the two loops).
THEOREM BridgeTypeCorrect == Spec => []BridgeTypeOK
<1>1. Shape => BridgeTypeOK
  <2> SUFFICES ASSUME Shape PROVE BridgeTypeOK
    OBVIOUS
  <2>1. Elements(room) \subseteq DOMAIN outbox /\ loop.queue \subseteq DOMAIN outbox
    BY DEF Shape, DiskShape, LoopShape, Elements, Owed
  <2> QED BY <2>1 DEF Shape, DiskShape, LoopShape, ConsumerShape, BridgeTypeOK
<1> QED BY <1>1, ShapeAlways, PTL

-----------------------------------------------------------------------------
(* What a step writes. *)

\* At most one row was added, owed.
Added(rows) ==
    rows = outbox \/ \E row \in Row : /\ row.state = "owed" /\ row.mention \in Posted
                                         /\ rows = Written(row)

\* Whichever step is taken, unless a row is sent or refused, at most one row is added and
\* the drain goes on, begins anew or is over.
LEMMA QuietStep ==
    ASSUME Shape, Next, ~ Deliver, ~ Acknowledge, ~ Refuse
    PROVE  /\ UNCHANGED room /\ Added(outbox')
           /\ \/ loop'.pc = loop.pc /\ loop'.queue = loop.queue
              \/ loop'.pc \notin {"send", "ack"}
              \/ loop'.pc = "send" /\ loop'.queue = Owed(outbox')
<1> USE DEF Shape
<1>0. loop \in Loop /\ outbox \in Seq(Row) /\ Shape' /\ outbox' \in Seq(Row)
  BY ShapeStep DEF LoopShape, DiskShape
<1> DEFINE Goes == \/ loop'.pc = loop.pc /\ loop'.queue = loop.queue
                   \/ loop'.pc \notin {"send", "ack"}
                   \/ loop'.pc = "send" /\ loop'.queue = Owed(outbox')
<1>1. ASSUME NEW l \in Loop, loop' = Drain(l, Owed(outbox')) PROVE Goes
  <2>1. Owed(outbox') \in SUBSET Nat
    BY <1>0 DEF Owed
  <2> QED BY <1>1, <2>1, DrainIs
<1>2. ASSUME loop' = NewRound(outbox') PROVE Goes
  BY <1>1, <1>2, OffIs DEF NewRound
<1>3. ASSUME NEW pc, pc \notin {"send", "ack"}, loop'.pc = pc PROVE Goes
  BY <1>3
<1>4. UNCHANGED outbox => Added(outbox')
  BY DEF Added
<1>5. ASSUME NEW status \in Terminal \cup {"timeout"}, NEW lane \in {"turn", "note", "run"},
             NEW run \in 0..MaxRuns, NEW kind \in {"text", "accepted", "started"} \cup Endings,
             loop.pc \in InTurn, Conclude(status, lane, run, kind)
      PROVE  UNCHANGED room /\ Added(outbox') /\ Goes
  <2> DEFINE row == Intent(loop.mention, lane, 0, run, kind)
  <2>1. loop.mention \in Posted /\ loop.mention \in Mentions
    BY <1>0, <1>5 DEF LoopShape, Loop
  <2>2. row \in Row /\ row.mention \in Posted /\ row.state = "owed"
    BY <2>1 DEF Intent, Row
  <2>3. outbox' = Written(row) /\ UNCHANGED room
    BY <1>5 DEF Conclude
  <2>4. [loop EXCEPT !.status = status, !.run = 0] \in Loop
    <3>1. loop \in Loop /\ 0 \in 0..MaxRuns
      BY <1>0
    <3> HIDE DEF Shape
    <3> QED BY <3>1 DEF Loop
  <2>5. Goes
    BY <1>1, <1>5, <2>4 DEF Conclude
  <2> HIDE DEF row, Goes
  <2> QED BY <2>2, <2>3, <2>5 DEF Added
<1>6. ASSUME NEW m \in Posted, NEW ordinal \in Nat, NEW run \in 0..MaxRuns,
             NEW kind \in {"started"} \cup Endings,
             outbox' = Written(Intent(m, "run", ordinal, run, kind))
      PROVE  Added(outbox')
  <2>1. Intent(m, "run", ordinal, run, kind) \in Row
        /\ Intent(m, "run", ordinal, run, kind).mention = m
    BY LineIs
  <2>2. Intent(m, "run", ordinal, run, kind).state = "owed"
    BY DEF Intent
  <2> QED BY <1>6, <2>1, <2>2 DEF Added
<1>7. ASSUME consumer.story # NoMention, NEW kind \in Endings, outbox' = Written(Line(3, kind))
      PROVE  Added(outbox')
  BY <1>6, <1>7 DEF Line, ConsumerShape, Consumer
<1>8. CASE RoomFails
  <2>1. UNCHANGED <<room, outbox>> /\ loop' = InTrouble(loop)
    BY <1>8 DEF RoomFails, disk
  <2>2. Goes
    <3>1. CASE loop.mention = NoMention
      BY <1>2, <2>1, <3>1 DEF InTrouble
    <3>2. CASE loop.mention # NoMention
      BY <1>0, <2>1, <3>2 DEF InTrouble, Loop
    <3> QED BY <3>1, <3>2
  <2> QED BY <1>4, <2>1, <2>2
<1>9. CASE Baseline \/ Commit \/ Start
  BY <1>2, <1>4, <1>9 DEF Baseline, Commit, Start, disk
<1>10. CASE Sync
  <2>1. loop' = NewRound(outbox) \/ loop'.pc = "turn"
    BY <1>0, <1>10 DEF Sync, Loop
  <2> QED BY <1>2, <1>4, <1>10, <2>1 DEF Sync, disk
<1>11. CASE SkipSettled \/ Claim
  BY <1>0, <1>4, <1>11 DEF SkipSettled, Claim, Loop, disk, At
<1>12. CASE Respond \/ StartDeclined \/ NoReceipt
  <2>1. /\ loop.pc \in InTurn
        /\ \/ Conclude("completed", "turn", 0, "text")
           \/ \E status \in {"failed", "timeout"} : Conclude(status, "note", 0, "text")
    BY <1>12 DEF Respond, StartDeclined, NoReceipt, Note, At, InTurn
  <2> QED BY <1>5, <2>1 DEF Terminal
<1>13. CASE AnswerReceipt
  BY <1>0, <1>5, <1>13 DEF AnswerReceipt, At, InTurn, Terminal, LoopShape, Loop
<1>14. CASE StartServed
  BY <1>0, <1>3, <1>4, <1>14 DEF StartServed, disk, Loop
<1>15. CASE Receipt
  BY <1>0, <1>4, <1>15 DEF Receipt, Loop
<1>16. CASE Settle
  <2>1. UNCHANGED <<room, outbox>> /\ (loop' = NewRound(outbox) \/ loop'.pc = "turn")
    BY <1>0, <1>16 DEF Settle, Loop
  <2> QED BY <1>2, <1>4, <2>1
<1>17. CASE Lease \/ AcceptFails \/ Report
  BY <1>4, <1>17 DEF Lease, AcceptFails, Report, disk
<1>18. CASE Begin
  <2>1. UNCHANGED <<room, loop>> /\ consumer.run \in 1..MaxRuns
    BY <1>18 DEF Begin, Running, ConsumerShape, Consumer
  <2>2. anchors[consumer.run] \in Posted \cup {NoMention} /\ consumer.run \in 0..MaxRuns
    BY <2>1 DEF DiskShape
  <2>3. \/ outbox' = outbox
        \/ /\ anchors[consumer.run] # NoMention
           /\ outbox' = Written(Intent(anchors[consumer.run], "run", 1, consumer.run, "started"))
    BY <1>18 DEF Begin
  <2>4. Added(outbox')
    BY <1>4, <1>6, <2>2, <2>3
  <2> QED BY <2>1, <2>4
<1>19. CASE Work
  BY <1>4, <1>7, <1>19 DEF Work
<1>20. CASE Exit
  <2>1. loop'.pc = "off" /\ UNCHANGED room
    BY <1>20 DEF Exit, Off
  <2>2. \/ outbox' = outbox
        \/ consumer.story # NoMention /\ outbox' = Written(Line(3, "failed"))
    BY <1>20 DEF Exit
  <2>3. "failed" \in Endings
    BY DEF Endings
  <2> QED BY <1>4, <1>7, <2>1, <2>2, <2>3
<1>21. CASE Crash
  BY <1>4, <1>21 DEF Crash, disk, Off
<1>22. CASE Post
  BY <1>4, <1>22 DEF Post, disk
<1> QED BY <1>8, <1>9, <1>10, <1>11, <1>12, <1>13, <1>14, <1>15, <1>16, <1>17, <1>18, <1>19, <1>20,
           <1>21, <1>22
    DEF Next, LoopStep, ConsumerStep, Stop, Barred, AnchorClash

-----------------------------------------------------------------------------
(* The room reads in order. *)

\* A drain that is under way offers every older row first, and acknowledges what arrived.
Draining ==
    /\ loop.pc \in {"send", "ack"} =>
          \A i \in Owed(outbox) : i \in loop.queue \/ \A k \in loop.queue : k < i
    /\ loop.pc = "ack" => Offered \in Elements(room)
RoomInv == RoomReadsInOrder /\ Draining

LEMMA RoomInit == Init => RoomInv
  BY DEF Init, RoomInv, RoomReadsInOrder, Draining, Elements, Owed, Off

\* A row that is added is owed and after all the others.
LEMMA RoomQuiet ==
    ASSUME Shape, RoomInv, UNCHANGED room, Added(outbox'),
           \/ loop'.pc = loop.pc /\ loop'.queue = loop.queue
           \/ loop'.pc \notin {"send", "ack"}
           \/ loop'.pc = "send" /\ loop'.queue = Owed(outbox')
    PROVE  RoomInv'
<1>1. /\ outbox \in Seq(Row) /\ Elements(room) \subseteq DOMAIN outbox
      /\ DOMAIN outbox = 1..Len(outbox) /\ Len(outbox) \in Nat
      /\ loop.queue \subseteq DOMAIN outbox
  BY DEF Shape, DiskShape, LoopShape, Elements, Owed
<1>2. /\ \A i \in DOMAIN outbox : i \in DOMAIN outbox' /\ outbox'[i] = outbox[i]
      /\ \A i \in DOMAIN outbox' \ DOMAIN outbox : i = Len(outbox) + 1 /\ outbox'[i].state = "owed"
  <2>1. CASE outbox' = outbox
    BY <2>1
  <2>2. CASE outbox' # outbox
    <3>1. PICK row \in Row : row.state = "owed" /\ outbox' = Written(row)
      BY <2>2 DEF Added
    <3>2. /\ \A i \in DOMAIN outbox : i \in DOMAIN Written(row) /\ Written(row)[i] = outbox[i]
          /\ \A i \in DOMAIN Written(row) \ DOMAIN outbox :
                i = Len(outbox) + 1 /\ Written(row)[i] = row
      BY <1>1, WrittenIs
    <3> QED BY <3>1, <3>2
  <2> QED BY <2>1, <2>2
<1>3. Elements(room)' = Elements(room)
  BY DEF Elements
<1>4. RoomReadsInOrder'
  <2>1. \A i, j \in DOMAIN room' : i < j => room'[i] < room'[j]
    BY DEF RoomInv, RoomReadsInOrder
  <2>2. ASSUME NEW i \in DOMAIN outbox'
        PROVE  /\ outbox'[i].state = "sent" => i \in Elements(room)
               /\ outbox'[i].state = "refused" => i \notin Elements(room)
               /\ outbox'[i].state = "owed" => \A k \in Elements(room) : k <= i
    <3>1. CASE i \in DOMAIN outbox
      BY <1>2, <3>1 DEF RoomInv, RoomReadsInOrder
    <3>2. CASE i \notin DOMAIN outbox
      BY <1>1, <1>2, <3>2
    <3> QED BY <3>1, <3>2
  <2> QED BY <1>3, <2>1, <2>2 DEF RoomReadsInOrder
<1>5. Draining'
  <2>1. CASE loop'.pc = loop.pc /\ loop'.queue = loop.queue
    <3>1. Offered' = Offered
      BY <2>1 DEF Offered, Oldest
    <3>2. ASSUME loop.pc \in {"send", "ack"}, NEW i \in Owed(outbox')
          PROVE  i \in loop.queue \/ \A k \in loop.queue : k < i
      <4>1. CASE i \in DOMAIN outbox
        BY <1>2, <3>2, <4>1 DEF RoomInv, Draining, Owed
      <4>2. CASE i \notin DOMAIN outbox
        BY <1>1, <1>2, <3>2, <4>2 DEF Owed
      <4> QED BY <4>1, <4>2
    <3> QED BY <1>3, <2>1, <3>1, <3>2 DEF RoomInv, Draining
  <2>2. CASE loop'.pc \notin {"send", "ack"} \/ (loop'.pc = "send" /\ loop'.queue = Owed(outbox'))
    BY <2>2 DEF Draining
  <2> QED BY <2>1, <2>2
<1> QED BY <1>4, <1>5 DEF RoomInv

\* The oldest row of the drain is delivered: every row in the room is older than it, or
\* it is there already.
LEMMA RoomDeliver ==
    ASSUME Shape, RoomInv, Deliver
    PROVE  RoomInv'
<1>1. loop.pc = "send" /\ loop.queue # {} /\ loop \in Loop
  BY DEF Deliver, At, Shape, LoopShape
<1>2. /\ Offered \in loop.queue /\ Offered \in DOMAIN outbox
      /\ outbox[Offered].state = "owed" /\ \A k \in loop.queue : Offered <= k
  BY <1>1, OfferedIs DEF Shape
<1>3. /\ room \in Seq(Nat) /\ DOMAIN room = 1..Len(room) /\ Len(room) \in Nat
      /\ outbox \in Seq(Row) /\ DOMAIN outbox \subseteq Nat
  BY DEF Shape, DiskShape
<1>4. \A k \in Elements(room) : k <= Offered
  BY <1>2 DEF RoomInv, RoomReadsInOrder
<1>5. Elements(room') = Elements(room) \cup {Offered}
      /\ \A i, j \in DOMAIN room' : i < j => room'[i] < room'[j]
  <2>1. CASE Offered \in Elements(room)
    BY <2>1 DEF Deliver, RoomInv, RoomReadsInOrder
  <2>2. CASE Offered \notin Elements(room)
    <3>1. room' = Append(room, Offered)
      BY <2>2 DEF Deliver
    <3>2. /\ DOMAIN room' = 1..(Len(room) + 1) /\ room'[Len(room) + 1] = Offered
          /\ \A i \in DOMAIN room : room'[i] = room[i]
      BY <1>3, <3>1
    <3>3. \A i \in DOMAIN room : room[i] < Offered
      <4> SUFFICES ASSUME NEW i \in DOMAIN room PROVE room[i] < Offered
        OBVIOUS
      <4>1. room[i] \in Elements(room) /\ room[i] \in Nat /\ Offered \in Nat
        BY <1>2, <1>3 DEF Elements
      <4> QED BY <1>4, <2>2, <4>1
    <3>4. Elements(room') = Elements(room) \cup {Offered}
      BY <1>3, <3>2 DEF Elements
    <3>5. ASSUME NEW i \in DOMAIN room', NEW j \in DOMAIN room', i < j PROVE room'[i] < room'[j]
      <4>1. i \in DOMAIN room
        BY <1>3, <3>2, <3>5
      <4>2. CASE j \in DOMAIN room
        BY <3>2, <3>5, <4>1, <4>2 DEF RoomInv, RoomReadsInOrder
      <4>3. CASE j \notin DOMAIN room
        BY <1>3, <3>2, <3>3, <4>1, <4>3
      <4> QED BY <4>2, <4>3
    <3> QED BY <3>4, <3>5
  <2> QED BY <2>1, <2>2
<1>6. UNCHANGED outbox /\ loop'.pc = "ack" /\ loop'.queue = loop.queue
  BY <1>1 DEF Deliver, disk, Loop
<1>7. Offered' = Offered
  BY <1>6 DEF Offered, Oldest
<1>8. \A i \in Owed(outbox) : Offered <= i
  <2> SUFFICES ASSUME NEW i \in Owed(outbox) PROVE Offered <= i
    OBVIOUS
  <2>1. i \in loop.queue \/ \A k \in loop.queue : k < i
    BY <1>1 DEF RoomInv, Draining
  <2> QED BY <1>2, <1>3, <2>1 DEF Owed
<1>9. RoomReadsInOrder'
  <2>1. ASSUME NEW i \in DOMAIN outbox
        PROVE  /\ outbox[i].state = "sent" => i \in Elements(room')
               /\ outbox[i].state = "refused" => i \notin Elements(room')
               /\ outbox[i].state = "owed" => \A k \in Elements(room') : k <= i
    BY <1>2, <1>5, <1>8 DEF RoomInv, RoomReadsInOrder, Owed
  <2> QED BY <1>5, <1>6, <2>1 DEF RoomReadsInOrder, Elements
<1>10. Draining'
  BY <1>1, <1>5, <1>6, <1>7 DEF RoomInv, Draining, Owed, Elements
<1> QED BY <1>9, <1>10 DEF RoomInv

\* The offered row is settled: it is in the room and sent, or not there and refused.
LEMMA RoomMarked ==
    ASSUME Shape, RoomInv, NEW state \in {"sent", "refused"}, loop.pc \in {"send", "ack"},
           outbox' = Marked(Offered, state), loop' = Drain(loop, loop.queue \ {Offered}),
           UNCHANGED room, state = "sent" <=> Offered \in Elements(room)
    PROVE  RoomInv'
<1>1. /\ Offered \in loop.queue /\ Offered \in DOMAIN outbox
      /\ outbox[Offered].state = "owed" /\ \A k \in loop.queue : Offered <= k
  BY OfferedIs DEF Shape, LoopShape
<1>2. DOMAIN outbox' = DOMAIN outbox
      /\ \A i \in DOMAIN outbox : outbox'[i].state = IF i = Offered THEN state ELSE outbox[i].state
  BY <1>1, MarkedIs DEF Shape, DiskShape
<1>3. /\ loop'.queue = loop.queue \ {Offered} /\ loop'.pc # "ack"
  <2>1. loop.queue \ {Offered} \in SUBSET Nat /\ loop \in Loop
    BY DEF Shape, LoopShape, Loop
  <2> QED BY <2>1, DrainIs
<1>4. Elements(room)' = Elements(room)
  BY DEF Elements
<1>5. RoomReadsInOrder'
  <2>1. ASSUME NEW i \in DOMAIN outbox
        PROVE  /\ outbox'[i].state = "sent" => i \in Elements(room)
               /\ outbox'[i].state = "refused" => i \notin Elements(room)
               /\ outbox'[i].state = "owed" => \A k \in Elements(room) : k <= i
    BY <1>2 DEF RoomInv, RoomReadsInOrder
  <2> QED BY <1>2, <1>4, <2>1 DEF RoomInv, RoomReadsInOrder
<1>6. Owed(outbox') = Owed(outbox) \ {Offered}
  BY <1>1, <1>2 DEF Owed
<1>7. Draining'
  BY <1>3, <1>6 DEF RoomInv, Draining
<1> QED BY <1>5, <1>7 DEF RoomInv

\* The room reads the outbox in its order, each row once and none left out but the dead
\* letters (supervisor._drain).
THEOREM RoomReadsInOrderCorrect == Spec => []RoomReadsInOrder
<1>1. ASSUME Shape, RoomInv, [Next]_vars PROVE RoomInv'
  <2>1. CASE UNCHANGED vars
    BY <1>1, <2>1 DEF vars, disk, RoomInv, RoomReadsInOrder, Draining, Elements, Owed, Offered,
                      Oldest
  <2>2. CASE Deliver
    BY <1>1, <2>2, RoomDeliver
  <2>3. CASE Acknowledge
    BY <1>1, <2>3, RoomMarked DEF Acknowledge, At, RoomInv, Draining
  <2>4. CASE Refuse
    BY <1>1, <2>4, RoomMarked DEF Refuse, At
  <2>5. CASE Next /\ ~ Deliver /\ ~ Acknowledge /\ ~ Refuse
    BY <1>1, <2>5, QuietStep, RoomQuiet
  <2> QED BY <1>1, <2>1, <2>2, <2>3, <2>4, <2>5
<1>2. RoomInv => RoomReadsInOrder
  BY DEF RoomInv
<1> QED BY <1>1, <1>2, RoomInit, ShapeAlways, PTL DEF Spec

-----------------------------------------------------------------------------
(* One turn each. *)

Excuses == {"crash", "stop", "timeout", "unanswered"}
Excused == Cardinality(trouble \cap Excuses)
\* The turn of m had its effect, or is in hand and may still have it.
Spent(m) ==
    \/ ledger[m] \in Terminal /\ m # loop.mention
    \/ m = loop.mention /\ ~ (loop.status = "timeout" /\ loop.pc \in {"send", "ack", "settle"})
TurnsInv == \A m \in Mentions : turns[m] <= Excused + IF Spent(m) THEN 1 ELSE 0

LEMMA ExcusesFinite == IsFiniteSet(Excuses)
<1>1. /\ IsFiniteSet({"crash"})
      /\ IsFiniteSet({"crash"} \cup {"stop"})
      /\ IsFiniteSet(({"crash"} \cup {"stop"}) \cup {"timeout"})
      /\ IsFiniteSet((({"crash"} \cup {"stop"}) \cup {"timeout"}) \cup {"unanswered"})
  <2>1. IsFiniteSet({"crash"})
    BY FS_Singleton
  <2>2. IsFiniteSet({"crash"} \cup {"stop"})
    BY <2>1, FS_AddElement
  <2>3. IsFiniteSet(({"crash"} \cup {"stop"}) \cup {"timeout"})
    BY <2>2, FS_AddElement
  <2> QED BY <2>1, <2>2, <2>3, FS_AddElement
<1>2. Excuses = (({"crash"} \cup {"stop"}) \cup {"timeout"}) \cup {"unanswered"}
  BY DEF Excuses
<1> QED BY <1>1, <1>2

LEMMA ExcusedIs ==
    ASSUME trouble \subseteq trouble'
    PROVE  /\ Excused \in Nat /\ Excused' \in Nat /\ Excused <= Excused'
           /\ \A kind \in Excuses : kind \notin trouble /\ kind \in trouble' => Excused < Excused'
<1>1. IsFiniteSet(Excuses)
  BY ExcusesFinite
<1>2. ASSUME NEW S PROVE IsFiniteSet(S \cap Excuses) /\ Cardinality(S \cap Excuses) \in Nat
  BY <1>1, FS_Subset, FS_CardinalityType
<1>3. Excused \in Nat /\ Excused' \in Nat
  BY <1>2 DEF Excused
<1>4. trouble \cap Excuses \subseteq trouble' \cap Excuses
  OBVIOUS
<1>5. Excused <= Excused'
  BY <1>2, <1>4, FS_Subset DEF Excused
<1>6. ASSUME NEW kind \in Excuses, kind \notin trouble, kind \in trouble' PROVE Excused < Excused'
  <2>1. trouble \cap Excuses # trouble' \cap Excuses
    BY <1>6
  <2>2. Excused # Excused'
    BY <1>2, <1>4, <2>1, FS_Subset DEF Excused
  <2> QED BY <1>3, <1>5, <2>2
<1> QED BY <1>3, <1>5, <1>6

LEMMA NewRoundIs == \A rows : NewRound(rows).mention = NoMention
  BY DEF NewRound, Drain, Off

LEMMA TurnsInit == Init => TurnsInv
<1> SUFFICES ASSUME Init PROVE TurnsInv
  OBVIOUS
<1>1. Excused \in Nat
  <2>1. trouble \cap Excuses = {}
    BY DEF Init
  <2> QED BY <2>1, FS_EmptySet DEF Excused
<1>2. \A m \in Mentions : turns[m] = 0
  BY DEF Init
<1> QED BY <1>1, <1>2 DEF TurnsInv

\* No turn begins, and none that was spent can be run again.
LEMMA TurnsKept ==
    ASSUME Shape, TurnsInv, UNCHANGED turns, trouble \subseteq trouble',
           \A m \in Mentions : Spent(m) => Spent(m)'
    PROVE  TurnsInv'
<1> SUFFICES ASSUME NEW m \in Mentions PROVE turns[m] <= Excused' + IF Spent(m)' THEN 1 ELSE 0
  BY DEF TurnsInv
<1>1. turns[m] \in Nat /\ turns[m] <= Excused + (IF Spent(m) THEN 1 ELSE 0)
  BY DEF TurnsInv, Shape, DiskShape
<1>2. Spent(m) => Spent(m)'
  OBVIOUS
<1> HIDE DEF Spent
<1> QED BY <1>1, <1>2, ExcusedIs

\* No turn begins, and what is lost is excused.
LEMMA TurnsExcused ==
    ASSUME Shape, TurnsInv, UNCHANGED turns, NEW kind \in Excuses, Disturb(kind)
    PROVE  TurnsInv'
<1>1. trouble \subseteq trouble' /\ kind \notin trouble /\ kind \in trouble'
  BY DEF Disturb
<1>2. Excused \in Nat /\ Excused' \in Nat /\ Excused < Excused'
  BY <1>1, ExcusedIs
<1> SUFFICES ASSUME NEW m \in Mentions PROVE turns[m] <= Excused' + IF Spent(m)' THEN 1 ELSE 0
  BY DEF TurnsInv
<1>3. turns[m] \in Nat /\ turns[m] <= Excused + (IF Spent(m) THEN 1 ELSE 0)
  BY DEF TurnsInv, Shape, DiskShape
<1> HIDE DEF Spent
<1> QED BY <1>2, <1>3

\* A turn begins: the mention was neither settled nor in hand.
LEMMA TurnsClaim ==
    ASSUME Shape, TurnsInv, Claim
    PROVE  TurnsInv'
<1>1. /\ loop.todo # {} /\ ledger[Upcoming] \notin Terminal /\ loop.pc = "turn"
      /\ ledger' = [ledger EXCEPT ![Upcoming] = "in_flight"]
      /\ turns' = [turns EXCEPT ![Upcoming] = @ + 1] /\ trouble' = trouble
      /\ loop' = [loop EXCEPT !.todo = @ \ {Upcoming}, !.mention = Upcoming,
                              !.pc = IF timeline[Upcoming] = "talk" THEN "respond" ELSE "start"]
  BY DEF Claim, At, Calm
<1>2. Upcoming \in Mentions /\ loop.mention = NoMention /\ loop \in Loop
  BY <1>1, UpcomingIs DEF Shape, LoopShape
<1>3. loop'.mention = Upcoming /\ loop'.pc \in {"respond", "start"}
  BY <1>1, <1>2 DEF Loop
<1>4. Excused' = Excused /\ Excused \in Nat
  <2>1. Excused' = Excused
    BY <1>1 DEF Excused
  <2>2. trouble \subseteq trouble'
    BY <1>1
  <2> QED BY <2>1, <2>2, ExcusedIs
<1>5. \A m \in Mentions : m # NoMention
  BY DEF Mentions, NoMention
<1> SUFFICES ASSUME NEW m \in Mentions PROVE turns'[m] <= Excused' + IF Spent(m)' THEN 1 ELSE 0
  BY DEF TurnsInv
<1>6. turns[m] \in Nat /\ turns[m] <= Excused + (IF Spent(m) THEN 1 ELSE 0)
      /\ ledger \in [Mentions -> {"none", "in_flight", "interrupted"} \cup Terminal]
      /\ turns \in [Mentions -> Nat]
  BY DEF TurnsInv, Shape, DiskShape
<1>7. CASE m = Upcoming
  <2>1. ~ Spent(m) /\ Spent(m)'
    BY <1>1, <1>2, <1>3, <1>5, <1>7 DEF Spent
  <2>2. turns'[m] = turns[m] + 1
    BY <1>1, <1>6, <1>7
  <2> HIDE DEF Spent
  <2> QED BY <1>4, <1>6, <2>1, <2>2
<1>8. CASE m # Upcoming
  <2>1. Spent(m) => Spent(m)'
    BY <1>1, <1>2, <1>5, <1>6, <1>8 DEF Spent
  <2>2. turns'[m] = turns[m]
    BY <1>1, <1>6, <1>8
  <2> HIDE DEF Spent
  <2> QED BY <1>4, <1>6, <2>1, <2>2
<1> QED BY <1>7, <1>8

\* A mention is put to the session, or to RepoMesh, once; again only after a crash, a stop
\* or an answer that was late (Inbox.claim, state.begin_turn).
THEOREM OneTurnEachCorrect == Spec => []OneTurnEach
<1>1. ASSUME Shape, TurnsInv, [Next]_vars PROVE TurnsInv'
  <2> USE <1>1 DEF Shape
  <2>1. \A m \in Mentions : m # NoMention
    BY DEF Mentions, NoMention
  <2>2. loop \in Loop
    BY DEF LoopShape
  <2>3. CASE UNCHANGED vars
    BY <2>3 DEF vars, disk, TurnsInv, Spent, Excused
  <2>4. ASSUME UNCHANGED <<turns, ledger>>, trouble \subseteq trouble', loop.mention = NoMention,
               loop'.mention = NoMention
        PROVE  TurnsInv'
    <3>1. \A m \in Mentions : Spent(m) => Spent(m)'
      BY <2>1, <2>4 DEF Spent
    <3> QED BY <2>4, <3>1, TurnsKept
  <2>5. ASSUME UNCHANGED <<turns, ledger>>, trouble \subseteq trouble',
               loop'.mention = loop.mention, loop'.status = loop.status,
               \/ loop.pc \in {"send", "ack", "settle"}
               \/ loop'.pc \notin {"send", "ack", "settle"}
               \/ loop.status # "timeout"
        PROVE  TurnsInv'
    <3>1. \A m \in Mentions : Spent(m) => Spent(m)'
      BY <2>5 DEF Spent
    <3> QED BY <2>5, <3>1, TurnsKept
  <2>6. CASE Deliver \/ Acknowledge \/ Refuse
    <3>1. /\ UNCHANGED <<turns, ledger>> /\ trouble \subseteq trouble' /\ loop.pc \in {"send", "ack"}
          /\ loop'.mention = loop.mention /\ loop'.status = loop.status
      <4>1. loop.queue \ {Offered} \in SUBSET Nat
        BY <2>2 DEF Loop
      <4> QED BY <2>2, <2>6, <4>1, DrainIs DEF Deliver, Acknowledge, Refuse, disk, Calm, Disturb, At, Loop
    <3> QED BY <2>5, <3>1
  <2>7. CASE RoomFails
    <3>1. /\ UNCHANGED <<turns, ledger>> /\ trouble \subseteq trouble'
          /\ loop.pc \in {"send", "sync", "ack"} /\ loop' = InTrouble(loop)
      BY <2>7 DEF RoomFails, disk, Disturb, At
    <3>2. CASE loop.mention = NoMention
      BY <2>4, <3>1, <3>2, NewRoundIs DEF InTrouble
    <3>3. CASE loop.mention # NoMention
      <4>1. loop'.mention = loop.mention /\ loop'.status = loop.status /\ loop.pc # "sync"
        BY <2>2, <3>1, <3>3 DEF InTrouble, Loop, LoopShape
      <4> QED BY <2>5, <3>1, <4>1
    <3> QED BY <3>2, <3>3
  <2>8. CASE Baseline \/ Sync \/ Commit \/ SkipSettled
    <3>1. UNCHANGED <<turns, ledger>> /\ trouble \subseteq trouble' /\ loop.mention = NoMention
      BY <2>8 DEF Baseline, Sync, Commit, SkipSettled, LoopShape, At, Calm, Disturb, disk
    <3>2. loop'.mention = NoMention
      BY <2>2, <2>8, <3>1, NewRoundIs DEF Baseline, Sync, Commit, SkipSettled, Loop
    <3> QED BY <2>4, <3>1, <3>2
  <2>9. CASE Start
    <3>1. UNCHANGED <<turns, ledger>> /\ trouble \subseteq trouble' /\ loop.mention = NoMention
      BY <2>9 DEF Start, LoopShape, At, Calm, disk
    <3> QED BY <2>4, <2>9, <3>1, NewRoundIs DEF Start
  <2>10. CASE Claim
    BY <2>10, TurnsClaim
  <2>11. ASSUME NEW status \in Terminal, NEW lane, NEW run, NEW kind,
                Conclude(status, lane, run, kind), trouble \subseteq trouble', loop.pc \in InTurn \ {"settle"}
         PROVE  TurnsInv'
    <3>1. loop'.mention = loop.mention /\ loop'.status = status /\ UNCHANGED <<turns, ledger>>
      <4> DEFINE l == [loop EXCEPT !.status = status, !.run = 0]
      <4>1. l \in Loop
        <5>1. loop \in Loop /\ 0 \in 0..MaxRuns
          BY <2>2
        <5> HIDE DEF Shape
        <5> QED BY <5>1 DEF Loop
      <4>2. Owed(outbox') \in SUBSET Nat
        <5>1. Shape'
          BY <1>1, ShapeStep
        <5> QED BY <5>1 DEF Owed, DiskShape
      <4>3. l.mention = loop.mention /\ l.status = status
        BY <2>2 DEF Loop
      <4>4. loop' = Drain(l, Owed(outbox')) /\ UNCHANGED <<turns, ledger>>
        BY <2>11 DEF Conclude
      <4> HIDE DEF l
      <4>5. Drain(l, Owed(outbox')).mention = l.mention /\ Drain(l, Owed(outbox')).status = l.status
        BY <4>1, <4>2, DrainIs
      <4> QED BY <4>3, <4>4, <4>5
    <3>2. status # "timeout"
      BY DEF Terminal
    <3>3. \A m \in Mentions : Spent(m) => Spent(m)'
      BY <3>1, <3>2 DEF Spent
    <3> QED BY <2>11, <3>1, <3>3, TurnsKept
  <2>12. CASE Respond
    <3>1. CASE Disturb("timeout")
      BY <2>12, <3>1, TurnsExcused DEF Respond, Conclude, Note, Excuses
    <3>2. CASE ~ Disturb("timeout")
      BY <2>11, <2>12, <3>2 DEF Respond, Note, Terminal, InTurn, At, Calm, Disturb
    <3> QED BY <3>1, <3>2
  <2>13. CASE StartDeclined
    BY <2>11, <2>13 DEF StartDeclined, Note, Terminal, InTurn, At, Calm, Disturb
  <2>14. CASE NoReceipt
    BY <2>14, TurnsExcused DEF NoReceipt, Conclude, Note, Excuses
  <2>15. CASE AnswerReceipt
    BY <2>11, <2>15 DEF AnswerReceipt, Terminal, InTurn, At, Calm
  <2>16. CASE StartServed \/ Receipt
    <3>1. /\ UNCHANGED <<turns, ledger>> /\ trouble \subseteq trouble'
          /\ loop'.mention = loop.mention /\ loop'.status = loop.status
          /\ loop'.pc \notin {"send", "ack", "settle"}
      BY <2>2, <2>16 DEF StartServed, Receipt, Loop, Calm, disk
    <3> QED BY <2>5, <3>1
  <2>17. CASE Settle
    <3>1. /\ UNCHANGED turns /\ trouble \subseteq trouble' /\ loop.pc = "settle"
          /\ ledger' = [ledger EXCEPT ![loop.mention] = IF loop.status = "timeout" THEN "none"
                                                         ELSE loop.status]
      BY <2>17 DEF Settle, Calm, At
    <3>2. loop.status \in Terminal \cup {"timeout"} /\ loop.mention \in Mentions
          /\ ledger \in [Mentions -> {"none", "in_flight", "interrupted"} \cup Terminal]
      BY <2>2, <3>1 DEF Loop, LoopShape, DiskShape, InTurn
    <3>3. loop'.mention = NoMention
      BY <2>2, <2>17, NewRoundIs DEF Settle, Loop
    <3>4. ASSUME NEW m \in Mentions, Spent(m) PROVE Spent(m)'
      <4>1. CASE m = loop.mention
        <5>1. loop.status \in Terminal
          BY <3>1, <3>2, <3>4, <4>1 DEF Spent
        <5>2. ledger'[m] \in Terminal
          BY <3>1, <3>2, <4>1, <5>1 DEF Terminal
        <5> QED BY <2>1, <3>3, <5>2 DEF Spent
      <4>2. CASE m # loop.mention
        BY <2>1, <3>1, <3>2, <3>3, <3>4, <4>2 DEF Spent
      <4> QED BY <4>1, <4>2
    <3> QED BY <3>1, <3>4, TurnsKept
  <2>18. CASE Lease \/ Begin \/ AcceptFails \/ Work \/ Report \/ Post
    <3>1. UNCHANGED <<turns, ledger, loop>> /\ trouble \subseteq trouble'
      BY <2>18 DEF Lease, Begin, AcceptFails, Work, Report, Post, disk, Calm, Disturb
    <3> QED BY <3>1, TurnsKept DEF Spent
  <2>19. CASE Stop
    BY <2>19, TurnsExcused DEF Stop, Exit, Excuses
  <2>20. CASE Crash
    BY <2>20, TurnsExcused DEF Crash, Excuses
  <2>21. CASE Barred
    <3>1. UNCHANGED <<turns, ledger>> /\ trouble \subseteq trouble' /\ loop.mention = NoMention
      BY <2>21 DEF Barred, Exit, LoopShape, At, Disturb
    <3> QED BY <2>4, <2>21, <3>1 DEF Barred, Exit, Off
  <2>22. CASE AnchorClash
    <3>1. /\ UNCHANGED turns /\ trouble \subseteq trouble'
          /\ ledger' = [ledger EXCEPT ![loop.mention] = "failed"]
      BY <2>22 DEF AnchorClash, Exit, Calm
    <3>2. ledger \in [Mentions -> {"none", "in_flight", "interrupted"} \cup Terminal]
      BY DEF DiskShape
    <3>3. \A m \in Mentions : Spent(m) => Spent(m)'
      <4>1. loop'.mention = NoMention
        BY <2>22 DEF AnchorClash, Exit, Off
      <4>2. \A m \in Mentions : ledger'[m] = IF m = loop.mention THEN "failed" ELSE ledger[m]
        BY <3>1, <3>2
      <4> QED BY <2>1, <4>1, <4>2 DEF Spent, Terminal
    <3> QED BY <3>1, <3>3, TurnsKept
  <2> QED BY <2>3, <2>6, <2>7, <2>8, <2>9, <2>10, <2>12, <2>13, <2>14, <2>15, <2>16, <2>17, <2>18,
             <2>19, <2>20, <2>21, <2>22 DEF Next, LoopStep, ConsumerStep
<1>2. Shape /\ TurnsInv => OneTurnEach
  <2> SUFFICES ASSUME Shape, TurnsInv, NEW m \in Mentions
               PROVE  turns[m] <= 1 + Cardinality(trouble \cap {"crash", "stop", "timeout", "unanswered"})
    BY DEF OneTurnEach
  <2>1. turns[m] \in Nat /\ turns[m] <= Excused + (IF Spent(m) THEN 1 ELSE 0)
    BY DEF TurnsInv, Shape, DiskShape
  <2>2. IsFiniteSet(Excuses)
    BY ExcusesFinite
  <2>3. Excused \in Nat
    BY <2>2, FS_Subset, FS_CardinalityType DEF Excused
  <2>4. turns[m] <= 1 + Excused
    BY <2>1, <2>3
  <2> QED BY <2>4 DEF Excused, Excuses
<1> QED BY <1>1, <1>2, TurnsInit, ShapeAlways, PTL DEF Spec

-----------------------------------------------------------------------------
(* What the room is told of a run. *)

Last(row) == row.ordinal = 3
\* The ends the rooms are told of, each with its run.
Told(rows) == {<<rows[i].run, rows[i].kind>> : i \in {k \in DOMAIN rows : Last(rows[k])}}
\* The end told is the one recorded, about to be reported, or to be reported no more.
Agree ==
    /\ \A t \in Told(outbox) :
          /\ t[1] \in DOMAIN runs /\ t[2] \in Endings /\ runs[t[1]] \in {"accepted", t[2]}
          /\ Running("work") => consumer.run # t[1]
          /\ Running("report") /\ consumer.run = t[1] => consumer.result = t[2]
    /\ Running("accept") => runs[consumer.run] = "leased"
    /\ Running("work") \/ Running("report") => runs[consumer.run] = "accepted"

LEMMA AgreeInit == Init => Agree
  BY DEF Init, Agree, Told, Asleep, Running

LEMMA ToldMarked ==
    ASSUME Shape, loop.pc \in {"send", "ack"}, NEW state \in {"sent", "refused"},
           outbox' = Marked(Offered, state)
    PROVE  Told(outbox') = Told(outbox)
<1>1. Offered \in DOMAIN outbox
  BY OfferedIs DEF Shape, LoopShape
<1>2. DOMAIN outbox' = DOMAIN outbox /\ \A i \in DOMAIN outbox : Kept(outbox'[i], outbox[i])
  BY <1>1, MarkedIs DEF Shape, DiskShape
<1> QED BY <1>2 DEF Told, Kept, Last

LEMMA ToldWritten ==
    ASSUME Shape, NEW row \in Row
    PROVE  /\ row.ordinal # 3 => Told(Written(row)) = Told(outbox)
           /\ Told(Written(row)) \subseteq Told(outbox) \cup {<<row.run, row.kind>>}
<1>1. /\ \A i \in DOMAIN outbox : i \in DOMAIN Written(row) /\ Written(row)[i] = outbox[i]
      /\ \A i \in DOMAIN Written(row) \ DOMAIN outbox : Written(row)[i] = row
  BY WrittenIs DEF Shape, DiskShape
<1> QED BY <1>1 DEF Told, Last

\* The consumer is where it was, or between two runs.
LEMMA AgreeKept ==
    ASSUME Agree, UNCHANGED runs, Told(outbox') = Told(outbox),
           UNCHANGED consumer \/ consumer'.pc \in {"off", "poll"}
    PROVE  Agree'
<1>1. CASE UNCHANGED consumer
  BY <1>1 DEF Agree, Running
<1>2. CASE consumer'.pc \in {"off", "poll"}
  BY <1>2 DEF Agree, Running
<1> QED BY <1>1, <1>2

\* The consumer takes a run, carries it to its end and reports it.
LEMMA AgreeConsumer ==
    ASSUME Shape, Agree, Lease \/ Begin \/ AcceptFails \/ Work \/ Report
    PROVE  Agree'
<1>0. /\ runs \in Seq(Live \cup Endings) /\ DOMAIN runs = 1..Len(runs) /\ consumer \in Consumer
      /\ (consumer.pc \in {"accept", "work", "report"} => consumer.run \in DOMAIN runs)
  <2>1. consumer.run \in Nat /\ consumer \in Consumer /\ runs \in Seq(Live \cup Endings)
    BY DEF Shape, ConsumerShape, DiskShape, Consumer
  <2> QED BY <2>1 DEF Shape, ConsumerShape
<1>1. \A t \in Told(outbox) : runs[t[1]] \notin {"queued", "leased"}
  BY DEF Agree, Endings
<1>2. CASE Lease
  <2>1. PICK r \in DOMAIN runs : /\ runs[r] \in {"queued", "leased"}
                                 /\ runs' = [runs EXCEPT ![r] = "leased"]
                                 /\ consumer' = [consumer EXCEPT !.pc = "accept", !.run = r]
    BY <1>2 DEF Lease
  <2>2. outbox' = outbox /\ consumer'.pc = "accept" /\ consumer'.run = r
    BY <1>0, <1>2, <2>1 DEF Lease, disk, Consumer
  <2>3. runs'[r] = "leased" /\ DOMAIN runs' = DOMAIN runs
        /\ \A k \in DOMAIN runs : k # r => runs'[k] = runs[k]
    BY <1>0, <2>1
  <2>4. \A t \in Told(outbox) : t[1] # r
    BY <1>1, <2>1
  <2> QED BY <2>2, <2>3, <2>4 DEF Agree, Running
<1>3. CASE AcceptFails
  <2>1. PICK state \in {"leased", "accepted"} : runs' = [runs EXCEPT ![consumer.run] = state]
    BY <1>3 DEF AcceptFails
  <2>2. outbox' = outbox /\ consumer'.pc = "poll" /\ Running("accept")
    BY <1>3 DEF AcceptFails, disk, Polling, Asleep
  <2>3. DOMAIN runs' = DOMAIN runs /\ \A k \in DOMAIN runs : k # consumer.run => runs'[k] = runs[k]
    BY <1>0, <2>1
  <2>4. \A t \in Told(outbox) : t[1] # consumer.run
    BY <1>1, <2>2 DEF Agree
  <2> QED BY <2>2, <2>3, <2>4 DEF Agree, Running
<1>4. CASE Begin
  <2> DEFINE story == anchors[consumer.run]
  <2>1. /\ Running("accept") /\ runs' = [runs EXCEPT ![consumer.run] = "accepted"]
        /\ outbox' = IF story = NoMention THEN outbox
                     ELSE Written(Intent(story, "run", 1, consumer.run, "started"))
        /\ \E pc \in {"report", "work"} : consumer' = [consumer EXCEPT !.story = story, !.pc = pc]
    BY <1>4 DEF Begin
  <2>2. consumer'.run = consumer.run /\ consumer'.pc \in {"report", "work"}
    BY <1>0, <2>1 DEF Consumer
  <2>3. Told(outbox') = Told(outbox)
    <3>1. CASE story = NoMention
      BY <2>1, <3>1
    <3>2. CASE story # NoMention
      <4>1. story \in Posted /\ consumer.run \in 0..MaxRuns
        BY <1>0, <2>1, <3>2 DEF Shape, DiskShape, ConsumerShape, Consumer, Running
      <4>2. Intent(story, "run", 1, consumer.run, "started") \in Row
        BY <4>1, LineIs
      <4>3. Intent(story, "run", 1, consumer.run, "started").ordinal = 1
        BY DEF Intent
      <4> HIDE DEF story
      <4> QED BY <2>1, <3>2, <4>2, <4>3, ToldWritten
    <3> QED BY <3>1, <3>2
  <2>4. runs'[consumer.run] = "accepted" /\ DOMAIN runs' = DOMAIN runs
        /\ \A k \in DOMAIN runs : k # consumer.run => runs'[k] = runs[k]
    BY <1>0, <2>1 DEF Running
  <2>5. \A t \in Told(outbox) : t[1] # consumer.run
    BY <1>1, <2>1 DEF Agree
  <2> HIDE DEF story
  <2> QED BY <2>2, <2>3, <2>4, <2>5 DEF Agree, Running
<1>5. CASE Work
  <2>1. Running("work") /\ UNCHANGED runs /\ consumer.run \in DOMAIN runs
    BY <1>0, <1>5 DEF Work, Running
  <2>2. \A t \in Told(outbox) : t[1] # consumer.run
    BY <2>1 DEF Agree
  <2>3. PICK result \in Endings :
          IF consumer.story = NoMention
          THEN /\ consumer' = [consumer EXCEPT !.pc = "report", !.result = result]
               /\ UNCHANGED outbox
          ELSE /\ outbox' = Written(Line(3, result))
               /\ consumer' = [consumer EXCEPT !.pc = "report",
                                 !.result = IF Taken(Line(3, result)) THEN "failed" ELSE result]
    BY <1>5 DEF Work
  <2>4. consumer'.run = consumer.run /\ consumer'.pc = "report"
    BY <1>0, <2>3 DEF Consumer
  <2>5. CASE Told(outbox') = Told(outbox)
    BY <2>1, <2>2, <2>4, <2>5 DEF Agree, Running
  <2>6. CASE Told(outbox') # Told(outbox)
    <3>1. consumer.story # NoMention /\ outbox' = Written(Line(3, result)) /\ outbox' # outbox
      BY <2>3, <2>6
    <3>2. ~ Taken(Line(3, result))
      BY <3>1 DEF Written, Taken
    <3>3. consumer'.result = result
      BY <1>0, <2>3, <3>1, <3>2 DEF Consumer
    <3>4. Line(3, result) \in Row
      BY <3>1, LineIs DEF Line, Shape, ConsumerShape, Consumer
    <3>5. Line(3, result).run = consumer.run /\ Line(3, result).kind = result
      BY DEF Line, Intent
    <3>6. Told(outbox') \subseteq Told(outbox) \cup {<<consumer.run, result>>}
      BY <3>1, <3>4, <3>5, ToldWritten
    <3>7. ASSUME NEW t \in Told(outbox')
          PROVE  /\ t[1] \in DOMAIN runs' /\ t[2] \in Endings /\ runs'[t[1]] \in {"accepted", t[2]}
                 /\ ~ Running("work")' /\ (consumer'.run = t[1] => consumer'.result = t[2])
      <4>1. CASE t \in Told(outbox)
        BY <2>1, <2>2, <2>4, <4>1 DEF Agree, Running
      <4>2. CASE t \notin Told(outbox)
        <5>1. t[1] = consumer.run /\ t[2] = result
          BY <3>6, <4>2
        <5> QED BY <2>1, <2>4, <3>3, <5>1 DEF Agree, Running
      <4> QED BY <4>1, <4>2
    <3> QED BY <2>1, <2>4, <3>7 DEF Agree, Running
  <2> QED BY <2>5, <2>6
<1>6. CASE Report
  <2>1. Running("report") /\ UNCHANGED outbox /\ consumer'.pc = "poll"
        /\ (runs' = [runs EXCEPT ![consumer.run] = consumer.result] \/ runs' = runs)
    BY <1>6 DEF Report, Polling, Asleep
  <2>2. DOMAIN runs' = DOMAIN runs /\ \A k \in DOMAIN runs : k # consumer.run => runs'[k] = runs[k]
    BY <1>0, <2>1
  <2>3. ASSUME NEW t \in Told(outbox), t[1] = consumer.run PROVE runs'[t[1]] \in {"accepted", t[2]}
    BY <1>0, <2>1, <2>3 DEF Agree, Running
  <2> QED BY <2>1, <2>2, <2>3 DEF Agree, Running
<1> QED BY <1>2, <1>3, <1>4, <1>5, <1>6

\* A run cut short is told as failed, and reported no more.
LEMMA AgreeExit ==
    ASSUME Shape, Agree, Exit
    PROVE  Agree'
<1>1. UNCHANGED runs /\ consumer'.pc = "off"
      /\ \/ outbox' = outbox
         \/ Running("work") /\ consumer.story # NoMention /\ outbox' = Written(Line(3, "failed"))
  BY DEF Exit, Asleep
<1>2. CASE outbox' = outbox
  BY <1>1, <1>2, AgreeKept
<1>3. CASE Running("work") /\ consumer.story # NoMention /\ outbox' = Written(Line(3, "failed"))
  <2>1. Line(3, "failed") \in Row
    BY <1>3, LineIs DEF Line, Shape, ConsumerShape, Consumer, Endings
  <2>2. Line(3, "failed").run = consumer.run /\ Line(3, "failed").kind = "failed"
    BY DEF Line, Intent
  <2>3. Told(outbox') \subseteq Told(outbox) \cup {<<consumer.run, "failed">>}
    BY <1>3, <2>1, <2>2, ToldWritten
  <2>4. consumer.run \in DOMAIN runs /\ runs[consumer.run] = "accepted"
    <3>1. consumer.run \in Nat /\ runs \in Seq(Live \cup Endings)
      BY DEF Shape, ConsumerShape, DiskShape, Consumer
    <3> QED BY <1>3, <3>1 DEF Shape, ConsumerShape, Agree, Running
  <2>5. ASSUME NEW t \in Told(outbox')
        PROVE  t[1] \in DOMAIN runs /\ t[2] \in Endings /\ runs[t[1]] \in {"accepted", t[2]}
    <3>1. CASE t \in Told(outbox)
      BY <3>1 DEF Agree
    <3>2. CASE t \notin Told(outbox)
      <4>1. t[1] = consumer.run /\ t[2] = "failed"
        BY <2>3, <3>2
      <4> QED BY <2>4, <4>1 DEF Endings
    <3> QED BY <3>1, <3>2
  <2> QED BY <1>1, <2>5 DEF Agree, Running
<1> QED BY <1>1, <1>2, <1>3

\* What the room was told of a run's end is what RepoMesh recorded
\* (NarratingExecutor.execute).
THEOREM RoomAgreesCorrect == Spec => []RoomAgrees
<1>1. ASSUME Shape, Agree, [Next]_vars PROVE Agree'
  <2> USE <1>1 DEF Shape
  <2>1. CASE UNCHANGED vars
    BY <2>1 DEF vars, disk, Agree, Told, Running
  <2>2. CASE Deliver \/ RoomFails \/ Baseline \/ Sync \/ Commit \/ SkipSettled \/ Claim \/ Receipt
             \/ Settle \/ Post
    <3>1. UNCHANGED <<runs, outbox, consumer>>
      BY <2>2 DEF Deliver, RoomFails, Baseline, Sync, Commit, SkipSettled, Claim, Receipt, Settle,
                  Post, disk
    <3> QED BY <3>1, AgreeKept
  <2>3. CASE Acknowledge \/ Refuse
    <3>1. UNCHANGED <<runs, consumer>> /\ loop.pc \in {"send", "ack"}
          /\ \E state \in {"sent", "refused"} : outbox' = Marked(Offered, state)
      BY <2>3 DEF Acknowledge, Refuse, At
    <3> QED BY <3>1, ToldMarked, AgreeKept
  <2>4. CASE Respond \/ StartDeclined \/ NoReceipt \/ AnswerReceipt
    <3>1. /\ loop.pc \in InTurn /\ UNCHANGED <<runs, consumer>>
          /\ \E status \in Terminal \cup {"timeout"}, lane \in {"turn", "note", "run"},
                run \in 0..MaxRuns, kind \in {"text", "accepted"} :
                Conclude(status, lane, run, kind)
      <4>1. loop.run \in 0..MaxRuns
        BY DEF LoopShape, Loop
      <4>2. /\ loop.pc \in InTurn /\ UNCHANGED runs
            /\ \/ Conclude("completed", "turn", 0, "text")
               \/ \E status \in {"failed", "timeout"} : Conclude(status, "note", 0, "text")
               \/ Conclude("completed", "run", loop.run, "accepted")
        BY <2>4 DEF Respond, StartDeclined, NoReceipt, AnswerReceipt, Note, At, InTurn
      <4>3. \E status \in Terminal \cup {"timeout"}, lane \in {"turn", "note", "run"},
                run \in 0..MaxRuns, kind \in {"text", "accepted"} :
                Conclude(status, lane, run, kind)
        BY <4>1, <4>2 DEF Terminal
      <4>4. UNCHANGED consumer
        BY <4>3 DEF Conclude
      <4> QED BY <4>2, <4>3, <4>4
    <3>2. PICK lane \in {"turn", "note", "run"}, run \in 0..MaxRuns, kind \in {"text", "accepted"} :
             outbox' = Written(Intent(loop.mention, lane, 0, run, kind))
      BY <3>1 DEF Conclude
    <3>3. loop.mention \in Mentions
      BY <3>1 DEF LoopShape, Loop
    <3>4. Intent(loop.mention, lane, 0, run, kind) \in Row
          /\ Intent(loop.mention, lane, 0, run, kind).ordinal = 0
      BY <3>3 DEF Intent, Row
    <3>5. Told(outbox') = Told(outbox)
      BY <3>2, <3>4, ToldWritten
    <3> QED BY <3>1, <3>5, AgreeKept
  <2>5. CASE StartServed
    <3>1. UNCHANGED <<outbox, consumer>> /\ (runs' = runs \/ runs' = Append(runs, "queued"))
      BY <2>5 DEF StartServed, disk
    <3>2. CASE runs' = runs
      BY <3>1, <3>2, AgreeKept
    <3>3. CASE runs' = Append(runs, "queued")
      <4>1. DOMAIN runs \subseteq DOMAIN runs' /\ \A r \in DOMAIN runs : runs'[r] = runs[r]
        BY <3>3 DEF DiskShape
      <4>2. consumer.pc \in {"accept", "work", "report"} => consumer.run \in DOMAIN runs
        <5>1. consumer.run \in Nat /\ runs \in Seq(Live \cup Endings)
          BY DEF ConsumerShape, DiskShape, Consumer
        <5> QED BY <5>1 DEF ConsumerShape
      <4> QED BY <3>1, <4>1, <4>2 DEF Agree, Running
    <3> QED BY <3>1, <3>2, <3>3
  <2>6. CASE Start \/ Crash
    <3>1. UNCHANGED <<runs, outbox>> /\ consumer'.pc \in {"off", "poll"}
      BY <2>6 DEF Start, Crash, disk, Polling, Asleep
    <3> QED BY <3>1, AgreeKept
  <2>7. CASE Exit
    BY <2>7, AgreeExit
  <2>8. CASE Lease \/ Begin \/ AcceptFails \/ Work \/ Report
    BY <2>8, AgreeConsumer
  <2> QED BY <1>1, <2>1, <2>2, <2>3, <2>4, <2>5, <2>6, <2>7, <2>8
         DEF Next, LoopStep, ConsumerStep, Stop, Barred, AnchorClash
<1>2. Agree => RoomAgrees
  <2> SUFFICES ASSUME Agree, NEW i \in DOMAIN outbox, outbox[i].ordinal = 3,
                      runs[outbox[i].run] \in Endings
               PROVE  runs[outbox[i].run] = outbox[i].kind
    BY DEF RoomAgrees
  <2>1. <<outbox[i].run, outbox[i].kind>> \in Told(outbox)
    BY DEF Told, Last
  <2> QED BY <2>1 DEF Agree, Endings
<1> QED BY <1>1, <1>2, AgreeInit, ShapeAlways, PTL DEF Spec

-----------------------------------------------------------------------------
(* Nobody is ignored. *)

Handled(m) == m \in waived \/ HasRow(m) \/ Clashes(m)
InHand == loop.pc = "turn" \/ loop.mention # NoMention
Attended ==
    /\ \A m \in 1..cursor : Handled(m)
    /\ InHand => \A m \in 1..loop.upto : Handled(m) \/ m \in loop.todo \/ m = loop.mention
    /\ \A m \in Mentions : ledger[m] \in Terminal => HasRow(m) \/ Clashes(m)
    /\ loop.mention # NoMention /\ loop.pc \in {"send", "ack", "settle"} => HasRow(loop.mention)

LEMMA AttendedInit == Init => Attended
  BY DEF Init, Attended, InHand, NoCursor, NoMention, Off, Terminal

\* A message, a run or an anchor is never taken back.
LEMMA ClashesStay ==
    ASSUME Shape, Next, NEW m, Clashes(m)
    PROVE  Clashes(m)'
<1> USE DEF Shape
<1>0. PICK r \in DOMAIN runs : anchors[r] \notin {NoMention, m}
  BY DEF Clashes
<1>1. /\ m \in Posted /\ timeline[m] = "command" /\ runs \in Seq(Live \cup Endings)
      /\ r \in 1..MaxRuns
  BY <1>0 DEF Clashes, DiskShape
<1>2. CASE Post
  <2>1. m \in Posted' /\ timeline'[m] = timeline[m]
    BY <1>1, <1>2 DEF Post, Posted, DiskShape
  <2>2. UNCHANGED <<runs, anchors>>
    BY <1>2 DEF Post, disk
  <2> QED BY <1>0, <1>1, <2>1, <2>2 DEF Clashes
<1>3. CASE Receipt
  <2>1. UNCHANGED <<timeline, runs>>
    BY <1>3 DEF Receipt
  <2>2. /\ anchors[loop.run] \in {NoMention, loop.mention}
        /\ anchors' = [anchors EXCEPT ![loop.run] = loop.mention]
    BY <1>3 DEF Receipt
  <2>3. anchors'[r] = anchors[r]
    <3>1. CASE r = loop.run
      <4>1. anchors[r] = loop.mention
        BY <1>0, <2>2, <3>1
      <4> QED BY <1>1, <2>2, <3>1, <4>1 DEF DiskShape
    <3>2. CASE r # loop.run
      BY <1>1, <2>2, <3>2 DEF DiskShape
    <3> QED BY <3>1, <3>2
  <2> QED BY <1>0, <1>1, <2>1, <2>3 DEF Clashes, Posted
<1>4. CASE UNCHANGED <<timeline, anchors>> /\ r \in DOMAIN runs'
  BY <1>0, <1>1, <1>4 DEF Clashes, Posted
<1>5. CASE StartServed
  <2>1. UNCHANGED <<timeline, anchors>> /\ (runs' = runs \/ runs' = Append(runs, "queued"))
    BY <1>5 DEF StartServed, disk
  <2> QED BY <1>0, <1>1, <1>4, <2>1
<1>6. CASE Lease \/ Begin \/ AcceptFails \/ Report
  <2>1. UNCHANGED <<timeline, anchors>> /\ DOMAIN runs' = DOMAIN runs
    BY <1>1, <1>6 DEF Lease, Begin, AcceptFails, Report, disk
  <2> QED BY <1>0, <1>4, <2>1
<1>7. CASE \/ Deliver \/ Acknowledge \/ Refuse \/ RoomFails \/ Baseline \/ Sync \/ Commit
           \/ SkipSettled \/ Claim \/ Respond \/ StartDeclined \/ NoReceipt \/ AnswerReceipt
           \/ Settle \/ Work \/ Start \/ Exit \/ Crash
  BY <1>0, <1>4, <1>7
     DEF Deliver, Acknowledge, Refuse, RoomFails, Baseline, Sync, Commit, SkipSettled, Claim,
         Respond, StartDeclined, NoReceipt, AnswerReceipt, Note, Conclude, Settle, Work, Start,
         Exit, Crash, disk
<1> QED BY <1>2, <1>3, <1>5, <1>6, <1>7
         DEF Next, LoopStep, ConsumerStep, Stop, Barred, AnchorClash

\* A row is never taken back.
LEMMA RowsStay ==
    ASSUME Shape, Next, NEW m, HasRow(m)
    PROVE  HasRow(m)'
<1>1. PICK i \in DOMAIN outbox : outbox[i].mention = m
  BY DEF HasRow
<1>2. CASE Acknowledge \/ Refuse
  <2>1. loop.pc \in {"send", "ack"}
        /\ \E state \in {"sent", "refused"} : outbox' = Marked(Offered, state)
    BY <1>2 DEF Acknowledge, Refuse, At
  <2>2. Offered \in DOMAIN outbox
    BY <2>1, OfferedIs DEF Shape, LoopShape
  <2>3. i \in DOMAIN outbox' /\ outbox'[i].mention = m
    BY <1>1, <2>1, <2>2, MarkedIs DEF Shape, DiskShape, Kept
  <2> QED BY <2>3 DEF HasRow
<1>3. CASE ~ Acknowledge /\ ~ Refuse
  <2>1. Added(outbox')
    <3>1. CASE Deliver
      BY <3>1 DEF Deliver, disk, Added
    <3>2. CASE ~ Deliver
      BY <1>3, <3>2, QuietStep
    <3> QED BY <3>1, <3>2
  <2>2. CASE outbox' = outbox
    BY <1>1, <2>2 DEF HasRow
  <2>3. CASE outbox' # outbox
    <3>1. PICK row \in Row : outbox' = Written(row)
      BY <2>1, <2>3 DEF Added
    <3>2. i \in DOMAIN Written(row) /\ Written(row)[i] = outbox[i]
      BY <1>1, WrittenIs DEF Shape, DiskShape
    <3> QED BY <1>1, <3>1, <3>2 DEF HasRow
  <2> QED BY <2>2, <2>3
<1> QED BY <1>2, <1>3

\* The cursor stays, and what leaves the round in hand is handled.
LEMMA AttendedKept ==
    ASSUME Shape, Attended, Next, UNCHANGED cursor, waived \subseteq waived',
           \A m \in Mentions : ledger'[m] \in Terminal => ledger[m] \in Terminal \/ HasRow(m)' \/ Clashes(m)',
           \/ ~ InHand'
           \/ /\ InHand /\ loop'.upto = loop.upto
              /\ \A m \in 1..loop.upto : m \in loop.todo \/ m = loop.mention
                                         => Handled(m)' \/ m \in loop'.todo \/ m = loop'.mention,
           (loop.mention # NoMention /\ loop.pc \in {"send", "ack", "settle"} => HasRow(loop.mention))'
    PROVE  Attended'
<1>1. \A m : Handled(m) => Handled(m)'
  BY RowsStay, ClashesStay DEF Handled
<1>2. (\A m \in 1..cursor : Handled(m))'
  BY <1>1 DEF Attended
<1>3. InHand' => \A m \in 1..loop'.upto : Handled(m)' \/ m \in loop'.todo \/ m = loop'.mention
  BY <1>1 DEF Attended
<1>4. \A m \in Mentions : ledger'[m] \in Terminal => HasRow(m)' \/ Clashes(m)'
  BY RowsStay, ClashesStay DEF Attended
<1> HIDE DEF InHand, Handled
<1> QED BY <1>2, <1>3, <1>4 DEF Attended

\* What a sync brings is in hand: cut from the timeline, in the batch, or seen before.
LEMMA AttendedSync ==
    ASSUME Shape, Attended, Sync
    PROVE  Attended'
<1>1. UNCHANGED <<timeline, room, runs, disk, consumer, turns>> /\ At("sync") /\ cursor # NoCursor
  BY DEF Sync
<1>2. PICK from \in cursor..Len(timeline), again \in {<<>>} \cup {<<m>> : m \in 1..cursor} :
         LET batch == again \o Since(from)
             todo == {m \in Elements(batch) : m \notin Elements(seen)}
         IN  /\ waived' = waived \cup (cursor + 1)..from
             /\ loop' = IF batch = <<>> /\ from = cursor THEN NewRound(outbox)
                        ELSE [loop EXCEPT !.pc = "turn", !.batch = batch, !.todo = todo,
                                          !.upto = Len(timeline)]
  BY DEF Sync
<1> DEFINE batch == again \o Since(from)
           todo == {m \in Elements(batch) : m \notin Elements(seen)}
<1>3. cursor \in 0..Len(timeline) /\ Len(timeline) \in Nat /\ from \in Nat
      /\ cursor <= from /\ from <= Len(timeline) /\ seen \in Seq(1..cursor) /\ loop \in Loop
      /\ loop.mention = NoMention
  BY <1>1 DEF Shape, DiskShape, LoopShape, At
<1>4. UNCHANGED <<cursor, ledger>> /\ \A m : HasRow(m)' = HasRow(m) /\ Clashes(m)' = Clashes(m)
  BY <1>1 DEF disk, HasRow, Clashes, Posted
<1>5. waived \subseteq waived' /\ (cursor + 1)..from \subseteq waived'
  BY <1>2
<1>6. \A m : Handled(m) => Handled(m)'
  BY <1>4, <1>5 DEF Handled
<1>7. CASE loop' = NewRound(outbox)
  <2>1. loop'.mention = NoMention /\ loop'.pc # "turn"
    <3>1. Owed(outbox) \in SUBSET Nat
      BY DEF Owed, Shape, DiskShape
    <3> QED BY <1>7, <3>1, NewRoundIs, OffIs, DrainIs DEF NewRound
  <2>2. ~ InHand'
    BY <2>1 DEF InHand
  <2> HIDE DEF Handled, HasRow, Clashes, InHand
  <2> QED BY <1>4, <1>6, <2>1, <2>2 DEF Attended
<1>8. CASE loop' = [loop EXCEPT !.pc = "turn", !.batch = batch, !.todo = todo, !.upto = Len(timeline)]
  <2>1. loop'.pc = "turn" /\ loop'.todo = todo /\ loop'.upto = Len(timeline)
        /\ loop'.mention = NoMention
    BY <1>3, <1>8 DEF Loop
  <2>2. ASSUME NEW m \in (from + 1)..Len(timeline) PROVE m \in todo
    <3>1. again \in Seq(Int)
      <4>1. \A k \in 1..cursor : <<k>> \in Seq(Int)
        BY <1>3
      <4>2. <<>> \in Seq(Int)
        OBVIOUS
      <4> QED BY <4>1, <4>2
    <3>2. Since(from) \in Seq(Int) /\ Len(Since(from)) = Len(timeline) - from
          /\ \A i \in 1..(Len(timeline) - from) : Since(from)[i] = from + i
      BY <1>3 DEF Since
    <3>3. m - from \in 1..Len(Since(from)) /\ Since(from)[m - from] = m
      BY <1>3, <3>2
    <3>4. batch[Len(again) + (m - from)] = m /\ Len(again) + (m - from) \in DOMAIN batch
      <4> HIDE DEF Since
      <4> QED BY <3>1, <3>2, <3>3
    <3>5. m \in Elements(batch)
      BY <3>4 DEF Elements
    <3>6. m \notin Elements(seen)
      <4>1. \A i \in DOMAIN seen : seen[i] \in 1..cursor
        BY <1>3
      <4> QED BY <1>3, <4>1 DEF Elements
    <3> QED BY <3>5, <3>6
  <2>3. ASSUME NEW m \in 1..Len(timeline) PROVE Handled(m)' \/ m \in todo
    <3>1. CASE m \in 1..cursor
      BY <1>6, <3>1 DEF Attended
    <3>2. CASE m \in (cursor + 1)..from
      BY <1>5, <3>2 DEF Handled
    <3>3. CASE m \in (from + 1)..Len(timeline)
      BY <2>2, <3>3
    <3> QED BY <1>3, <3>1, <3>2, <3>3
  <2> HIDE DEF Handled, HasRow, Clashes, todo
  <2> QED BY <1>4, <1>6, <2>1, <2>3 DEF Attended, InHand
<1> QED BY <1>2, <1>7, <1>8

\* A mention behind the cursor has an answer in the outbox, or is the second one of a live
\* run (Inbox.commit, supervisor._run_turn).
THEOREM NobodyIgnoredCorrect == Spec => []NobodyIgnored
<1>1. ASSUME Shape, Attended, [Next]_vars PROVE Attended'
  <2> USE <1>1 DEF Shape
  <2>0. /\ loop \in Loop /\ ledger \in [Mentions -> {"none", "in_flight", "interrupted"} \cup Terminal]
        /\ \A m \in Mentions : m # NoMention
    BY DEF LoopShape, DiskShape, Mentions, NoMention
  <2>1. CASE UNCHANGED vars
    BY <2>1 DEF vars, disk, Attended, InHand, Handled, HasRow, Clashes, Posted
  <2>2. ASSUME Next, UNCHANGED <<cursor, ledger>>, waived' = waived, loop' = loop PROVE Attended'
    <3>1. (loop.mention # NoMention /\ loop.pc \in {"send", "ack", "settle"} => HasRow(loop.mention))'
      BY <2>2, RowsStay DEF Attended
    <3>2. \/ ~ InHand'
          \/ /\ InHand /\ loop'.upto = loop.upto
             /\ \A m \in 1..loop.upto : m \in loop.todo \/ m = loop.mention
                                        => Handled(m)' \/ m \in loop'.todo \/ m = loop'.mention
      BY <2>2 DEF InHand
    <3> QED BY <2>2, <3>1, <3>2, AttendedKept
  <2>3. ASSUME Next, UNCHANGED cursor, waived' = waived, loop'.mention = NoMention, loop'.pc # "turn",
               \A m \in Mentions : ledger'[m] \in Terminal
                                   => ledger[m] \in Terminal \/ HasRow(m)' \/ Clashes(m)'
        PROVE  Attended'
    <3>1. ~ InHand'
      BY <2>3 DEF InHand
    <3> QED BY <2>3, <3>1, AttendedKept
  <2>4. \A rows : Owed(rows) \in SUBSET Nat => NewRound(rows).mention = NoMention /\ NewRound(rows).pc # "turn"
    BY OffIs, DrainIs, NewRoundIs DEF NewRound
  <2>5. Owed(outbox) \in SUBSET Nat
    BY DEF Owed, DiskShape
  <2>6. CASE Deliver \/ Acknowledge \/ Refuse
    <3>1. Next /\ UNCHANGED <<cursor, ledger>> /\ waived' = waived /\ loop.pc \in {"send", "ack"}
      BY <2>6 DEF Next, LoopStep, Deliver, Acknowledge, Refuse, disk, At
    <3>2. /\ loop'.mention = loop.mention /\ loop'.todo = loop.todo /\ loop'.upto = loop.upto
          /\ loop'.pc \in {"send", "ack", "sync", "settle"}
      <4>1. loop.queue \ {Offered} \in SUBSET Nat
        BY <2>0 DEF Loop
      <4> QED BY <2>0, <2>6, <4>1, DrainIs DEF Deliver, Acknowledge, Refuse, Loop
    <3>3. (loop.mention # NoMention /\ loop.pc \in {"send", "ack", "settle"} => HasRow(loop.mention))'
      BY <3>1, <3>2, RowsStay DEF Attended
    <3> QED BY <3>1, <3>2, <3>3, AttendedKept DEF InHand
  <2>7. CASE RoomFails
    <3>1. Next /\ UNCHANGED <<cursor, ledger>> /\ waived' = waived
          /\ loop.pc \in {"send", "sync", "ack"} /\ loop' = InTrouble(loop)
      BY <2>7 DEF Next, LoopStep, RoomFails, disk, At
    <3>2. CASE loop.mention = NoMention
      BY <2>3, <2>4, <2>5, <3>1, <3>2 DEF InTrouble
    <3>3. CASE loop.mention # NoMention
      <4>1. /\ loop'.mention = loop.mention /\ loop'.todo = loop.todo /\ loop'.upto = loop.upto
            /\ loop'.pc = "settle" /\ loop.pc # "sync"
        BY <2>0, <3>1, <3>3 DEF InTrouble, Loop, LoopShape
      <4>2. (loop.mention # NoMention /\ loop.pc \in {"send", "ack", "settle"} => HasRow(loop.mention))'
        BY <3>1, <4>1, RowsStay DEF Attended
      <4> QED BY <3>1, <3>3, <4>1, <4>2, AttendedKept DEF InHand
    <3> QED BY <3>2, <3>3
  <2>8. CASE Baseline
    <3>1. /\ Next /\ waived' = Posted /\ cursor' = Len(timeline) /\ loop' = NewRound(outbox)
          /\ UNCHANGED ledger
      BY <2>8 DEF Next, LoopStep, Baseline
    <3>2. ~ InHand' /\ loop'.mention = NoMention
      BY <2>4, <2>5, <3>1 DEF InHand
    <3>3. \A m \in 1..cursor' : m \in waived'
      BY <3>1 DEF Posted, DiskShape
    <3>4. \A m \in Mentions : ledger'[m] \in Terminal => HasRow(m)' \/ Clashes(m)'
      BY <3>1, RowsStay, ClashesStay DEF Attended
    <3> QED BY <3>2, <3>3, <3>4 DEF Attended, Handled
  <2>9. CASE Sync
    BY <2>9, AttendedSync
  <2>10. CASE Commit
    <3>1. /\ Next /\ waived' = waived /\ cursor' = loop.upto /\ loop' = NewRound(outbox)
          /\ UNCHANGED ledger /\ loop.pc = "turn" /\ loop.todo = {}
      BY <2>10 DEF Next, LoopStep, Commit, At
    <3>2. ~ InHand' /\ loop'.mention = NoMention
      BY <2>4, <2>5, <3>1 DEF InHand
    <3>3. \A m \in 1..cursor' : Handled(m)
      <4>1. \A m \in 1..loop.upto : m # NoMention
        BY <2>0 DEF NoMention, Loop
      <4> QED BY <3>1, <4>1 DEF Attended, InHand, LoopShape
    <3>4. \A m : Handled(m) => Handled(m)'
      BY <3>1, RowsStay, ClashesStay DEF Handled
    <3>5. \A m \in Mentions : ledger'[m] \in Terminal => HasRow(m)' \/ Clashes(m)'
      BY <3>1, RowsStay, ClashesStay DEF Attended
    <3> QED BY <3>2, <3>3, <3>4, <3>5 DEF Attended
  <2>11. CASE SkipSettled
    <3>1. /\ Next /\ UNCHANGED <<cursor, ledger>> /\ waived' = waived /\ loop.pc = "turn"
          /\ loop.todo # {} /\ ledger[Upcoming] \in Terminal
          /\ loop' = [loop EXCEPT !.todo = @ \ {Upcoming}]
      BY <2>11 DEF Next, LoopStep, SkipSettled, disk, At
    <3>2. Upcoming \in Mentions
      BY <3>1, UpcomingIs
    <3>3. /\ loop'.mention = loop.mention /\ loop'.todo = loop.todo \ {Upcoming}
          /\ loop'.upto = loop.upto /\ loop'.pc = "turn"
      BY <2>0, <3>1 DEF Loop
    <3>4. ASSUME NEW m, m = Upcoming PROVE Handled(m)'
      BY <3>1, <3>2, <3>4, RowsStay, ClashesStay DEF Attended, Handled
    <3> QED BY <3>1, <3>3, <3>4, AttendedKept DEF InHand
  <2>12. CASE Claim
    <3>1. /\ Next /\ UNCHANGED cursor /\ waived' = waived /\ loop.pc = "turn" /\ loop.todo # {}
          /\ ledger' = [ledger EXCEPT ![Upcoming] = "in_flight"]
          /\ loop' = [loop EXCEPT !.todo = @ \ {Upcoming}, !.mention = Upcoming,
                            !.pc = IF timeline[Upcoming] = "talk" THEN "respond" ELSE "start"]
      BY <2>12 DEF Next, LoopStep, Claim, At
    <3>2. Upcoming \in Mentions
      BY <3>1, UpcomingIs
    <3>3. /\ loop'.mention = Upcoming /\ loop'.todo = loop.todo \ {Upcoming}
          /\ loop'.upto = loop.upto /\ loop'.pc \in {"respond", "start"}
      BY <2>0, <3>1, <3>2 DEF Loop
    <3>4. \A m \in Mentions : ledger'[m] \in Terminal => ledger[m] \in Terminal
      BY <2>0, <3>1, <3>2 DEF Terminal
    <3>5. loop.mention = NoMention /\ \A m \in 1..loop.upto : m # NoMention
      BY <2>0, <3>1 DEF LoopShape, NoMention, Loop
    <3> QED BY <3>1, <3>3, <3>4, <3>5, AttendedKept DEF InHand
  <2>13. CASE Respond \/ StartDeclined \/ NoReceipt \/ AnswerReceipt
    <3>1. /\ Next /\ UNCHANGED <<cursor, ledger>> /\ waived' = waived /\ loop.pc \in InTurn
          /\ \E status \in Terminal \cup {"timeout"}, lane \in {"turn", "note", "run"},
                run \in 0..MaxRuns, kind \in {"text", "accepted"} :
                Conclude(status, lane, run, kind)
      <4>1. loop.run \in 0..MaxRuns
        BY DEF LoopShape, Loop
      <4>2. /\ Next /\ loop.pc \in InTurn
            /\ \/ Conclude("completed", "turn", 0, "text")
               \/ \E status \in {"failed", "timeout"} : Conclude(status, "note", 0, "text")
               \/ Conclude("completed", "run", loop.run, "accepted")
        BY <2>13 DEF Next, LoopStep, Respond, StartDeclined, NoReceipt, AnswerReceipt, Note, At, InTurn
      <4>3. \E status \in Terminal \cup {"timeout"}, lane \in {"turn", "note", "run"},
                run \in 0..MaxRuns, kind \in {"text", "accepted"} :
                Conclude(status, lane, run, kind)
        BY <4>1, <4>2 DEF Terminal
      <4>4. UNCHANGED <<cursor, ledger>> /\ waived' = waived
        BY <4>3 DEF Conclude
      <4> QED BY <4>2, <4>3, <4>4
    <3>2. PICK status \in Terminal \cup {"timeout"}, lane \in {"turn", "note", "run"},
             run \in 0..MaxRuns, kind \in {"text", "accepted"} :
             Conclude(status, lane, run, kind)
      BY <3>1
    <3> DEFINE row == Intent(loop.mention, lane, 0, run, kind)
               l == [loop EXCEPT !.status = status, !.run = 0]
    <3>3. outbox' = Written(row) /\ loop' = Drain(l, Owed(outbox'))
      BY <3>2 DEF Conclude
    <3>4. loop.mention \in Mentions /\ loop.mention # NoMention
      BY <3>1 DEF LoopShape, Loop
    <3>5. row \in Row /\ row.mention = loop.mention
      BY <3>4 DEF Intent, Row
    <3>6. \E i \in DOMAIN outbox' : outbox'[i].mention = loop.mention
      <4> HIDE DEF row
      <4>1. \E i \in DOMAIN Written(row) : SamePlace(Written(row)[i], row)
        BY <3>5, WrittenIs DEF DiskShape
      <4> QED BY <3>3, <3>5, <4>1 DEF SamePlace, HasRow
    <3>7. /\ loop'.mention = loop.mention /\ loop'.todo = loop.todo /\ loop'.upto = loop.upto
      <4>1. l \in Loop
        <5>1. loop \in Loop /\ 0 \in 0..MaxRuns
          BY <2>0
        <5> HIDE DEF Shape
        <5> QED BY <5>1 DEF Loop
      <4>2. Owed(outbox') \in SUBSET Nat
        <5>1. Shape'
          BY <1>1, ShapeStep
        <5> QED BY <5>1 DEF Owed, DiskShape
      <4>3. l.mention = loop.mention /\ l.todo = loop.todo /\ l.upto = loop.upto
        BY <2>0 DEF Loop
      <4> HIDE DEF l
      <4> QED BY <3>3, <4>1, <4>2, <4>3, DrainIs
    <3>8. (loop.mention # NoMention /\ loop.pc \in {"send", "ack", "settle"} => HasRow(loop.mention))'
      BY <3>6, <3>7 DEF HasRow
    <3> HIDE DEF row, l
    <3> QED BY <3>1, <3>4, <3>7, <3>8, AttendedKept DEF InHand
  <2>14. CASE StartServed \/ Receipt
    <3>1. /\ Next /\ UNCHANGED <<cursor, ledger>> /\ waived' = waived
          /\ loop'.mention = loop.mention /\ loop'.todo = loop.todo /\ loop'.upto = loop.upto
          /\ loop'.pc \in {"receipt", "anchored"} /\ loop.mention # NoMention
      BY <2>0, <2>14 DEF Next, LoopStep, StartServed, Receipt, disk, Loop, LoopShape, InTurn, At
    <3> QED BY <3>1, AttendedKept DEF InHand
  <2>15. CASE Settle
    <3>1. /\ Next /\ UNCHANGED cursor /\ waived' = waived /\ loop.pc = "settle" /\ outbox' = outbox
          /\ ledger' = [ledger EXCEPT ![loop.mention] = IF loop.status = "timeout" THEN "none"
                                                         ELSE loop.status]
      BY <2>15 DEF Next, LoopStep, Settle, At
    <3>2. loop.mention \in Mentions /\ loop.mention # NoMention
      BY <2>0, <3>1 DEF LoopShape, InTurn, Loop
    <3>3. HasRow(loop.mention)
      BY <3>1, <3>2 DEF Attended
    <3>4. \E i \in DOMAIN outbox' : outbox'[i].mention = loop.mention
      BY <3>1, <3>3 DEF HasRow
    <3>5. \A m \in Mentions : ledger'[m] \in Terminal => ledger[m] \in Terminal \/ HasRow(m)' \/ Clashes(m)'
      BY <2>0, <3>1, <3>4 DEF HasRow
    <3>6. CASE loop.raised
      BY <2>3, <2>4, <2>5, <2>15, <3>1, <3>5, <3>6 DEF Settle
    <3>7. CASE ~ loop.raised
      <4>1. /\ loop'.mention = NoMention /\ loop'.todo = loop.todo /\ loop'.upto = loop.upto
            /\ loop'.pc = "turn"
        BY <2>0, <2>15, <3>7 DEF Settle, Loop
      <4>2. ASSUME NEW m, m = loop.mention PROVE Handled(m)'
        BY <3>4, <4>2 DEF Handled, HasRow
      <4> QED BY <3>1, <3>2, <3>5, <4>1, <4>2, AttendedKept DEF InHand
    <3> QED BY <3>6, <3>7
  <2>16. CASE Stop \/ Barred
    <3>1. UNCHANGED cursor /\ waived' = waived /\ loop'.mention = NoMention /\ loop'.pc # "turn"
      BY <2>16 DEF Stop, Barred, Exit, Off
    <3>2. \A m \in Mentions : ledger'[m] \in Terminal => ledger[m] \in Terminal
      BY <2>0, <2>16 DEF Stop, Barred, Terminal
    <3> QED BY <2>3, <2>16, <3>1, <3>2 DEF Next
  <2>17. CASE AnchorClash
    <3>1. /\ Next /\ UNCHANGED cursor /\ waived' = waived /\ loop'.mention = NoMention
          /\ loop'.pc # "turn" /\ loop.pc = "receipt"
          /\ anchors[loop.run] \notin {NoMention, loop.mention}
          /\ ledger' = [ledger EXCEPT ![loop.mention] = "failed"]
          /\ UNCHANGED <<timeline, runs, anchors>>
      BY <2>17 DEF Next, LoopStep, AnchorClash, Exit, Off, At
    <3>2. /\ loop.mention \in Posted /\ timeline[loop.mention] = "command"
          /\ loop.run \in DOMAIN runs
      <4>1. loop.run \in Nat /\ loop.run # 0 /\ loop.run <= Len(runs) /\ runs \in Seq(Live \cup Endings)
        BY <2>0, <3>1 DEF LoopShape, DiskShape, Loop
      <4> QED BY <3>1, <4>1 DEF LoopShape, InTurn, Starting
    <3>3. ASSUME NEW m \in Mentions, ledger'[m] \in Terminal
          PROVE  ledger[m] \in Terminal \/ HasRow(m)' \/ Clashes(m)'
      <4>1. CASE m = loop.mention
        <5>1. Clashes(m)
          BY <3>1, <3>2, <4>1 DEF Clashes
        <5> QED BY <3>1, <5>1, ClashesStay
      <4>2. CASE m # loop.mention
        BY <2>0, <3>1, <3>3, <4>2
      <4> QED BY <4>1, <4>2
    <3> QED BY <2>3, <3>1, <3>3
  <2>18. CASE Start \/ Crash
    <3>1. Next /\ UNCHANGED <<cursor, ledger>> /\ waived' = waived
          /\ loop'.mention = NoMention /\ loop'.pc # "turn"
      BY <2>4, <2>5, <2>18 DEF Next, Start, Crash, disk, Off
    <3> QED BY <2>3, <3>1
  <2>19. CASE Post \/ ConsumerStep
    <3>1. Next /\ UNCHANGED <<cursor, ledger>> /\ waived' = waived /\ loop' = loop
      BY <2>19 DEF Next, Post, ConsumerStep, Lease, Begin, AcceptFails, Work, Report, disk
    <3> QED BY <2>2, <3>1
  <2> QED BY <1>1, <2>1, <2>6, <2>7, <2>8, <2>9, <2>10, <2>11, <2>12, <2>13, <2>14, <2>15, <2>16,
             <2>17, <2>18, <2>19 DEF Next, LoopStep
<1>2. Attended => NobodyIgnored
  BY DEF Attended, NobodyIgnored, Handled
<1> QED BY <1>1, <1>2, AttendedInit, ShapeAlways, PTL DEF Spec

-----------------------------------------------------------------------------
(* The conversation of a mention tells its run in order. *)

\* Row i is line o of the story told to m.
Tells(i, m, o) ==
    /\ i \in DOMAIN outbox /\ outbox[i].mention = m
    /\ outbox[i].lane = "run" /\ outbox[i].ordinal = o

\* A place is taken once; a line is told to the mention its run is anchored at; nothing
\* ends that has not started, and without a crash nothing starts that was not accepted.
Conversation ==
    /\ \A i, j \in DOMAIN outbox : SamePlace(outbox[i], outbox[j]) => i = j
    /\ \A i \in DOMAIN outbox : outbox[i].lane = "run" =>
          /\ outbox[i].ordinal \in {0, 1, 3} /\ outbox[i].run \in 1..MaxRuns
          /\ anchors[outbox[i].run] = outbox[i].mention
    /\ \A j, m : Tells(j, m, 3) => \E i : i < j /\ Tells(i, m, 1)
    /\ "crash" \notin trouble => \A j, m : Tells(j, m, 1) => \E i : i < j /\ Tells(i, m, 0)
\* A run at work has been told to start, and an anchor has its first line, or is about to.
Tellers ==
    /\ Running("work") /\ consumer.story # NoMention => \E i : Tells(i, consumer.story, 1)
    /\ "crash" \notin trouble =>
          \A r \in 1..MaxRuns : anchors[r] # NoMention =>
             (At("anchored") /\ loop.run = r) \/ \E i : Tells(i, anchors[r], 0)
Story == Conversation /\ Tellers

LEMMA StoryInit == Init => Story
<1> SUFFICES ASSUME Init PROVE Story
  OBVIOUS
<1>1. outbox = << >> /\ consumer = Asleep /\ \A r \in 1..MaxRuns : anchors[r] = NoMention
  BY DEF Init
<1>2. \A i, m, o : ~ Tells(i, m, o)
  BY <1>1 DEF Tells
<1> QED BY <1>1, <1>2 DEF Story, Conversation, Tellers, Asleep, Running

\* The rows keep their messages, the anchors stand and no run goes to work.
LEMMA StoryQuiet ==
    ASSUME Shape, Story, DOMAIN outbox' = DOMAIN outbox,
           \A i \in DOMAIN outbox : Kept(outbox'[i], outbox[i]),
           UNCHANGED anchors, trouble \subseteq trouble',
           UNCHANGED consumer \/ consumer'.pc # "work" \/ consumer'.story = NoMention,
           UNCHANGED loop \/ ~ At("anchored") \/ "crash" \in trouble'
    PROVE  Story'
<1>1. \A i, m, o : Tells(i, m, o)' <=> Tells(i, m, o)
  BY DEF Tells, Kept
<1>2. Conversation'
  <2>1. \A i, j \in DOMAIN outbox' : SamePlace(outbox'[i], outbox'[j]) => i = j
    BY DEF Kept, SamePlace, Story, Conversation
  <2>2. \A i \in DOMAIN outbox' : outbox'[i].lane = "run" =>
          /\ outbox'[i].ordinal \in {0, 1, 3} /\ outbox'[i].run \in 1..MaxRuns
          /\ anchors'[outbox'[i].run] = outbox'[i].mention
    BY DEF Kept, Story, Conversation
  <2>3. \A j, m : Tells(j, m, 3)' => \E i : i < j /\ Tells(i, m, 1)'
    BY <1>1 DEF Story, Conversation
  <2>4. "crash" \notin trouble' => \A j, m : Tells(j, m, 1)' => \E i : i < j /\ Tells(i, m, 0)'
    BY <1>1 DEF Story, Conversation
  <2> QED BY <2>1, <2>2, <2>3, <2>4 DEF Conversation, SamePlace
<1>3. Tellers'
  <2>1. Running("work")' /\ consumer'.story # NoMention => \E i : Tells(i, consumer.story, 1)'
    BY <1>1 DEF Story, Tellers, Running, NoMention
  <2>2. Running("work")' /\ consumer'.story # NoMention => UNCHANGED consumer
    BY DEF Running
  <2>3. ASSUME "crash" \notin trouble', NEW r \in 1..MaxRuns, anchors'[r] # NoMention
        PROVE  (At("anchored")' /\ loop'.run = r) \/ \E i : Tells(i, anchors[r], 0)'
    BY <1>1, <2>3 DEF Story, Tellers, At
  <2> QED BY <2>1, <2>2, <2>3 DEF Tellers, Tells
<1> QED BY <1>2, <1>3 DEF Story

\* A line is added in its turn.
LEMMA StoryWritten ==
    ASSUME Shape, Conversation, UNCHANGED anchors, trouble \subseteq trouble',
           NEW row \in Row, outbox' = Written(row),
           row.lane = "run" =>
              /\ row.ordinal \in {0, 1, 3} /\ row.run \in 1..MaxRuns
              /\ anchors[row.run] = row.mention
              /\ row.ordinal = 3 => \E i : Tells(i, row.mention, 1)
              /\ row.ordinal = 1 /\ "crash" \notin trouble => \E i : Tells(i, row.mention, 0)
    PROVE  /\ Conversation'
           /\ \A i, m, o : Tells(i, m, o) => Tells(i, m, o)'
           /\ row.lane = "run" => \E i : Tells(i, row.mention, row.ordinal)'
<1>0. outbox \in Seq(Row)
  BY DEF Shape, DiskShape
<1>1. /\ outbox \in Seq(Row)
      /\ \A i \in DOMAIN outbox : i \in DOMAIN outbox' /\ outbox'[i] = outbox[i]
      /\ \A i \in DOMAIN outbox' \ DOMAIN outbox :
            i = Len(outbox) + 1 /\ outbox'[i] = row
            /\ \A k \in DOMAIN outbox : ~ SamePlace(outbox[k], row)
      /\ \E i \in DOMAIN outbox' : SamePlace(outbox'[i], row)
  <2>1. /\ \A i \in DOMAIN outbox : i \in DOMAIN Written(row) /\ Written(row)[i] = outbox[i]
        /\ \A i \in DOMAIN Written(row) \ DOMAIN outbox :
              i = Len(outbox) + 1 /\ Written(row)[i] = row
              /\ \A k \in DOMAIN outbox : ~ SamePlace(outbox[k], row)
        /\ \E i \in DOMAIN Written(row) : SamePlace(Written(row)[i], row)
    BY <1>0, WrittenIs
  <2> HIDE DEF SamePlace
  <2> QED BY <1>0, <2>1
<1>2. \A i, m, o : Tells(i, m, o) => Tells(i, m, o)'
  BY <1>1 DEF Tells
<1>3. ASSUME NEW j, NEW m, NEW o, Tells(j, m, o)', ~ Tells(j, m, o)
      PROVE  /\ j = Len(outbox) + 1 /\ row.lane = "run" /\ row.mention = m /\ row.ordinal = o
             /\ \A k \in DOMAIN outbox : k < j
  <2>1. j \in DOMAIN outbox' \ DOMAIN outbox
    BY <1>1, <1>3 DEF Tells
  <2>2. outbox'[j] = row /\ j = Len(outbox) + 1
    BY <1>1, <2>1
  <2>3. \A k \in DOMAIN outbox : k < j
    BY <1>1, <2>2
  <2> QED BY <1>3, <2>2, <2>3 DEF Tells
<1>4. ASSUME NEW i \in DOMAIN outbox', NEW j \in DOMAIN outbox', SamePlace(outbox'[i], outbox'[j])
      PROVE  i = j
  <2>1. CASE i \in DOMAIN outbox /\ j \in DOMAIN outbox
    BY <1>1, <1>4, <2>1 DEF Conversation
  <2>2. CASE i \notin DOMAIN outbox /\ j \notin DOMAIN outbox
    BY <1>1, <2>2
  <2>3. CASE i \in DOMAIN outbox /\ j \notin DOMAIN outbox
    BY <1>1, <1>4, <2>3
  <2>4. CASE i \notin DOMAIN outbox /\ j \in DOMAIN outbox
    <3>1. SamePlace(outbox'[j], outbox'[i])
      BY <1>4 DEF SamePlace
    <3> QED BY <1>1, <2>4, <3>1
  <2> QED BY <2>1, <2>2, <2>3, <2>4
<1>5. ASSUME NEW i \in DOMAIN outbox', outbox'[i].lane = "run"
      PROVE  /\ outbox'[i].ordinal \in {0, 1, 3} /\ outbox'[i].run \in 1..MaxRuns
             /\ anchors'[outbox'[i].run] = outbox'[i].mention
  <2>1. CASE i \in DOMAIN outbox
    BY <1>1, <1>5, <2>1 DEF Conversation
  <2>2. CASE i \notin DOMAIN outbox
    BY <1>1, <1>5, <2>2
  <2> QED BY <2>1, <2>2
<1>6. ASSUME NEW j, NEW m, Tells(j, m, 3)' PROVE \E i : i < j /\ Tells(i, m, 1)'
  <2>1. CASE Tells(j, m, 3)
    BY <1>2, <2>1 DEF Conversation
  <2>2. CASE ~ Tells(j, m, 3)
    <3>1. PICK i : Tells(i, m, 1)
      BY <1>3, <1>6, <2>2
    <3>2. i < j
      BY <1>3, <1>6, <2>2, <3>1 DEF Tells
    <3> QED BY <1>2, <3>1, <3>2
  <2> QED BY <2>1, <2>2
<1>7. ASSUME "crash" \notin trouble', NEW j, NEW m, Tells(j, m, 1)'
      PROVE  \E i : i < j /\ Tells(i, m, 0)'
  <2>1. CASE Tells(j, m, 1)
    BY <1>2, <1>7, <2>1 DEF Conversation
  <2>2. CASE ~ Tells(j, m, 1)
    <3>1. PICK i : Tells(i, m, 0)
      BY <1>3, <1>7, <2>2
    <3>2. i < j
      BY <1>3, <1>7, <2>2, <3>1 DEF Tells
    <3> QED BY <1>2, <3>1, <3>2
  <2> QED BY <2>1, <2>2
<1>8. row.lane = "run" => \E i : Tells(i, row.mention, row.ordinal)'
  BY <1>1 DEF Tells, SamePlace
<1>9. Conversation'
  BY <1>4, <1>5, <1>6, <1>7 DEF Conversation, SamePlace
<1> QED BY <1>2, <1>8, <1>9
\* A turn in hand has begun, and a run is anchored by a turn; a mention whose turn began
\* once anchors one run, and none before its receipt is read.
OneRun ==
    /\ \A r \in 1..MaxRuns : anchors[r] # NoMention => turns[anchors[r]] >= 1
    /\ \A r, q \in 1..MaxRuns :
          anchors[r] = anchors[q] /\ anchors[r] # NoMention /\ turns[anchors[r]] = 1 => r = q
    /\ loop.mention # NoMention => turns[loop.mention] >= 1
    /\ loop.pc \in {"start", "receipt"} /\ turns[loop.mention] = 1 =>
          \A r \in 1..MaxRuns : anchors[r] # loop.mention

LEMMA OneRunInit == Init => OneRun
  BY DEF Init, OneRun, Off, NoMention

\* What no turn begins and nothing anchors leaves alone.
LEMMA OneRunQuiet ==
    ASSUME OneRun, UNCHANGED <<anchors, turns>>, loop'.mention \in {loop.mention, NoMention},
           loop'.pc \in {"start", "receipt"} =>
              loop.pc \in {"start", "receipt"} /\ loop'.mention = loop.mention
    PROVE  OneRun'
  BY DEF OneRun

LEMMA OneRunClaim ==
    ASSUME Shape, OneRun, Claim
    PROVE  OneRun'
<1>1. /\ loop.todo # {} /\ turns' = [turns EXCEPT ![Upcoming] = @ + 1] /\ anchors' = anchors
      /\ loop' = [loop EXCEPT !.todo = @ \ {Upcoming}, !.mention = Upcoming,
                              !.pc = IF timeline[Upcoming] = "talk" THEN "respond" ELSE "start"]
  BY DEF Claim
<1>2. Upcoming \in Mentions /\ Upcoming # NoMention
  BY <1>1, UpcomingIs DEF Mentions, NoMention
<1>3. loop'.mention = Upcoming
  BY <1>1 DEF Shape, LoopShape, Loop
<1>4. turns \in [Mentions -> Nat] /\ anchors \in [1..MaxRuns -> Mentions \cup {NoMention}]
  BY DEF Shape, DiskShape
<1>5. turns'[Upcoming] = turns[Upcoming] + 1 /\ turns[Upcoming] \in Nat
      /\ \A m \in Mentions : m # Upcoming => turns'[m] = turns[m]
  BY <1>1, <1>2, <1>4
<1>6. ASSUME turns'[Upcoming] = 1, NEW r \in 1..MaxRuns PROVE anchors[r] # Upcoming
  BY <1>2, <1>5, <1>6 DEF OneRun
<1>7. ASSUME NEW r \in 1..MaxRuns, anchors[r] # NoMention PROVE turns'[anchors[r]] >= 1
  BY <1>4, <1>5, <1>7 DEF OneRun
<1>8. ASSUME NEW r \in 1..MaxRuns, NEW q \in 1..MaxRuns, anchors[r] = anchors[q],
             anchors[r] # NoMention, turns'[anchors[r]] = 1
      PROVE  r = q
  BY <1>4, <1>5, <1>6, <1>8 DEF OneRun
<1> QED BY <1>1, <1>3, <1>5, <1>6, <1>7, <1>8 DEF OneRun

LEMMA OneRunReceipt ==
    ASSUME Shape, OneRun, Receipt
    PROVE  OneRun'
<1>1. /\ loop.pc = "receipt" /\ anchors' = [anchors EXCEPT ![loop.run] = loop.mention]
      /\ loop' = [loop EXCEPT !.pc = "anchored"] /\ turns' = turns
  BY DEF Receipt, At
<1>2. loop'.pc = "anchored" /\ loop'.mention = loop.mention
  BY <1>1 DEF Shape, LoopShape, Loop
<1>3. \A r \in 1..MaxRuns : anchors'[r] = IF r = loop.run THEN loop.mention ELSE anchors[r]
  BY <1>1 DEF Shape, DiskShape
<1>4. loop.mention # NoMention
  BY <1>1 DEF Shape, LoopShape, InTurn
<1> QED BY <1>1, <1>2, <1>3, <1>4 DEF OneRun

LEMMA NewRoundPc == \A rows : NewRound(rows).pc \in {"send", "sync"}
  BY DEF NewRound, Drain, Off

LEMMA OneRunStep ==
    ASSUME Shape, OneRun, [Next]_vars
    PROVE  OneRun'
<1>1. loop \in Loop /\ (loop.pc = "turn" => loop.mention = NoMention)
  BY DEF Shape, LoopShape
<1>2. CASE UNCHANGED loop /\ UNCHANGED <<anchors, turns>>
  BY <1>2, OneRunQuiet
<1>3. ASSUME loop' = NewRound(outbox) \/ loop' = Off, UNCHANGED <<anchors, turns>> PROVE OneRun'
  <2>1. Off.mention = NoMention /\ Off.pc = "off"
    BY DEF Off
  <2>2. loop'.mention = NoMention /\ loop'.pc \notin {"start", "receipt"}
    BY <1>3, <2>1, NewRoundIs, NewRoundPc
  <2> QED BY <1>3, <2>2, OneRunQuiet
<1>4. ASSUME NEW l \in Loop, NEW queue \in SUBSET Nat, loop' = Drain(l, queue),
             l.mention = loop.mention, UNCHANGED <<anchors, turns>>
      PROVE  OneRun'
  <2>1. loop'.mention = loop.mention /\ loop'.pc \notin {"start", "receipt"}
    BY <1>4, DrainIs
  <2> QED BY <1>4, <2>1, OneRunQuiet
<1>5. CASE Deliver \/ SkipSettled \/ StartServed
  <2>1. loop'.mention = loop.mention /\ UNCHANGED <<anchors, turns>>
        /\ (loop'.pc = "receipt" => loop.pc = "start") /\ loop'.pc # "start"
    BY <1>1, <1>5 DEF Deliver, SkipSettled, StartServed, Loop, disk, At
  <2> QED BY <2>1, OneRunQuiet
<1>6. CASE Acknowledge \/ Refuse
  <2>1. loop.queue \ {Offered} \in SUBSET Nat
    BY <1>1 DEF Loop
  <2>2. loop' = Drain(loop, loop.queue \ {Offered}) /\ UNCHANGED <<anchors, turns>>
    BY <1>6 DEF Acknowledge, Refuse
  <2> QED BY <1>1, <1>4, <2>1, <2>2
<1>7. CASE RoomFails
  <2>1. loop' = InTrouble(loop) /\ UNCHANGED <<anchors, turns>>
    BY <1>7 DEF RoomFails, disk
  <2>2. CASE loop.mention = NoMention
    BY <1>3, <2>1, <2>2 DEF InTrouble
  <2>3. CASE loop.mention # NoMention
    <3>1. loop'.mention = loop.mention /\ loop'.pc = "settle"
      BY <1>1, <2>1, <2>3 DEF InTrouble, Loop
    <3> QED BY <2>1, <3>1, OneRunQuiet
  <2> QED BY <2>2, <2>3
<1>8. CASE Baseline \/ Commit \/ Start
  BY <1>3, <1>8 DEF Baseline, Commit, Start, disk
<1>9. CASE Sync
  <2>1. UNCHANGED <<anchors, turns>>
    BY <1>9 DEF Sync, disk
  <2>2. CASE loop' = NewRound(outbox)
    BY <1>3, <2>1, <2>2
  <2>3. CASE loop' # NewRound(outbox)
    <3>1. loop'.mention = loop.mention /\ loop'.pc = "turn"
      BY <1>1, <1>9, <2>3 DEF Sync, Loop
    <3> QED BY <2>1, <3>1, OneRunQuiet
  <2> QED BY <2>2, <2>3
<1>10. CASE Settle
  <2>1. UNCHANGED <<anchors, turns>>
    BY <1>10 DEF Settle
  <2>2. CASE loop' = NewRound(outbox)
    BY <1>3, <2>1, <2>2
  <2>3. CASE loop' # NewRound(outbox)
    <3>1. loop'.mention = NoMention /\ loop'.pc = "turn"
      BY <1>1, <1>10, <2>3 DEF Settle, Loop
    <3> QED BY <2>1, <3>1, OneRunQuiet
  <2> QED BY <2>2, <2>3
<1>11. ASSUME NEW status \in Terminal \cup {"timeout"}, NEW lane, NEW run, NEW kind,
              Conclude(status, lane, run, kind), Next
       PROVE  OneRun'
  <2> DEFINE l == [loop EXCEPT !.status = status, !.run = 0]
  <2>1. 0 \in 0..MaxRuns
    OBVIOUS
  <2>2. l \in Loop /\ l.mention = loop.mention
    BY <1>1, <2>1 DEF Loop
  <2>3. Owed(outbox') \in SUBSET Nat
    <3>1. Shape'
      BY <1>11, ShapeStep
    <3> QED BY <3>1 DEF Owed, Shape, DiskShape
  <2>4. loop' = Drain(l, Owed(outbox')) /\ UNCHANGED <<anchors, turns>>
    BY <1>11 DEF Conclude
  <2> HIDE DEF l
  <2> QED BY <1>4, <2>2, <2>3, <2>4
<1>12. CASE Respond \/ StartDeclined \/ NoReceipt \/ AnswerReceipt
  <2>1. Next
    BY <1>12 DEF Next, LoopStep
  <2>2. \E status \in Terminal \cup {"timeout"}, lane \in {"turn", "note", "run"},
           run \in {0, loop.run}, kind \in {"text", "accepted"} : Conclude(status, lane, run, kind)
    BY <1>12 DEF Respond, StartDeclined, NoReceipt, AnswerReceipt, Note, Terminal
  <2> QED BY <1>11, <2>1, <2>2
<1>13. CASE Stop \/ Barred \/ AnchorClash \/ Crash
  BY <1>3, <1>13 DEF Stop, Barred, AnchorClash, Crash, Exit, disk
<1>14. CASE Lease \/ Begin \/ AcceptFails \/ Work \/ Report \/ Post \/ UNCHANGED vars
  BY <1>2, <1>14 DEF Lease, Begin, AcceptFails, Work, Report, Post, disk, vars
<1> QED BY <1>5, <1>6, <1>7, <1>8, <1>9, <1>10, <1>12, <1>13, <1>14, OneRunClaim, OneRunReceipt
         DEF Next, LoopStep, ConsumerStep
\* The consumer adds a line, while the room loop is not between an anchor and its first.
LEMMA StoryLine ==
    ASSUME Shape, Story, UNCHANGED anchors, trouble \subseteq trouble', ~ At("anchored"),
           NEW m \in Posted, NEW ordinal \in {1, 3}, NEW run \in 1..MaxRuns,
           NEW kind \in {"accepted", "started"} \cup Endings, anchors[run] = m,
           outbox' = Written(Intent(m, "run", ordinal, run, kind)),
           ordinal = 3 => \E i : Tells(i, m, 1),
           consumer'.pc = "work" => consumer'.story = m /\ ordinal = 1
    PROVE  Story'
<1> DEFINE row == Intent(m, "run", ordinal, run, kind)
<1>1. row \in Row /\ row.mention = m
  BY LineIs
<1>2. row.lane = "run" /\ row.ordinal = ordinal /\ row.run = run
  BY DEF Intent
<1>3. m # NoMention
  BY DEF Shape, DiskShape, Posted, NoMention
<1> HIDE DEF row
<1>4. ASSUME "crash" \notin trouble, NEW r \in 1..MaxRuns, anchors[r] # NoMention
      PROVE  \E i : Tells(i, anchors[r], 0)
  BY <1>4 DEF Story, Tellers
<1>5. "crash" \notin trouble => \E i : Tells(i, m, 0)
  BY <1>3, <1>4
<1>6. Conversation
  BY DEF Story
<1>7. outbox' = Written(row)
  BY DEF row
<1>8. /\ Conversation' /\ \A i, k, o : Tells(i, k, o) => Tells(i, k, o)'
      /\ \E i : Tells(i, m, ordinal)'
  BY <1>1, <1>2, <1>5, <1>6, <1>7, StoryWritten
<1>9. ASSUME consumer'.pc = "work" PROVE \E i : Tells(i, m, 1)' /\ consumer'.story = m
  BY <1>8, <1>9
<1>10. ASSUME "crash" \notin trouble', NEW r \in 1..MaxRuns, anchors[r] # NoMention
       PROVE  \E i : Tells(i, anchors[r], 0)'
  BY <1>4, <1>8, <1>10
<1> QED BY <1>8, <1>9, <1>10 DEF Story, Tellers, Running, Tells

\* The room loop adds its answer: to a receipt, the first line of the run it anchored.
LEMMA StoryAnswer ==
    ASSUME Shape, Story, loop.pc \in InTurn, trouble \subseteq trouble',
           NEW status, NEW lane \in {"turn", "note", "run"}, NEW run \in 0..MaxRuns,
           NEW kind \in {"text", "accepted"}, Conclude(status, lane, run, kind),
           lane = "run" <=> At("anchored"), lane = "run" => run = loop.run
    PROVE  Story'
<1>0. loop.mention \in Mentions
  BY DEF Shape, LoopShape, Loop
<1>1. PICK row \in Row : /\ row = Intent(loop.mention, lane, 0, run, kind)
                         /\ row.mention = loop.mention /\ row.lane = lane /\ row.ordinal = 0
                         /\ row.run = run
  <2>1. Intent(loop.mention, lane, 0, run, kind) \in Row
    BY <1>0 DEF Intent, Row
  <2> QED BY <2>1 DEF Intent
<1>2. outbox' = Written(row) /\ UNCHANGED <<anchors, consumer>>
  BY <1>1 DEF Conclude
<1>3. lane = "run" => run \in 1..MaxRuns /\ anchors[run] = loop.mention
  BY DEF Shape, LoopShape, At
<1>4. Conversation
  BY DEF Story
<1>5. /\ Conversation' /\ \A i, k, o : Tells(i, k, o) => Tells(i, k, o)'
      /\ lane = "run" => \E i : Tells(i, row.mention, 0)'
  BY <1>1, <1>2, <1>3, <1>4, StoryWritten
<1>6. Running("work") /\ consumer.story # NoMention => \E i : Tells(i, consumer.story, 1)'
  BY <1>2, <1>5 DEF Story, Tellers
<1>7. ASSUME "crash" \notin trouble', NEW r \in 1..MaxRuns, anchors[r] # NoMention
      PROVE  \E i : Tells(i, anchors[r], 0)'
  <2>1. CASE At("anchored") /\ loop.run = r
    BY <1>1, <1>2, <1>3, <1>5, <2>1
  <2>2. CASE ~ (At("anchored") /\ loop.run = r)
    <3>1. \E i : Tells(i, anchors[r], 0)
      BY <1>7, <2>2 DEF Story, Tellers
    <3> QED BY <1>2, <1>5, <3>1
  <2> QED BY <2>1, <2>2
<1> QED BY <1>2, <1>5, <1>6, <1>7 DEF Story, Tellers, Running, Tells

\* An anchor is written where none was, or again.
LEMMA StoryReceipt ==
    ASSUME Shape, Story, Receipt
    PROVE  Story'
<1>1. /\ loop.pc = "receipt" /\ anchors[loop.run] \in {NoMention, loop.mention}
      /\ anchors' = [anchors EXCEPT ![loop.run] = loop.mention]
      /\ loop' = [loop EXCEPT !.pc = "anchored"]
      /\ UNCHANGED <<outbox, consumer, trouble>>
  BY DEF Receipt, At, Calm
<1>2. loop'.pc = "anchored" /\ loop'.run = loop.run
  BY <1>1 DEF Shape, LoopShape, Loop
<1>3. \A r \in 1..MaxRuns : anchors'[r] = IF r = loop.run THEN loop.mention ELSE anchors[r]
  BY <1>1 DEF Shape, DiskShape
<1>4. \A i, m, o : Tells(i, m, o)' <=> Tells(i, m, o)
  BY <1>1 DEF Tells
<1>5. \A i \in DOMAIN outbox : outbox[i].mention # NoMention
  BY DEF Shape, DiskShape, Posted, NoMention
<1>6. Conversation'
  <2>1. ASSUME NEW i \in DOMAIN outbox, outbox[i].lane = "run"
        PROVE  /\ outbox[i].ordinal \in {0, 1, 3} /\ outbox[i].run \in 1..MaxRuns
               /\ anchors'[outbox[i].run] = outbox[i].mention
    BY <1>1, <1>3, <1>5, <2>1 DEF Story, Conversation
  <2>2. \A i, j \in DOMAIN outbox : SamePlace(outbox[i], outbox[j]) => i = j
    BY DEF Story, Conversation
  <2>3. /\ \A j, m : Tells(j, m, 3)' => \E i : i < j /\ Tells(i, m, 1)'
        /\ "crash" \notin trouble' => \A j, m : Tells(j, m, 1)' => \E i : i < j /\ Tells(i, m, 0)'
    BY <1>1, <1>4 DEF Story, Conversation
  <2> QED BY <1>1, <2>1, <2>2, <2>3 DEF Conversation, SamePlace
<1>7. Tellers'
  <2>1. ASSUME "crash" \notin trouble', NEW r \in 1..MaxRuns, anchors'[r] # NoMention, r # loop.run
        PROVE  \E i : Tells(i, anchors[r], 0)' /\ anchors'[r] = anchors[r]
    <3>1. anchors'[r] = anchors[r] /\ ~ At("anchored") /\ "crash" \notin trouble
      BY <1>1, <1>3, <2>1 DEF At
    <3>2. \E i : Tells(i, anchors[r], 0)
      BY <2>1, <3>1 DEF Story, Tellers
    <3> QED BY <1>4, <3>1, <3>2
  <2>2. Running("work")' /\ consumer'.story # NoMention => \E i : Tells(i, consumer.story, 1)'
    BY <1>1, <1>4 DEF Story, Tellers, Running
  <2> QED BY <1>2, <2>1, <2>2 DEF Tellers, At, Tells
<1> QED BY <1>6, <1>7 DEF Story
\* The consumer, while the room loop awaits.
LEMMA StoryConsumer ==
    ASSUME Shape, Story, loop.pc \in Awaits, Lease \/ Begin \/ AcceptFails \/ Work \/ Report
    PROVE  Story'
<1>0. /\ consumer \in Consumer /\ ~ At("anchored") /\ UNCHANGED <<anchors, loop>>
      /\ trouble \subseteq trouble'
  BY DEF Shape, ConsumerShape, At, Awaits, Lease, Begin, AcceptFails, Work, Report, disk, Calm, Disturb
<1>1. consumer.pc \in {"accept", "work", "report"} => consumer.run \in 1..MaxRuns
  <2>1. consumer.run \in Nat /\ consumer.run <= MaxRuns
    BY <1>0 DEF Consumer
  <2> QED BY <2>1 DEF Shape, ConsumerShape
<1>2. ASSUME UNCHANGED outbox,
             UNCHANGED consumer \/ consumer'.pc # "work" \/ consumer'.story = NoMention
      PROVE  Story'
  BY <1>0, <1>2, StoryQuiet DEF Kept
<1>3. CASE Lease \/ AcceptFails \/ Report
  <2>1. UNCHANGED outbox /\ consumer'.pc # "work"
    BY <1>0, <1>3 DEF Lease, AcceptFails, Report, Polling, Asleep, Consumer, disk
  <2> QED BY <1>2, <2>1
<1>4. CASE Begin
  <2> DEFINE story == anchors[consumer.run]
  <2>1. /\ Running("accept")
        /\ outbox' = IF story = NoMention THEN outbox
                     ELSE Written(Intent(story, "run", 1, consumer.run, "started"))
        /\ \E pc \in {"report", "work"} : consumer' = [consumer EXCEPT !.story = story, !.pc = pc]
    BY <1>4 DEF Begin
  <2>2. consumer'.story = story
    BY <1>0, <2>1 DEF Consumer
  <2>3. consumer.run \in 1..MaxRuns
    BY <1>1, <2>1 DEF Running
  <2>4. CASE story = NoMention
    BY <1>2, <2>1, <2>2, <2>4
  <2>5. CASE story # NoMention
    <3>1. story \in Posted
      BY <2>3, <2>5 DEF Shape, DiskShape
    <3>2. outbox' = Written(Intent(story, "run", 1, consumer.run, "started"))
      BY <2>1, <2>5
    <3>3. story = anchors[consumer.run]
      OBVIOUS
    <3> HIDE DEF story
    <3> QED BY <1>0, <2>2, <2>3, <3>1, <3>2, <3>3, StoryLine
  <2> QED BY <2>4, <2>5
<1>5. CASE Work
  <2>1. Running("work") /\ consumer'.pc = "report"
    BY <1>0, <1>5 DEF Work, Consumer
  <2>2. CASE consumer.story = NoMention
    BY <1>2, <1>5, <2>1, <2>2 DEF Work
  <2>3. CASE consumer.story # NoMention
    <3>1. PICK result \in Endings :
             outbox' = Written(Intent(consumer.story, "run", 3, consumer.run, result))
      BY <1>5, <2>3 DEF Work, Line
    <3>2. consumer.story \in Posted /\ anchors[consumer.run] = consumer.story
          /\ consumer.run \in 1..MaxRuns
      BY <1>1, <2>1, <2>3 DEF Shape, ConsumerShape, Running
    <3>3. \E i : Tells(i, consumer.story, 1)
      BY <2>1, <2>3 DEF Story, Tellers
    <3> QED BY <1>0, <2>1, <3>1, <3>2, <3>3, StoryLine
  <2> QED BY <2>2, <2>3
<1> QED BY <1>3, <1>4, <1>5

\* A run cut short ends its story, which had begun.
LEMMA StoryExit ==
    ASSUME Shape, Story, Exit, trouble \subseteq trouble', ~ At("anchored")
    PROVE  Story'
<1>1. UNCHANGED anchors /\ consumer'.pc = "off"
      /\ outbox' = IF Running("work") /\ consumer.story # NoMention
                   THEN Written(Intent(consumer.story, "run", 3, consumer.run, "failed")) ELSE outbox
  BY DEF Exit, Asleep, Line
<1>2. CASE ~ (Running("work") /\ consumer.story # NoMention)
  <2>1. outbox' = outbox
    BY <1>1, <1>2
  <2> QED BY <1>1, <2>1, StoryQuiet DEF Kept
<1>3. CASE Running("work") /\ consumer.story # NoMention
  <2>1. consumer.story \in Posted /\ anchors[consumer.run] = consumer.story
        /\ consumer.run \in 1..MaxRuns
    <3>1. consumer.run \in Nat /\ consumer.run <= MaxRuns
      BY DEF Shape, ConsumerShape, Consumer
    <3> QED BY <1>3, <3>1 DEF Shape, ConsumerShape, Running
  <2>2. \E i : Tells(i, consumer.story, 1)
    BY <1>3 DEF Story, Tellers
  <2>3. outbox' = Written(Intent(consumer.story, "run", 3, consumer.run, "failed"))
    BY <1>1, <1>3
  <2> QED BY <1>1, <2>1, <2>2, <2>3, StoryLine DEF Endings
<1> QED BY <1>2, <1>3

\* The conversation of a mention tells each run in order; only a crash lets the consumer begin
\* the story, and only a mention whose turn ran again tells of a second run
\* (supervisor._start_governed, NarratingExecutor.execute).
THEOREM StoryInOrderCorrect == Spec => []StoryInOrder
<1>1. ASSUME Shape, Story, [Next]_vars PROVE Story'
  <2>1. ASSUME UNCHANGED <<outbox, anchors>>, trouble \subseteq trouble',
               UNCHANGED consumer \/ consumer'.pc # "work",
               UNCHANGED loop \/ ~ At("anchored") \/ "crash" \in trouble'
        PROVE  Story'
    BY <1>1, <2>1, StoryQuiet DEF Kept
  <2>2. CASE Deliver \/ RoomFails \/ Baseline \/ Sync \/ Commit \/ SkipSettled \/ Claim
             \/ StartServed \/ Settle
    <3>1. UNCHANGED <<outbox, anchors, consumer>> /\ trouble \subseteq trouble' /\ ~ At("anchored")
      BY <2>2 DEF Deliver, RoomFails, Baseline, Sync, Commit, SkipSettled, Claim, StartServed, Settle,
                  disk, Calm, Disturb, At
    <3> QED BY <2>1, <3>1
  <2>3. CASE Acknowledge \/ Refuse
    <3>1. /\ UNCHANGED <<anchors, consumer>> /\ trouble \subseteq trouble'
          /\ loop.pc \in {"send", "ack"} /\ ~ At("anchored")
          /\ \E state \in {"sent", "refused"} : outbox' = Marked(Offered, state)
      BY <2>3 DEF Acknowledge, Refuse, Calm, Disturb, At
    <3>2. Offered \in DOMAIN outbox
      BY <1>1, <3>1, OfferedIs DEF Shape, LoopShape
    <3>3. outbox \in Seq(Row)
      BY <1>1 DEF Shape, DiskShape
    <3>4. PICK state \in {"sent", "refused"} : outbox' = Marked(Offered, state)
      BY <3>1
    <3>5. DOMAIN outbox' = DOMAIN outbox /\ \A i \in DOMAIN outbox : Kept(outbox'[i], outbox[i])
      BY <3>2, <3>3, <3>4, MarkedIs
    <3> QED BY <1>1, <3>1, <3>5, StoryQuiet
  <2>4. CASE Respond \/ StartDeclined \/ NoReceipt
    <3>1. /\ loop.pc \in InTurn /\ ~ At("anchored") /\ trouble \subseteq trouble'
          /\ \E status \in Terminal \cup {"timeout"}, lane \in {"turn", "note"} :
                Conclude(status, lane, 0, "text")
      BY <2>4 DEF Respond, StartDeclined, NoReceipt, Note, At, InTurn, Calm, Disturb, Terminal
    <3> QED BY <1>1, <3>1, StoryAnswer
  <2>5. CASE AnswerReceipt
    <3>1. loop.run \in 0..MaxRuns
      BY <1>1 DEF Shape, LoopShape, Loop
    <3> QED BY <1>1, <2>5, <3>1, StoryAnswer DEF AnswerReceipt, At, InTurn, Calm
  <2>6. CASE Start \/ Crash \/ Post \/ UNCHANGED vars
    <3>1. /\ UNCHANGED <<outbox, anchors>> /\ trouble \subseteq trouble'
          /\ UNCHANGED consumer \/ consumer'.pc # "work"
          /\ UNCHANGED loop \/ ~ At("anchored") \/ "crash" \in trouble'
      BY <2>6 DEF Start, Crash, Post, vars, disk, Calm, Disturb, At, Polling, Asleep
    <3> QED BY <2>1, <3>1
  <2>7. CASE Stop \/ Barred \/ AnchorClash
    <3>1. Exit /\ trouble \subseteq trouble' /\ ~ At("anchored")
      BY <2>7 DEF Stop, Barred, AnchorClash, Awaits, At, Calm, Disturb
    <3> QED BY <1>1, <3>1, StoryExit
  <2> QED BY <1>1, <2>2, <2>3, <2>4, <2>5, <2>6, <2>7, StoryReceipt, StoryConsumer
         DEF Next, LoopStep, ConsumerStep
<1>2. Shape /\ Story /\ OneRun => StoryInOrder
  <2> SUFFICES ASSUME Shape, Story, OneRun, NEW i \in DOMAIN outbox, NEW j \in DOMAIN outbox,
                      outbox[i].lane = "run", outbox[j].lane = "run",
                      outbox[i].mention = outbox[j].mention, i < j
               PROVE  /\ outbox[i].run = outbox[j].run =>
                            outbox[i].ordinal < outbox[j].ordinal \/ "crash" \in trouble
                      /\ turns[outbox[i].mention] = 1 => outbox[i].run = outbox[j].run
    BY DEF StoryInOrder
  <2> DEFINE m == outbox[i].mention
  <2>1. i \in Nat /\ j \in Nat /\ m # NoMention
    BY DEF Shape, DiskShape, Posted, NoMention
  <2>2. /\ outbox[i].ordinal \in {0, 1, 3} /\ outbox[j].ordinal \in {0, 1, 3}
        /\ outbox[i].run \in 1..MaxRuns /\ outbox[j].run \in 1..MaxRuns
        /\ anchors[outbox[i].run] = m /\ anchors[outbox[j].run] = m
    BY DEF Story, Conversation
  <2>3. ASSUME NEW k, NEW o, Tells(k, m, o), NEW l, Tells(l, m, o) PROVE k = l
    BY <2>3 DEF Story, Conversation, Tells, SamePlace
  <2>4. Tells(i, m, outbox[i].ordinal) /\ Tells(j, m, outbox[j].ordinal)
    BY DEF Tells
  <2>5. ASSUME NEW k, NEW o, Tells(k, m, o) PROVE k \in Nat
    BY <2>5 DEF Tells, Shape, DiskShape
  <2> HIDE DEF m
  <2>6. ASSUME "crash" \notin trouble PROVE outbox[i].ordinal < outbox[j].ordinal
    <3>1. outbox[i].ordinal # outbox[j].ordinal
      BY <2>1, <2>3, <2>4
    <3>2. CASE outbox[i].ordinal = 3
      <4>1. PICK k : k < i /\ Tells(k, m, 1)
        BY <2>4, <3>2 DEF Story, Conversation
      <4>2. PICK l : l < k /\ Tells(l, m, 0)
        BY <2>6, <4>1 DEF Story, Conversation
      <4>3. j = k \/ j = l
        BY <2>2, <2>3, <2>4, <3>1, <3>2, <4>1, <4>2
      <4> QED BY <2>1, <2>5, <4>1, <4>2, <4>3
    <3>3. CASE outbox[i].ordinal = 1
      <4>1. PICK l : l < i /\ Tells(l, m, 0)
        BY <2>4, <2>6, <3>3 DEF Story, Conversation
      <4>2. outbox[j].ordinal # 0
        BY <2>1, <2>3, <2>4, <2>5, <4>1
      <4> QED BY <2>2, <3>1, <3>3, <4>2
    <3>4. CASE outbox[i].ordinal = 0
      BY <2>2, <3>1, <3>4
    <3> QED BY <2>2, <3>2, <3>3, <3>4
  <2>7. turns[m] = 1 => outbox[i].run = outbox[j].run
    BY <2>1, <2>2 DEF OneRun
  <2> QED BY <2>6, <2>7 DEF m
<1> QED BY <1>1, <1>2, StoryInit, OneRunInit, OneRunStep, ShapeAlways, PTL DEF Spec
================================================================================
