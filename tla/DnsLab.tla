------------------------------- MODULE DnsLab -------------------------------
(***************************************************************************)
(* The DNS laboratory: the authoritative server (cmd/dnslab-auth) with its *)
(* rate limiter, its hourly journal and the shipper that batches the lines *)
(* to logpit, and the campaign runner (cmd/c2dnslab-emit).  logpit is an   *)
(* external chain of signed entries that accepts an entry whose prev_hash  *)
(* is its head; the hash of an entry is its rank in the chain.             *)
(***************************************************************************)
EXTENDS Integers, Sequences, FiniteSets

CONSTANTS
  Questions,        \* the datagrams that reach the server
  Zones,            \* zones: [apex, txt, negative, aaaa], the apex as pieces
  Sources, Bucket,  \* senders and the bucket that the hash of each one selects
  Rate, Burst,      \* of the limiter, tokens per tick of the clock
  HourLen,          \* ticks of the clock in an hour
  QueueMax,         \* capacity of the queue of the shipper
  Attempts,         \* attempts per batch
  SyncEvery,        \* lines between two syncs of the journal
  RunIDs, Clients,  \* campaigns and the clients that ask for them
  Interval, Duration, Stalls,  \* of a replay, and the readings of a stopped clock that end it
  MaxPackets, MaxClock, MaxFaults, MaxRivals, MaxCrashes   \* bounds

ASSUME DnsLabAssumption ==
  /\ {Rate, Burst, HourLen, QueueMax, Attempts, SyncEvery, Interval, Duration, Stalls} \subseteq Nat \ {0}
  /\ Sources = DOMAIN Bucket /\ Sources # {} /\ RunIDs # {} /\ IsFiniteSet(Clients)

VARIABLES auth, ship, pit, emit, faults
vars == <<auth, ship, pit, emit, faults>>

Buckets == {Bucket[s] : s \in Sources}
Idle == [id |-> 0, by |-> CHOOSE s \in Sources : TRUE, n |-> 0, limited |-> FALSE, verdict |-> "ignored"]

Init ==
  /\ auth \in [pc : {"read"}, zone : Zones, line : {Idle}, hour : {-1}, disk : {<<>>}, unsynced : {0}, torn : {FALSE},
               tokens : {[b \in Buckets |-> 0]}, stamp : {[b \in Buckets |-> -1]}, first : {[b \in Buckets |-> 0]},
               allowed : {[b \in Buckets |-> 0]}, clock : {0}, top : {0}, seen : {0}, answered : {{}},
               counted : {{}}, signal : {FALSE}, closed : {FALSE}]
  /\ ship = [pc |-> "tick", queue |-> <<>>, body |-> <<>>, attempts |-> 0, prev |-> 0,
             shipped |-> 0, dropped |-> 0, offered |-> 0, late |-> 0, stored |-> {}]
  /\ pit = <<[prev |-> 0, lines |-> <<>>]>>
  /\ emit = [busy |-> FALSE, client |-> [c \in Clients |-> "idle"], pc |-> "idle", run |-> CHOOSE r \in RunIDs : TRUE,
             staging |-> [r \in RunIDs |-> "absent"], manifest |-> [r \in RunIDs |-> "absent"], clock |-> 0, due |-> 0, previous |-> 0,
             start |-> 0, instant |-> 0, stalled |-> 0, sends |-> 0, tip |-> 0, campaigns |-> 0, errors |-> 0, shipped |-> 0,
             signal |-> FALSE, up |-> TRUE, crashes |-> 0]
  /\ faults = 0

Fault == faults < MaxFaults /\ faults' = faults + 1

-----------------------------------------------------------------------------
(* BuildResponse.  A question is [len, qr, opcode, qd, labels, nx, class,  *)
(* type].  A label is the sequence of the pieces between its '.' octets,   *)
(* of which most labels have none; a piece is [word, n], n its length.     *)

TextLen(pieces) ==
  LET to[k \in 0 .. Len(pieces)] == IF k = 0 THEN 0 ELSE to[k - 1] + pieces[k].n + 1
  IN  IF pieces = <<>> THEN 0 ELSE to[Len(pieces)] - 1
Wire(labels) ==
  LET to[k \in 0 .. Len(labels)] == IF k = 0 THEN 0 ELSE to[k - 1] + TextLen(labels[k]) + 1 IN to[Len(labels)]

(* decision.QName: a '.' between two labels is one like any other.         *)
QName(q) ==
  LET to[k \in 0 .. Len(q.labels)] == IF k = 0 THEN <<>> ELSE to[k - 1] \o q.labels[k] IN to[Len(q.labels)]

(* The text of the name is the apex, or ends in a '.' and the apex.        *)
InZone(q, z) ==
  LET name == QName(q)
  IN  Len(name) >= Len(z.apex) /\ SubSeq(name, Len(name) - Len(z.apex) + 1, Len(name)) = z.apex

QuestionEnd(q) == 12 + Wire(q.labels) + 1 + 4

(* One question, labels of at most 63 octets, a name of at most 255 and a  *)
(* datagram that holds all of it.                                          *)
ValidQuestion(q) ==
  /\ q.qd = 1 /\ QuestionEnd(q) <= q.len
  /\ \A k \in DOMAIN q.labels : TextLen(q.labels[k]) <= 63 /\ Wire(SubSeq(q.labels, 1, k)) + 1 <= 255

(* The cases of the switch, in their order.                                *)
Judged(q, z) ==
  CASE q.opcode # 0 -> "notimp"
    [] q.opcode = 0 /\ ~ValidQuestion(q) -> "formerr"
    [] OTHER ->
       CASE q.class # 1 -> "refused"
         [] q.class = 1 /\ q.type = 255 -> "notimp"
         [] q.class = 1 /\ q.type \in {251, 252} -> "refused"
         [] OTHER -> IF ~InZone(q, z) THEN "refused"
                     ELSE IF z.negative # "none" /\ q.nx THEN "nxdomain"
                     ELSE IF q.type = 28 /\ z.aaaa # "none" THEN "answer_aaaa"
                     ELSE IF q.type = 1 THEN "answer_a"
                     ELSE IF q.type = 16 THEN "answer_txt" ELSE "no_data"

(* The record of a start of authority: two names under the apex and five   *)
(* counters; ecrireApexFilaire writes the apex as labels.                  *)
SoaLength(z) ==
  LET prefix == IF z.negative = "stego" THEN 17 + 17 ELSE 3 + 10
  IN  2 + prefix + 2 * (TextLen(z.apex) + 2) + 20

(* Mutant of Fitted: the header of the text record is not counted.         *)
FittedLoose(q, z, end) ==
  LET v == Judged(q, z) IN IF v = "answer_txt" /\ end + z.txt >= 512 THEN "refused" ELSE v

(* What does not fit is refused instead.                                   *)
Fitted(q, z, end) ==
  LET v == Judged(q, z)
  IN  IF \/ v = "answer_txt" /\ end + 13 + z.txt >= 512
         \/ v = "nxdomain" /\ end + 2 + 10 + SoaLength(z) > 512
      THEN "refused" ELSE v

(* The SOA record is owned by a pointer to the apex in the question, whose *)
(* offset is computed from the lengths of the texts.                       *)
BuildResponse(q, z) ==
  LET end == IF ValidQuestion(q) THEN QuestionEnd(q) ELSE 12
      v == Fitted(q, z, end)
      more == CASE v = "answer_a" -> 16 [] v = "answer_aaaa" -> 28
                [] v = "answer_txt" -> 13 + z.txt
                [] v = "nxdomain" -> 2 + 10 + SoaLength(z)
                [] OTHER -> 0
  IN  IF q.len < 12 \/ q.qr THEN [n |-> 0, verdict |-> "ignored", pointer |-> 0]
      ELSE [n |-> end + more, verdict |-> v,
            pointer |-> IF v = "nxdomain" THEN 12 + TextLen(QName(q)) - TextLen(z.apex) ELSE 12]

-----------------------------------------------------------------------------
(* Allow: tokens of a bucket, which sources share.  A new bucket is full.  *)
Smaller(a, b) == IF a < b THEN a ELSE b

Refilled(b) ==
  IF auth.stamp[b] = -1 THEN Burst
  ELSE IF auth.clock > auth.stamp[b]
       THEN Smaller(Burst, auth.tokens[b] + Rate * (auth.clock - auth.stamp[b])) ELSE auth.tokens[b]

Stamped(b) == IF auth.stamp[b] = -1 \/ auth.clock > auth.stamp[b] THEN auth.clock ELSE auth.stamp[b]

(* serveDNS: one datagram is read, answered in the buffer and limited.     *)
Receive(q, s) ==
  /\ auth.pc = "read" /\ ~auth.closed /\ auth.seen < MaxPackets
  /\ \E r \in {BuildResponse(q, auth.zone)}, b \in {Bucket[s]} :
     \E t \in {Refilled(Bucket[s])} :
       auth' = [auth EXCEPT
         !.pc = "append", !.seen = @ + 1,
         !.line = [id |-> auth.seen + 1, by |-> s, n |-> r.n, limited |-> t < 1, verdict |-> r.verdict],
         !.tokens[b] = IF t < 1 THEN t ELSE t - 1, !.stamp[b] = Stamped(b),
         !.first[b] = IF auth.stamp[b] = -1 THEN auth.clock ELSE @,
         !.allowed[b] = IF t < 1 THEN @ ELSE @ + 1]
  /\ UNCHANGED <<ship, pit, emit, faults>>

(* Append: the file of another hour is opened, chmod included, before the  *)
(* one in use is synced and closed; then the line is written.              *)
Hour == auth.clock \div HourLen
Rotates == auth.hour # Hour

Append_ ==
  /\ auth.pc = "append"
  /\ auth' = [auth EXCEPT !.pc = "ship", !.hour = Hour, !.disk = Append(@, [line |-> auth.line, hour |-> Hour]),
                          !.unsynced = IF Rotates THEN 1 ELSE (@ + 1) % SyncEvery]
  /\ UNCHANGED <<ship, pit, emit, faults>>

(* The directory, the opening or the chmod failed: the file stays.  The    *)
(* old file could not be synced: none is open.  The write was short, or    *)
(* the sync after it failed.  serveDNS returns.                            *)
AppendFails ==
  /\ auth.pc = "append" /\ Fault
  /\ \/ Rotates /\ auth' = [auth EXCEPT !.pc = "leave"]
     \/ Rotates /\ auth.hour # -1 /\ auth' = [auth EXCEPT !.pc = "leave", !.hour = -1]
     \/ auth' = [auth EXCEPT !.pc = "leave", !.hour = Hour, !.torn = TRUE]
     \/ /\ auth.unsynced + 1 = SyncEvery
        /\ auth' = [auth EXCEPT !.pc = "leave", !.hour = Hour, !.disk = Append(@, [line |-> auth.line, hour |-> Hour])]
  /\ UNCHANGED <<ship, pit, emit>>

(* Mutant of enqueue: the batch under way does not count.                  *)
enqueueBlind(s, line) ==
  IF Len(s.queue) >= QueueMax THEN [s EXCEPT !.offered = @ + 1, !.dropped = @ + 1]
  ELSE [s EXCEPT !.offered = @ + 1, !.queue = Append(@, line), !.late = IF s.pc = "done" THEN @ + 1 ELSE @]

(* The callback counts the line and enqueues it, unless the queue and the  *)
(* batch under way fill the capacity.                                      *)
enqueue(s, line) ==
  IF Len(s.queue) + Len(s.body) >= QueueMax THEN [s EXCEPT !.offered = @ + 1, !.dropped = @ + 1]
  ELSE [s EXCEPT !.offered = @ + 1, !.queue = Append(@, line), !.late = IF s.pc = "done" THEN @ + 1 ELSE @]

Ship ==
  /\ auth.pc = "ship"
  /\ auth' = [auth EXCEPT !.pc = "write", !.counted = @ \cup {auth.line.id}]
  /\ ship' = enqueue(ship, auth.line.id)
  /\ UNCHANGED <<pit, emit, faults>>

WriteTo ==
  /\ auth.pc = "write"
  /\ \/ auth.line.n > 0 /\ ~auth.line.limited /\ ~auth.closed /\ UNCHANGED faults
        /\ auth' = [auth EXCEPT !.pc = "read", !.answered = @ \cup {auth.line.id}]
     \/ (auth.line.n = 0 \/ auth.line.limited) /\ auth' = [auth EXCEPT !.pc = "read"] /\ UNCHANGED faults
     \/ auth.line.n > 0 /\ ~auth.line.limited /\ auth.closed /\ auth' = [auth EXCEPT !.pc = "leave"] /\ UNCHANGED faults
     \/ auth.line.n > 0 /\ ~auth.line.limited /\ Fault /\ auth' = [auth EXCEPT !.pc = "leave"]
  /\ UNCHANGED <<ship, pit, emit>>

(* A signal, or the failure of the health server, cancels the context of   *)
(* the shipper and closes the socket through a goroutine.                  *)
Signal == ~auth.signal /\ auth' = [auth EXCEPT !.signal = TRUE] /\ UNCHANGED <<ship, pit, emit, faults>>
CloseSocket ==
  /\ auth.signal /\ ~auth.closed /\ auth.pc # "left"
  /\ auth' = [auth EXCEPT !.closed = TRUE] /\ UNCHANGED <<ship, pit, emit, faults>>

(* run leaves: sender.stop cancels and waits, then the journal is closed.  *)
ReadClosed ==
  /\ auth.pc = "read" /\ auth.closed /\ auth' = [auth EXCEPT !.pc = "leave"] /\ UNCHANGED <<ship, pit, emit, faults>>
Leave ==
  /\ auth.pc = "leave" /\ auth' = [auth EXCEPT !.pc = "left", !.signal = TRUE]
  /\ UNCHANGED <<ship, pit, emit, faults>>
JournalClose ==
  /\ auth.pc = "left" /\ ship.pc = "done" /\ auth.hour # -1
  /\ auth' = [auth EXCEPT !.hour = -1, !.unsynced = 0] /\ UNCHANGED <<ship, pit, emit, faults>>

(* The wall clock advances, or is set back by a tick.                      *)
ClockMoves ==
  /\ auth.pc = "read"
  /\ \E d \in {-1, 1, 2} :
       /\ auth.clock + d \in 0 .. MaxClock
       /\ (d = -1 => auth.clock = auth.top)
       /\ auth' = [auth EXCEPT !.clock = @ + d, !.top = IF auth.clock + d > @ THEN auth.clock + d ELSE @]
  /\ UNCHANGED <<ship, pit, emit, faults>>

-----------------------------------------------------------------------------
(* The shipper.  A tick takes the whole queue as one batch; a batch that   *)
(* is waiting keeps its place.                                             *)
Tip == Len(pit)

Tick ==
  /\ ship.pc = "tick" /\ (ship.body # <<>> \/ ship.queue # <<>>)
  /\ ship' = [ship EXCEPT !.pc = IF ship.prev = 0 THEN "tip" ELSE "post",
                          !.body = IF ship.body = <<>> THEN ship.queue ELSE @,
                          !.queue = IF ship.body = <<>> THEN <<>> ELSE @]
  /\ UNCHANGED <<auth, pit, emit, faults>>

Settled(s, field) ==
  [s EXCEPT ![field] = @ + Len(s.body), !.body = <<>>, !.attempts = 0, !.pc = "tick"]
Failed(s) ==
  LET t == [s EXCEPT !.attempts = @ + 1, !.prev = 0, !.pc = "tick"]
  IN  IF t.attempts < Attempts THEN t ELSE Settled(t, "dropped")

refreshTip ==
  /\ ship.pc = "tip"
  /\ \/ ~auth.signal /\ ship' = [ship EXCEPT !.prev = Tip, !.pc = "post"] /\ UNCHANGED faults
     \/ ship' = Failed(ship) /\ (IF auth.signal THEN UNCHANGED faults ELSE Fault)
  /\ UNCHANGED <<auth, pit, emit>>

(* appendBatch signs anew at every attempt.  The entry is refused when the *)
(* head has moved; it is stored and its receipt is read, is lost, or is    *)
(* unreadable; or the request never arrives.                               *)
Entry == [prev |-> ship.prev, lines |-> ship.body]
Stored == [ship EXCEPT !.stored = @ \cup {ship.body[k] : k \in DOMAIN ship.body}]

appendBatch ==
  /\ ship.pc = "post"
  /\ \/ /\ ship.prev = Tip /\ ~auth.signal
        /\ pit' = Append(pit, Entry) /\ ship' = [Settled(Stored, "shipped") EXCEPT !.prev = Tip + 1] /\ UNCHANGED faults
     \/ /\ ship.prev = Tip /\ ~auth.signal /\ Fault
        /\ pit' = Append(pit, Entry) /\ ship' = [Stored EXCEPT !.pc = "reread"]
     \/ /\ ship.prev = Tip /\ (IF auth.signal THEN UNCHANGED faults ELSE Fault)
        /\ pit' = Append(pit, Entry) /\ ship' = Failed(Stored)
     \/ ship.prev # Tip /\ ship' = Failed(ship) /\ UNCHANGED <<pit, faults>>
     \/ ship' = Failed(ship) /\ (IF auth.signal THEN UNCHANGED faults ELSE Fault) /\ UNCHANGED pit
  /\ UNCHANGED <<auth, emit>>

(* After an unreadable receipt the head is read again, or forgotten.       *)
Reread ==
  /\ ship.pc = "reread"
  /\ \/ ~auth.signal /\ ship' = [Settled(ship, "shipped") EXCEPT !.prev = Tip] /\ UNCHANGED faults
     \/ ship' = [Settled(ship, "shipped") EXCEPT !.prev = 0] /\ (IF auth.signal THEN UNCHANGED faults ELSE Fault)
  /\ UNCHANGED <<auth, pit, emit>>

Stop ==
  /\ ship.pc = "tick" /\ auth.signal
  /\ ship' = [ship EXCEPT !.pc = "done", !.dropped = @ + Len(ship.queue) + Len(ship.body)]
  /\ UNCHANGED <<auth, pit, emit, faults>>

(* Another origin of logpit.                                               *)
Rival ==
  /\ Cardinality({k \in 2 .. Len(pit) : pit[k].lines = <<>>}) < MaxRivals
  /\ pit' = Append(pit, [prev |-> Tip, lines |-> <<>>]) /\ UNCHANGED <<auth, ship, emit, faults>>

-----------------------------------------------------------------------------
(* The campaign runner.  The handler validates, reserves, answers 202 and  *)
(* lets a goroutine execute a replay or a tool; a second client meets 409. *)
reserve(c, r, first) ==
  /\ emit.up /\ emit.client[c] = "idle"
  /\ emit' = IF emit.busy THEN [emit EXCEPT !.client[c] = "conflict"]
             ELSE [emit EXCEPT !.client[c] = "accepted", !.busy = TRUE, !.pc = first, !.run = r, !.start = emit.clock,
                               !.due = emit.clock, !.previous = emit.clock, !.stalled = 0, !.sends = 0]
  /\ UNCHANGED <<auth, ship, pit, faults>>

Passes ==
  /\ emit.clock < MaxClock /\ emit.pc \in {"replay", "send"}
  /\ emit' = [emit EXCEPT !.clock = @ + 1] /\ UNCHANGED <<auth, ship, pit, faults>>

(* One turn of RunReplay.  The first takes the start as its instant; then  *)
(* the clock is read, and a clock that stands still ends the campaign.     *)
Instant == IF emit.sends = 0 THEN emit.start ELSE emit.clock
Stalled == IF emit.sends = 0 \/ emit.clock > emit.previous THEN 0 ELSE emit.stalled + 1
Ends == emit.signal \/ Stalled >= Stalls \/ Instant - emit.start >= Duration

RunReplay ==
  /\ emit.up /\ emit.pc = "replay"
  /\ emit' = IF Ends THEN [emit EXCEPT !.pc = "manifest"]
             ELSE [emit EXCEPT !.previous = Instant, !.stalled = Stalled, !.instant = Instant,
                               !.pc = IF Instant < emit.due THEN "replay" ELSE "send"]
  /\ UNCHANGED <<auth, ship, pit, faults>>

Send ==
  /\ emit.up /\ emit.pc = "send"
  /\ \/ emit' = [emit EXCEPT !.pc = "replay", !.sends = @ + 1, !.due = emit.instant + Interval] /\ UNCHANGED faults
     \/ Fault /\ emit' = [emit EXCEPT !.pc = "manifest", !.errors = @ + 1]
  /\ UNCHANGED <<auth, ship, pit>>

(* RunTool.  The start may fail.  A tool that runs may end by itself; when *)
(* the context ends, by its deadline or the signal, the group of the tool  *)
(* gets SIGTERM, which it may ignore, and after 5 s SIGKILL, which ends it.*)
(* An end that is not an exit status is an error.                          *)
Launch ==
  /\ emit.up /\ emit.pc = "launch"
  /\ \/ emit' = [emit EXCEPT !.pc = "tool"] /\ UNCHANGED faults
     \/ Fault /\ emit' = [emit EXCEPT !.pc = "manifest", !.errors = @ + 1]
  /\ UNCHANGED <<auth, ship, pit>>

Terminate ==
  /\ emit.up /\ emit.pc = "tool"
  /\ emit' = [emit EXCEPT !.pc = "term"] /\ UNCHANGED <<auth, ship, pit, faults>>

Kill ==
  /\ emit.up /\ emit.pc = "term"
  /\ emit' = [emit EXCEPT !.pc = "kill"] /\ UNCHANGED <<auth, ship, pit, faults>>

ToolEnds ==
  /\ emit.up /\ emit.pc \in {"tool", "term", "kill"}
  /\ \/ emit' = [emit EXCEPT !.pc = "manifest"] /\ UNCHANGED faults
     \/ Fault /\ emit' = [emit EXCEPT !.pc = "manifest", !.errors = @ + 1]
  /\ UNCHANGED <<auth, ship, pit>>

RunTool == Launch \/ Terminate \/ Kill \/ ToolEnds

(* Mutant of CreateStaging: the manifest is opened where it is published.  *)
CreateInPlace ==
  /\ emit.up /\ emit.pc = "manifest"
  /\ emit' = [emit EXCEPT !.pc = "staged", !.manifest[emit.run] = "empty"]
  /\ UNCHANGED <<auth, ship, pit, faults>>

(* WriteRunManifest: an exclusive staging file, written and synced, then   *)
(* renamed; removed by this call only if it created it.                    *)
CreateStaging ==
  /\ emit.up /\ emit.pc = "manifest"
  /\ emit' = IF emit.staging[emit.run] # "absent" THEN [emit EXCEPT !.pc = "count", !.errors = @ + 1]
             ELSE [emit EXCEPT !.pc = "staged", !.staging[emit.run] = "empty"]
  /\ UNCHANGED <<auth, ship, pit, faults>>

WriteStaging ==
  /\ emit.up /\ emit.pc = "staged"
  /\ \/ emit' = [emit EXCEPT !.pc = "synced", !.staging[emit.run] = "whole"] /\ UNCHANGED faults
     \/ Fault /\ emit' = [emit EXCEPT !.pc = "count", !.staging[emit.run] = "absent", !.errors = @ + 1]
  /\ UNCHANGED <<auth, ship, pit>>

Rename ==
  /\ emit.up /\ emit.pc = "synced"
  /\ \/ /\ emit' = [emit EXCEPT !.pc = "shipTip", !.manifest[emit.run] = emit.staging[emit.run],
                                !.staging[emit.run] = "absent"]
        /\ UNCHANGED faults
     \/ Fault /\ emit' = [emit EXCEPT !.pc = "count", !.staging[emit.run] = "absent", !.errors = @ + 1]
  /\ UNCHANGED <<auth, ship, pit>>

(* ship: one attempt, the head then the entry.                             *)
ShipTip ==
  /\ emit.up /\ emit.pc = "shipTip"
  /\ \/ emit' = [emit EXCEPT !.pc = "shipPost", !.tip = Tip] /\ UNCHANGED faults
     \/ Fault /\ emit' = [emit EXCEPT !.pc = "count", !.errors = @ + 1]
  /\ UNCHANGED <<auth, ship, pit>>

ShipPost ==
  /\ emit.up /\ emit.pc = "shipPost"
  /\ \/ /\ emit.tip = Tip /\ pit' = Append(pit, [prev |-> Tip, lines |-> <<-1>>]) /\ UNCHANGED faults
        /\ emit' = [emit EXCEPT !.pc = "count", !.shipped = @ + 1]
     \/ /\ emit.tip = Tip /\ Fault /\ pit' = Append(pit, [prev |-> Tip, lines |-> <<-1>>])
        /\ emit' = [emit EXCEPT !.pc = "count", !.errors = @ + 1]
     \/ emit.tip # Tip /\ emit' = [emit EXCEPT !.pc = "count", !.errors = @ + 1] /\ UNCHANGED <<pit, faults>>
  /\ UNCHANGED <<auth, ship>>

execute ==
  /\ emit.up /\ emit.pc = "count"
  /\ emit' = [emit EXCEPT !.campaigns = @ + 1, !.pc = "release"] /\ UNCHANGED <<auth, ship, pit, faults>>

(* Mutant of Release: the reservation is kept.                             *)
ReleaseKeeps ==
  /\ emit.up /\ emit.pc = "release"
  /\ emit' = [emit EXCEPT !.pc = "idle"] /\ UNCHANGED <<auth, ship, pit, faults>>

Release ==
  /\ emit.up /\ emit.pc = "release"
  /\ emit' = [emit EXCEPT !.busy = FALSE, !.pc = "idle"] /\ UNCHANGED <<auth, ship, pit, faults>>

EmitSignal ==
  /\ emit.up /\ ~emit.signal /\ emit' = [emit EXCEPT !.signal = TRUE] /\ UNCHANGED <<auth, ship, pit, faults>>

Crash ==
  /\ emit.up /\ emit.crashes < MaxCrashes
  /\ emit' = [emit EXCEPT !.up = FALSE, !.busy = FALSE, !.pc = "idle", !.crashes = @ + 1]
  /\ UNCHANGED <<auth, ship, pit, faults>>
Restart ==
  /\ ~emit.up
  /\ emit' = [emit EXCEPT !.up = TRUE, !.signal = FALSE, !.campaigns = 0, !.errors = 0, !.shipped = 0,
                          !.client = [c \in Clients |-> "idle"]]
  /\ UNCHANGED <<auth, ship, pit, faults>>

-----------------------------------------------------------------------------
Server == \/ \E q \in Questions, s \in Sources : Receive(q, s)
          \/ Append_ \/ AppendFails \/ Ship \/ WriteTo \/ Signal \/ CloseSocket \/ ReadClosed \/ Leave
          \/ JournalClose \/ ClockMoves
Shipper == Tick \/ refreshTip \/ appendBatch \/ Reread \/ Stop \/ Rival
Emitter == \/ \E c \in Clients, r \in RunIDs, first \in {"replay", "launch"} : reserve(c, r, first)
           \/ Passes \/ RunReplay \/ Send \/ RunTool \/ CreateStaging \/ WriteStaging \/ Rename \/ ShipTip \/ ShipPost
           \/ execute \/ Release \/ EmitSignal \/ Crash \/ Restart

(* The steps of a campaign that do not wait on a willing tool.             *)
Campaign == Passes \/ RunReplay \/ Send \/ Launch \/ Terminate \/ Kill \/ (emit.pc = "kill" /\ ToolEnds) \/ CreateStaging
            \/ WriteStaging \/ Rename \/ ShipTip \/ ShipPost \/ execute \/ Release \/ Restart

Next == Server \/ Shipper \/ Emitter

(* The goroutines run, the ticker ticks and time passes.                   *)
Fairness ==
  /\ WF_vars(Append_ \/ AppendFails) /\ WF_vars(Ship) /\ WF_vars(WriteTo) /\ WF_vars(CloseSocket)
  /\ WF_vars(ReadClosed) /\ WF_vars(Leave) /\ WF_vars(JournalClose)
  /\ WF_vars(refreshTip \/ appendBatch \/ Reread) /\ SF_vars(Stop)
  /\ WF_vars(Campaign)

Spec == Init /\ [][Next]_vars /\ Fairness

-----------------------------------------------------------------------------
Count(f, k) == Cardinality({i \in DOMAIN f : \E j \in DOMAIN f[i].lines : f[i].lines[j] = k})

(* Every line the server handed to the shipper is counted once, shipped or *)
(* dropped, or waits, except those enqueued after the shipper left on the  *)
(* same signal; a line counted as shipped is in logpit, where lines keep   *)
(* the order of the questions within a batch and the chain is unbroken,    *)
(* whatever was lost, refused or sent again.                               *)
LinesAccounted ==
  /\ ship.offered = ship.shipped + ship.dropped +
       (IF ship.pc = "done" THEN ship.late ELSE Len(ship.queue) + Len(ship.body))
  /\ (ship.late > 0 => auth.signal)
  /\ ship.shipped <= Cardinality(ship.stored)
  /\ \A k \in 2 .. Len(pit) : pit[k].prev = k - 1
  /\ \A k \in DOMAIN pit : \A i, j \in DOMAIN pit[k].lines : i < j => pit[k].lines[i] < pit[k].lines[j]
  /\ Len(ship.queue) + Len(ship.body) <= QueueMax

(* An answer leaves only once its line is whole in the journal file of its *)
(* hour, lines are in the order of the questions, and a bucket answers no  *)
(* more than its burst and the time that passed allow, although sources    *)
(* share it and the wall clock is set back.                                *)
AnswersJournaled ==
  /\ \A a \in auth.answered : \E k \in DOMAIN auth.disk : auth.disk[k].line.id = a /\ ~auth.disk[k].line.limited
  /\ auth.answered \subseteq auth.counted
  /\ \A j, k \in DOMAIN auth.disk : j < k => auth.disk[j].line.id < auth.disk[k].line.id
  /\ Len(auth.disk) - Cardinality(auth.counted) \in {0, 1}
  /\ \A b \in Buckets : auth.allowed[b] <= Burst + Rate * (auth.top - auth.first[b])

(* Every line handed to the shipper is shipped, dropped or waiting,        *)
(* exactly once, and logpit stays one chain although replies are lost and  *)
(* another origin writes; an answer leaves only once its line is in the    *)
(* journal, and a bucket keeps to its rate although the clock goes back.   *)
LabAccounted == LinesAccounted /\ AnswersJournaled

(* A response fits 512 octets and gives data or denies a name only for a   *)
(* whole question.  The name of such a question is under the apex label by *)
(* label, and the pointer of its SOA record, computed on the dotted name,  *)
(* is the offset of the apex on the wire, unless a label holds a '.'       *)
(* octet; even then the pointer stays inside the question.                 *)
UnderApex(q, z) ==
  \E k \in 0 .. Len(q.labels) :
    SubSeq(q.labels, k + 1, Len(q.labels)) = [i \in DOMAIN z.apex |-> <<z.apex[i]>>]
ResponseSound(q, z) ==
  LET r == BuildResponse(q, z)
      plain == \A k \in DOMAIN q.labels : Len(q.labels[k]) = 1
      before == SubSeq(q.labels, 1, Len(q.labels) - Len(z.apex))
  IN  /\ r.n <= 512
      /\ r.verdict \in {"answer_a", "answer_aaaa", "answer_txt", "no_data", "nxdomain"} =>
           q.class = 1 /\ q.opcode = 0 /\ ValidQuestion(q) /\ (plain => UnderApex(q, z))
      /\ r.verdict = "nxdomain" =>
           r.pointer \in 12 .. QuestionEnd(q) - 6 /\ (plain => r.pointer = 12 + Wire(before))

(* One campaign runs at a time, the questions sent so far never exceed the *)
(* pace although the process may sleep between the clock and the send, and *)
(* a published manifest is whole whenever the process dies.                *)
CampaignAlone ==
  /\ emit.up => (emit.busy <=> emit.pc # "idle")
  /\ emit.up => Cardinality({c \in Clients : emit.client[c] = "accepted"}) - emit.campaigns
                  = IF emit.busy /\ emit.pc # "release" THEN 1 ELSE 0
  /\ emit.busy => emit.sends <= (emit.clock - emit.start) \div Interval + 1
  /\ \A r \in RunIDs : emit.manifest[r] # "empty"
  /\ emit.shipped <= Cardinality({k \in DOMAIN pit : pit[k].lines = <<-1>>})

(* A signal ends the shipper and closes the journal, and a campaign always *)
(* gives its reservation back, even when its tool ignores SIGTERM.         *)
LabSettles ==
  /\ auth.signal ~> (ship.pc = "done")
  /\ (auth.pc = "left") ~> (auth.hour = -1)
  /\ emit.busy ~> ~emit.busy
=============================================================================
