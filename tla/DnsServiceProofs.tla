-------------------------- MODULE DnsServiceProofs --------------------------
(***************************************************************************)
(* LabAccounted and CampaignAlone hold of DnsLab for any datagrams, zones, *)
(* senders, campaigns, rates and capacities, whatever fails and however    *)
(* long the services run.  The argument: the identifiers of the lines only *)
(* grow, so that what is stored, in the batch and in the queue are three   *)
(* stretches that follow one another (Stretches); a line that was stored   *)
(* without its receipt is still in the batch, so the lines counted as      *)
(* shipped are among those stored outside of it (ShipInv).  A bucket pays  *)
(* every answer with a token, and the time that gives tokens is counted up *)
(* to the stamp only (RateInv).  The date of the next question is at least *)
(* an interval after that of every one before (EmitInv).                   *)
(*                                                                         *)
(* EvidenceExact holds of DnsLive for any addresses, runs, handlers and    *)
(* limits.  Each critical section is shown to take a sound state of the    *)
(* service to a sound one that follows it (ServiceInv, Follows): a source  *)
(* that is closed without error never changes again, and after a failure   *)
(* the journal gives no number, so that a file has at most one event too   *)
(* many.  What was sent, served and seen then stays true, and a Close that *)
(* met no error leaves nobody who could move (CloserInv).                  *)
(***************************************************************************)
EXTENDS DnsLab, DnsLive, FiniteSetTheorems, SequenceTheorems, TLAPS

Below(S, T) == \A s \in S, t \in T : s < t

-----------------------------------------------------------------------------
(* Types.  What a line says of its response is what BuildResponse said.    *)
Responses == {BuildResponse(q, z) : q \in Questions, z \in Zones} \cup {[n |-> 0, verdict |-> "ignored", pointer |-> 0]}
Lines == [id : Nat, by : Sources, n : {r.n : r \in Responses}, limited : BOOLEAN, verdict : {r.verdict : r \in Responses}]

Disk == Seq([line : Lines, hour : Int])

AuthShape ==
  DOMAIN auth = {"pc", "zone", "line", "hour", "disk", "unsynced", "torn", "tokens", "stamp", "first", "allowed",
                 "clock", "top", "seen", "answered", "counted", "signal", "closed"}
AuthType ==
  /\ AuthShape
  /\ auth.pc \in {"read", "append", "ship", "write", "leave", "left"} /\ auth.signal \in BOOLEAN
  /\ auth.zone \in Zones /\ auth.line \in Lines /\ auth.disk \in Disk
  /\ auth.tokens \in [Buckets -> Nat] /\ auth.stamp \in [Buckets -> Int]
  /\ auth.first \in [Buckets -> Nat] /\ auth.allowed \in [Buckets -> Nat]
  /\ auth.clock \in Nat /\ auth.top \in Nat /\ auth.seen \in Nat
  /\ auth.answered \in SUBSET Nat /\ auth.counted \in SUBSET Nat

ShipFields == {"pc", "queue", "body", "attempts", "prev", "shipped", "dropped", "offered", "late", "stored"}
ShipType ==
  /\ DOMAIN ship = ShipFields
  /\ ship.pc \in {"tick", "tip", "post", "reread", "done"}
  /\ ship.queue \in Seq(Nat) /\ ship.body \in Seq(Nat) /\ ship.stored \in SUBSET Nat
  /\ ship.attempts \in Nat /\ ship.prev \in Nat /\ ship.shipped \in Nat /\ ship.dropped \in Nat
  /\ ship.offered \in Nat /\ ship.late \in Nat

PitType == pit \in Seq([prev : Nat, lines : Seq(Int)])

EmitShape ==
  DOMAIN emit = {"busy", "client", "pc", "run", "staging", "manifest", "clock", "due", "previous", "start", "instant",
                 "stalled", "sends", "tip", "campaigns", "errors", "shipped", "signal", "up", "crashes"}
EmitType ==
  /\ EmitShape /\ emit.busy \in BOOLEAN /\ emit.up \in BOOLEAN /\ emit.run \in RunIDs
  /\ emit.pc \in {"idle", "replay", "send", "launch", "tool", "term", "kill", "manifest", "staged", "synced", "shipTip", "shipPost", "count", "release"}
  /\ emit.client \in [Clients -> {"idle", "conflict", "accepted"}]
  /\ emit.staging \in [RunIDs -> {"absent", "empty", "whole"}]
  /\ emit.manifest \in [RunIDs -> {"absent", "empty", "whole"}]
  /\ emit.clock \in Nat /\ emit.due \in Nat /\ emit.start \in Nat /\ emit.instant \in Nat /\ emit.sends \in Nat
  /\ emit.campaigns \in Nat /\ emit.shipped \in Nat

(* Invariant of the journal: the lines on disk, those counted and the one  *)
(* in hand, along the turn of serveDNS.                                    *)
JournalInv ==
  /\ \A k \in DOMAIN auth.disk : auth.disk[k].line.id <= auth.seen
  /\ \A j, k \in DOMAIN auth.disk : j < k => auth.disk[j].line.id < auth.disk[k].line.id
  /\ IsFiniteSet(auth.counted) /\ \A c \in auth.counted : c <= auth.seen
  /\ \A a \in auth.answered : \E k \in DOMAIN auth.disk : auth.disk[k].line.id = a /\ ~auth.disk[k].line.limited
  /\ auth.answered \subseteq auth.counted
  /\ auth.pc \in {"append", "ship", "write"} => auth.line.id = auth.seen
  /\ auth.pc = "append" => \A k \in DOMAIN auth.disk : auth.disk[k].line.id < auth.seen
  /\ auth.pc \in {"append", "ship"} => \A c \in auth.counted : c < auth.seen
  /\ auth.pc \in {"ship", "write"} => \E k \in DOMAIN auth.disk : auth.disk[k].line = auth.line
  /\ auth.pc = "write" => auth.line.id \in auth.counted
  /\ Len(auth.disk) - Cardinality(auth.counted) \in
       (IF auth.pc = "ship" THEN {1} ELSE IF auth.pc \in {"leave", "left"} THEN {0, 1} ELSE {0})

(* Invariant of the limiter.                                               *)
RateInv ==
  /\ auth.clock <= auth.top
  /\ \A b \in Buckets :
       IF auth.stamp[b] = -1 THEN auth.allowed[b] = 0 /\ auth.first[b] = 0
       ELSE /\ auth.first[b] <= auth.stamp[b] /\ auth.stamp[b] <= auth.top
            /\ auth.allowed[b] + auth.tokens[b] <= Burst + Rate * (auth.stamp[b] - auth.first[b])

(* Invariants of the shipper.                                              *)
Stretches ==
  /\ Rising(ship.queue) /\ Rising(ship.body)
  /\ Below(Ids(ship.body), Ids(ship.queue)) /\ Below(ship.stored, Ids(ship.queue))
  /\ Ids(ship.queue) \cup Ids(ship.body) \cup ship.stored \subseteq auth.counted

Account ==
  /\ ship.offered = ship.shipped + ship.dropped +
       (IF ship.pc = "done" THEN ship.late ELSE Len(ship.queue) + Len(ship.body))
  /\ ship.pc # "done" => ship.late = 0
  /\ ship.pc = "done" => auth.signal
  /\ Len(ship.queue) + Len(ship.body) <= QueueMax

Receipts ==
  /\ ship.shipped <= Cardinality(ship.stored \ Ids(ship.body))
  /\ ship.pc = "reread" => Ids(ship.body) \subseteq ship.stored

ShipInv == Account /\ Receipts

(* Invariant of logpit.                                                    *)
PitInv ==
  /\ Len(pit) > 0
  /\ \A k \in 2 .. Len(pit) : pit[k].prev = k - 1
  /\ \A k \in DOMAIN pit : Rising(pit[k].lines)

(* Invariant of the campaigns.                                             *)
Accepted == {c \in Clients : emit.client[c] = "accepted"}
Reports == {k \in DOMAIN pit : pit[k].lines = <<-1>>}

Reservation ==
  /\ emit.busy <=> emit.pc # "idle"
  /\ emit.busy => emit.up
  /\ emit.up => Cardinality(Accepted) - emit.campaigns = IF emit.busy /\ emit.pc # "release" THEN 1 ELSE 0
Pace ==
  /\ emit.pc # "idle" => emit.start <= emit.clock /\ (emit.sends - 1) * Interval <= emit.clock - emit.start
  /\ emit.pc \in {"replay", "send"} => emit.start + emit.sends * Interval <= emit.due
  /\ emit.pc = "send" => emit.due <= emit.instant /\ emit.instant <= emit.clock
Manifests ==
  /\ emit.pc = "synced" => emit.staging[emit.run] = "whole"
  /\ \A r \in RunIDs : emit.manifest[r] # "empty"
Reported == emit.shipped <= Cardinality(Reports)

EmitInv == Reservation /\ Pace /\ Manifests /\ Reported

TypeInv == AuthType /\ ShipType /\ PitType /\ EmitType
LabInv == TypeInv /\ JournalInv /\ RateInv /\ Stretches /\ ShipInv /\ PitInv /\ EmitInv

-----------------------------------------------------------------------------
(* Sequences of identifiers that grow.                                     *)

(* Ids of a sequence with one more element.                                *)
LEMMA IdsAppend ==
  ASSUME NEW f \in Seq(Nat), NEW x \in Nat
  PROVE  /\ Append(f, x) \in Seq(Nat) /\ Len(Append(f, x)) = Len(f) + 1
         /\ Ids(Append(f, x)) = Ids(f) \cup {x}
<1>1. Append(f, x) \in Seq(Nat) /\ Len(Append(f, x)) = Len(f) + 1
  OBVIOUS
<1>2. DOMAIN Append(f, x) = 1 .. Len(f) + 1 /\ DOMAIN f = 1 .. Len(f)
  OBVIOUS
<1>3. \A k \in 1 .. Len(f) + 1 : Append(f, x)[k] = IF k = Len(f) + 1 THEN x ELSE f[k]
  OBVIOUS
<1>4. \A y : y \in Ids(Append(f, x)) <=> y \in Ids(f) \cup {x}
  <2> TAKE y
  <2>1. Len(f) + 1 \in 1 .. Len(f) + 1 /\ \A k \in 1 .. Len(f) : k \in 1 .. Len(f) + 1 /\ k # Len(f) + 1
    OBVIOUS
  <2> QED
    BY <1>2, <1>3, <2>1 DEF Ids
<1> QED
  BY <1>1, <1>4

(* A sequence still rises when what is appended is above all of it.        *)
LEMMA RisingAppend ==
  ASSUME NEW f \in Seq(Int), NEW x \in Int, Rising(f), Below(Ids(f), {x})
  PROVE  Rising(Append(f, x))
  BY DEF Rising, Below, Ids

(* A sequence that rises has as many identifiers as elements.              *)
LEMMA RisingCount ==
  ASSUME NEW f \in Seq(Nat), Rising(f)
  PROVE  IsFiniteSet(Ids(f)) /\ Cardinality(Ids(f)) = Len(f)
<1>1. f \in [1 .. Len(f) -> Ids(f)]
  BY DEF Ids
<1>2. \A i, j \in 1 .. Len(f) : f[i] = f[j] => i = j
  BY DEF Rising
<1>3. f \in Bijection(1 .. Len(f), Ids(f))
  BY <1>1, <1>2 DEF Bijection, Injection, Surjection, IsInjective, Ids
<1>4. ExistsBijection(1 .. Len(f), Ids(f))
  BY <1>3 DEF ExistsBijection
<1>5. IsFiniteSet(1 .. Len(f)) /\ Cardinality(1 .. Len(f)) = Len(f)
  <2>1. PICK n \in Nat : n = Len(f)
    OBVIOUS
  <2>2. IsFiniteSet(1 .. n) /\ Cardinality(1 .. n) = IF 1 > n THEN 0 ELSE n - 1 + 1
    BY FS_Interval
  <2> QED
    BY <2>1, <2>2
<1> QED
  BY <1>4, <1>5, FS_Bijection

-----------------------------------------------------------------------------
(* Types.                                                                  *)

(* A line that Receive writes has its type.                                *)
LEMMA LineType ==
  ASSUME NEW q \in Questions, NEW z \in Zones, NEW s \in Sources, NEW i \in Nat, NEW l \in BOOLEAN
  PROVE  [id |-> i, by |-> s, n |-> BuildResponse(q, z).n, limited |-> l, verdict |-> BuildResponse(q, z).verdict] \in Lines
<1>1. BuildResponse(q, z) \in Responses
  BY DEF Responses
<1> QED
  BY <1>1 DEF Lines

LEMMA ConstantTypes ==
  /\ Rate \in Nat \ {0} /\ Burst \in Nat \ {0} /\ HourLen \in Nat \ {0} /\ QueueMax \in Nat \ {0}
  /\ Attempts \in Nat \ {0} /\ SyncEvery \in Nat \ {0} /\ Interval \in Nat \ {0} /\ Duration \in Nat \ {0}
  /\ Stalls \in Nat \ {0} /\ IsFiniteSet(Clients)
  /\ \A s \in Sources : Bucket[s] \in Buckets
  /\ Idle \in Lines /\ Idle.id = 0
  /\ (CHOOSE r \in RunIDs : TRUE) \in RunIDs
<1>1. [n |-> 0, verdict |-> "ignored", pointer |-> 0] \in Responses
  BY DEF Responses
<1>2. 0 \in {r.n : r \in Responses} /\ "ignored" \in {r.verdict : r \in Responses}
  BY <1>1
<1>3. (CHOOSE s \in Sources : TRUE) \in Sources /\ (CHOOSE r \in RunIDs : TRUE) \in RunIDs
  BY DnsLabAssumption
<1> QED
  BY <1>2, <1>3, DnsLabAssumption DEF Buckets, Idle, Lines

-----------------------------------------------------------------------------
(* What the steps of the server do to the fields the invariants read.      *)
JournalSame == UNCHANGED <<auth.line, auth.disk, auth.seen, auth.answered, auth.counted>>
LimiterSame == UNCHANGED <<auth.tokens, auth.stamp, auth.first, auth.allowed, auth.clock, auth.top>>

(* A record of its type has its fields.                                    *)
LEMMA ShapeOfType == AuthType => AuthShape
  BY DEF AuthType

(* The identifiers on disk are numbers.                                    *)
LEMMA DiskIds ==
  ASSUME AuthType, NEW k \in DOMAIN auth.disk
  PROVE  auth.disk[k].line.id \in Nat
<1>1. auth.disk[k] \in [line : Lines, hour : Int]
  <2>1. auth.disk \in Disk
    BY DEF AuthType
  <2>2. \A S : \A f \in Seq(S) : \A i \in DOMAIN f : f[i] \in S
    OBVIOUS
  <2> QED
    BY <2>1, <2>2, Zenon DEF Disk
<1>2. auth.disk[k].line \in Lines
  BY <1>1
<1> QED
  BY <1>2 DEF Lines

LEMMA ReceiveEffect ==
  ASSUME AuthType, NEW q \in Questions, NEW s \in Sources, Receive(q, s)
  PROVE  /\ AuthType' /\ auth'.pc = "append" /\ auth.pc = "read"
         /\ auth'.seen = auth.seen + 1 /\ auth'.line.id = auth.seen + 1
         /\ UNCHANGED <<auth.disk, auth.answered, auth.counted, auth.signal, auth.clock, auth.top>>
         /\ \E b \in Buckets, t \in Nat :
              /\ t = Refilled(b)
              /\ auth'.tokens = [auth.tokens EXCEPT ![b] = IF t < 1 THEN t ELSE t - 1]
              /\ auth'.stamp = [auth.stamp EXCEPT ![b] = Stamped(b)]
              /\ auth'.first = [auth.first EXCEPT ![b] = IF auth.stamp[b] = -1 THEN auth.clock ELSE @]
              /\ auth'.allowed = [auth.allowed EXCEPT ![b] = IF t < 1 THEN @ ELSE @ + 1]
<1>1. Bucket[s] \in Buckets /\ Rate \in Nat /\ Burst \in Nat
  BY ConstantTypes
<1>2. PICK b \in Buckets : b = Bucket[s]
  BY <1>1
<1>3. Refilled(b) \in Nat
  BY <1>1 DEF Refilled, AuthType, Smaller
<1>4. Stamped(b) \in Int
  BY DEF Stamped, AuthType
<1>5. PICK t \in Nat : t = Refilled(b)
  BY <1>3
<1>6. PICK line \in Lines :
        /\ line.id = auth.seen + 1
        /\ line = [id |-> auth.seen + 1, by |-> s, n |-> BuildResponse(q, auth.zone).n, limited |-> t < 1,
                   verdict |-> BuildResponse(q, auth.zone).verdict]
  <2>1. auth.zone \in Zones /\ auth.seen + 1 \in Nat /\ (t < 1) \in BOOLEAN
    BY DEF AuthType
  <2> QED
    BY <2>1, LineType
<1>7. /\ auth.pc = "read" /\ auth'.pc = "append" /\ DOMAIN auth' = DOMAIN auth
      /\ auth'.seen = auth.seen + 1 /\ auth'.line = line
      /\ UNCHANGED <<auth.disk, auth.answered, auth.counted, auth.signal, auth.clock, auth.top, auth.zone>>
      /\ auth'.tokens = [auth.tokens EXCEPT ![b] = IF t < 1 THEN t ELSE t - 1]
      /\ auth'.stamp = [auth.stamp EXCEPT ![b] = Stamped(b)]
      /\ auth'.first = [auth.first EXCEPT ![b] = IF auth.stamp[b] = -1 THEN auth.clock ELSE @]
      /\ auth'.allowed = [auth.allowed EXCEPT ![b] = IF t < 1 THEN @ ELSE @ + 1]
  BY <1>2, <1>5, <1>6 DEF AuthType, AuthShape, Receive
<1>8. AuthType'
  BY <1>4, <1>7 DEF AuthType, AuthShape
<1> QED
  BY <1>5, <1>6, <1>7, <1>8

(* The journal: one line more, whole or torn.                              *)
LEMMA AppendEffect ==
  ASSUME AuthType, Append_ \/ AppendFails
  PROVE  /\ AuthType' /\ auth.pc = "append" /\ LimiterSame
         /\ UNCHANGED <<auth.line, auth.seen, auth.answered, auth.counted, auth.signal>>
         /\ \/ auth'.pc \in {"ship", "leave"} /\ auth'.disk = Append(auth.disk, [line |-> auth.line, hour |-> Hour])
            \/ auth'.pc = "leave" /\ auth'.disk = auth.disk
<1>1. HourLen \in Nat \ {0} /\ auth.clock \in Nat /\ auth.line \in Lines /\ auth.disk \in Disk
  BY ConstantTypes DEF AuthType
<1>2. Hour \in Int
  BY <1>1 DEF Hour
<1>3. Append(auth.disk, [line |-> auth.line, hour |-> Hour]) \in Disk
  BY <1>1, <1>2 DEF Disk
<1>4. /\ auth.pc = "append" /\ LimiterSame /\ DOMAIN auth' = DOMAIN auth
      /\ UNCHANGED <<auth.line, auth.seen, auth.answered, auth.counted, auth.signal, auth.zone>>
      /\ \/ auth'.pc \in {"ship", "leave"} /\ auth'.disk = Append(auth.disk, [line |-> auth.line, hour |-> Hour])
         \/ auth'.pc = "leave" /\ auth'.disk = auth.disk
  <2> USE ShapeOfType
  <2>1. CASE Append_
    BY <2>1 DEF AuthShape, Append_, LimiterSame
  <2>2. CASE AppendFails
    BY ZenonT(30), <2>2 DEF AuthShape, AppendFails, LimiterSame
  <2> QED
    BY <2>1, <2>2
<1>5. AuthType'
  BY <1>2, <1>3, <1>4 DEF AuthType, AuthShape, LimiterSame
<1> QED
  BY <1>4, <1>5

LEMMA ShipEffect ==
  ASSUME AuthType, Ship
  PROVE  /\ AuthType' /\ auth.pc = "ship" /\ auth'.pc = "write" /\ LimiterSame
         /\ UNCHANGED <<auth.line, auth.disk, auth.seen, auth.answered, auth.signal>>
         /\ auth'.counted = auth.counted \cup {auth.line.id} /\ auth.line.id \in Nat
<1>1. /\ auth.pc = "ship" /\ auth'.pc = "write" /\ LimiterSame /\ DOMAIN auth' = DOMAIN auth
      /\ UNCHANGED <<auth.line, auth.disk, auth.seen, auth.answered, auth.signal, auth.zone>>
      /\ auth'.counted = auth.counted \cup {auth.line.id}
  BY DEF AuthType, AuthShape, Ship, LimiterSame
<1>2. auth.line.id \in Nat
  BY DEF AuthType, Lines
<1> QED
  BY <1>1, <1>2 DEF AuthType, AuthShape, LimiterSame

(* An answer leaves, or not; nothing else changes.                         *)
LEMMA WriteEffect ==
  ASSUME AuthType, WriteTo
  PROVE  /\ AuthType' /\ auth.pc = "write" /\ auth'.pc \in {"read", "leave"} /\ LimiterSame
         /\ UNCHANGED <<auth.line, auth.disk, auth.seen, auth.counted, auth.signal>>
         /\ \/ auth'.answered = auth.answered
            \/ ~auth.line.limited /\ auth'.answered = auth.answered \cup {auth.line.id}
<1>1. /\ auth.pc = "write" /\ auth'.pc \in {"read", "leave"} /\ LimiterSame /\ DOMAIN auth' = DOMAIN auth
      /\ UNCHANGED <<auth.line, auth.disk, auth.seen, auth.counted, auth.signal, auth.zone>>
      /\ \/ auth'.answered = auth.answered
         \/ ~auth.line.limited /\ auth'.answered = auth.answered \cup {auth.line.id}
  BY ZenonT(30) DEF AuthType, AuthShape, WriteTo, LimiterSame
<1>2. auth.line.id \in Nat
  BY DEF AuthType, Lines
<1> QED
  BY <1>1, <1>2 DEF AuthType, AuthShape, LimiterSame

(* The other steps of the server leave the journal alone.                  *)
LEMMA QuietEffect ==
  ASSUME AuthType, Signal \/ CloseSocket \/ ReadClosed \/ Leave \/ JournalClose \/ ClockMoves
  PROVE  /\ AuthType' /\ JournalSame
         /\ UNCHANGED <<auth.tokens, auth.stamp, auth.first, auth.allowed>>
         /\ auth'.pc = auth.pc \/ (auth.pc \in {"read", "leave"} /\ auth'.pc \in {"leave", "left"})
         /\ auth.signal => auth'.signal
         /\ \/ UNCHANGED <<auth.clock, auth.top>>
            \/ auth'.top = IF auth'.clock > auth.top THEN auth'.clock ELSE auth.top
<1>1. CASE ~ClockMoves
  <2>1. /\ DOMAIN auth' = DOMAIN auth /\ JournalSame /\ LimiterSame /\ UNCHANGED <<auth.zone>>
        /\ auth'.pc = auth.pc \/ (auth.pc \in {"read", "leave"} /\ auth'.pc \in {"leave", "left"})
        /\ auth'.signal = auth.signal \/ auth'.signal = TRUE
    <3> USE ShapeOfType
    <3>1. CASE Signal
      BY <3>1 DEF AuthShape, Signal, JournalSame, LimiterSame
    <3>2. CASE CloseSocket \/ ReadClosed
      BY <3>2 DEF AuthShape, CloseSocket, ReadClosed, JournalSame, LimiterSame
    <3>3. CASE Leave \/ JournalClose
      BY <3>3 DEF AuthShape, Leave, JournalClose, JournalSame, LimiterSame
    <3> QED
      BY <1>1, <3>1, <3>2, <3>3
  <2>2. AuthType'
    BY <2>1 DEF AuthType, AuthShape, JournalSame, LimiterSame
  <2>3. auth.signal => auth'.signal
    BY <2>1
  <2> QED
    BY <2>1, <2>2, <2>3 DEF LimiterSame
<1>2. CASE ClockMoves
  <2>1. /\ DOMAIN auth' = DOMAIN auth /\ JournalSame /\ UNCHANGED <<auth.zone, auth.pc, auth.signal>>
        /\ UNCHANGED <<auth.tokens, auth.stamp, auth.first, auth.allowed>>
        /\ auth'.clock \in Nat
        /\ auth'.top = IF auth'.clock > auth.top THEN auth'.clock ELSE auth.top
    BY <1>2 DEF AuthType, AuthShape, ClockMoves, JournalSame
  <2>2. auth'.top \in Nat
    BY <2>1 DEF AuthType
  <2>3. AuthType'
    BY <2>1, <2>2 DEF AuthType, AuthShape, JournalSame
  <2>4. auth.signal => auth'.signal
    BY <2>1
  <2> QED
    BY <2>1, <2>3, <2>4
<1> QED
  BY <1>1, <1>2
-----------------------------------------------------------------------------
(* The journal.                                                            *)

(* The line in hand becomes the last one of the journal.                   *)
LEMMA JournalAppend ==
  ASSUME AuthType, JournalInv, Append_ \/ AppendFails
  PROVE  JournalInv'
<1>1. /\ auth.pc = "append"
      /\ UNCHANGED <<auth.line, auth.seen, auth.answered, auth.counted>>
      /\ \/ auth'.pc \in {"ship", "leave"} /\ auth'.disk = Append(auth.disk, [line |-> auth.line, hour |-> Hour])
         \/ auth'.pc = "leave" /\ auth'.disk = auth.disk
  BY AppendEffect
<1>2. CASE auth'.disk = auth.disk /\ auth'.pc = "leave"
  BY <1>1, <1>2 DEF JournalInv
<1>3. CASE auth'.disk = Append(auth.disk, [line |-> auth.line, hour |-> Hour]) /\ auth'.pc \in {"ship", "leave"}
  <2>0. auth.disk \in Seq([line : Lines, hour : Int])
    BY DEF AuthType, Disk
  <2>1. PICK n \in Nat : n = Len(auth.disk) /\ DOMAIN auth.disk = 1 .. n
    BY <2>0, LenProperties, Zenon
  <2>2. Len(auth'.disk) = n + 1 /\ DOMAIN auth'.disk = 1 .. n + 1
    BY <1>3, <2>1 DEF AuthType, Disk
  <2>3. \A k \in 1 .. n : auth'.disk[k] = auth.disk[k]
    BY <1>3, <2>1 DEF AuthType, Disk
  <2>4. auth'.disk[n + 1].line = auth.line
    BY <1>3, <2>1 DEF AuthType, Disk
  <2>5. /\ auth.line.id = auth.seen /\ auth.seen \in Nat
        /\ \A k \in 1 .. n : auth.disk[k].line.id < auth.seen /\ auth.disk[k].line.id \in Nat
    BY <1>1, <2>1, DiskIds DEF JournalInv, AuthType
  <2>6. \A k \in 1 .. n + 1 : auth'.disk[k].line.id <= auth.seen
    BY <2>3, <2>4, <2>5
  <2>7. \A j, k \in 1 .. n + 1 : j < k => auth'.disk[j].line.id < auth'.disk[k].line.id
    <3> SUFFICES ASSUME NEW j \in 1 .. n + 1, NEW k \in 1 .. n + 1, j < k
                 PROVE  auth'.disk[j].line.id < auth'.disk[k].line.id
      OBVIOUS
    <3>1. j \in 1 .. n
      OBVIOUS
    <3>2. CASE k = n + 1
      BY <2>3, <2>4, <2>5, <3>1, <3>2
    <3>3. CASE k \in 1 .. n
      BY <2>1, <2>3, <3>1, <3>3 DEF JournalInv
    <3> QED
      BY <3>2, <3>3
  <2>8. \A a \in auth.answered : \E k \in 1 .. n + 1 : auth'.disk[k].line.id = a /\ ~auth'.disk[k].line.limited
    <3> SUFFICES ASSUME NEW a \in auth.answered
                 PROVE  \E k \in 1 .. n + 1 : auth'.disk[k].line.id = a /\ ~auth'.disk[k].line.limited
      OBVIOUS
    <3>1. PICK k \in 1 .. n : auth.disk[k].line.id = a /\ ~auth.disk[k].line.limited
      BY <2>1 DEF JournalInv
    <3>2. k \in 1 .. n + 1
      OBVIOUS
    <3> QED
      BY <2>3, <3>1, <3>2
  <2>9. n + 1 \in 1 .. n + 1 /\ n = Cardinality(auth.counted)
    BY <1>1, <2>1, FS_CardinalityType DEF JournalInv
  <2>10. \E k \in DOMAIN auth'.disk : auth'.disk[k].line = auth'.line
    BY <1>1, <2>2, <2>4, <2>9
  <2>11. Len(auth'.disk) - Cardinality(auth'.counted) = 1
    BY <1>1, <2>2, <2>9
  <2> QED
    BY SMTT(30), <1>1, <1>3, <2>2, <2>5, <2>6, <2>7, <2>8, <2>10, <2>11 DEF JournalInv
<1> QED
  BY <1>1, <1>2, <1>3

LEMMA JournalStep ==
  ASSUME AuthType, JournalInv, Server
  PROVE  JournalInv'
<1>1. ASSUME NEW q \in Questions, NEW s \in Sources, Receive(q, s)
      PROVE  JournalInv'
  <2>1. /\ auth'.pc = "append" /\ auth.pc = "read" /\ auth'.seen = auth.seen + 1 /\ auth'.line.id = auth.seen + 1
        /\ UNCHANGED <<auth.disk, auth.answered, auth.counted>>
    BY <1>1, ReceiveEffect
  <2>2. auth.seen \in Nat /\ \A k \in DOMAIN auth.disk : auth.disk[k].line.id \in Nat
    BY DiskIds DEF AuthType
  <2>3. auth.counted \in SUBSET Nat
    BY DEF AuthType
  <2> QED
    BY <2>1, <2>2, <2>3 DEF JournalInv
<1>2. CASE Ship
  <2>1. /\ auth.pc = "ship" /\ auth'.pc = "write" /\ UNCHANGED <<auth.line, auth.disk, auth.seen, auth.answered>>
        /\ auth'.counted = auth.counted \cup {auth.line.id} /\ auth.line.id \in Nat
    BY <1>2, ShipEffect
  <2>2. /\ IsFiniteSet(auth.counted) /\ auth.line.id \notin auth.counted
        /\ auth.line.id = auth.seen /\ Len(auth.disk) - Cardinality(auth.counted) = 1
    BY <2>1 DEF JournalInv, AuthType
  <2>3. /\ IsFiniteSet(auth'.counted) /\ Cardinality(auth'.counted) = Cardinality(auth.counted) + 1
        /\ Cardinality(auth.counted) \in Nat
    BY <2>1, <2>2, FS_AddElement, FS_CardinalityType
  <2>4. Len(auth'.disk) - Cardinality(auth'.counted) = 0
    <3>1. Len(auth.disk) \in Nat
      BY DEF AuthType, Disk
    <3> QED
      BY <2>1, <2>2, <2>3, <3>1
  <2>5. auth.seen \in Nat
    BY DEF AuthType
  <2> QED
    BY <2>1, <2>2, <2>3, <2>4, <2>5 DEF JournalInv
<1>3. CASE WriteTo
  <2>1. /\ auth.pc = "write" /\ auth'.pc \in {"read", "leave"}
        /\ UNCHANGED <<auth.line, auth.disk, auth.seen, auth.counted>>
        /\ \/ auth'.answered = auth.answered
           \/ ~auth.line.limited /\ auth'.answered = auth.answered \cup {auth.line.id}
    BY <1>3, WriteEffect
  <2>2. /\ auth.line.id \in auth.counted
        /\ \E k \in DOMAIN auth.disk : auth.disk[k].line = auth.line
    BY <2>1 DEF JournalInv
  <2>3. \A a \in auth'.answered : \E k \in DOMAIN auth.disk : auth.disk[k].line.id = a /\ ~auth.disk[k].line.limited
    BY <2>1, <2>2 DEF JournalInv
  <2>4. auth'.answered \subseteq auth.counted
    BY <2>1, <2>2 DEF JournalInv
  <2> QED
    BY <2>1, <2>3, <2>4 DEF JournalInv
<1>4. CASE Signal \/ CloseSocket \/ ReadClosed \/ Leave \/ JournalClose \/ ClockMoves
  <2>1. /\ JournalSame
        /\ auth'.pc = auth.pc \/ (auth.pc \in {"read", "leave"} /\ auth'.pc \in {"leave", "left"})
    BY <1>4, QuietEffect
  <2> QED
    BY <2>1 DEF JournalInv, JournalSame
<1> QED
  BY <1>1, <1>2, <1>3, <1>4, JournalAppend DEF Server

-----------------------------------------------------------------------------
(* The limiter.                                                            *)

(* Time that passed in two stretches gives what it gives in one.           *)
LEMMA RateSum ==
  ASSUME NEW a \in Int, NEW b \in Int, NEW c \in Int, NEW r \in Int
  PROVE  r * (a - b) + r * (b - c) = r * (a - c)
  OBVIOUS

LEMMA RateGrows ==
  ASSUME NEW a \in Int, NEW b \in Int, NEW r \in Nat, a <= b
  PROVE  r * a <= r * b /\ r * a \in Int /\ r * b \in Int
  OBVIOUS

(* The bucket of the sender, before and after one token.                   *)
LEMMA RateReceive ==
  ASSUME AuthType, RateInv, NEW q \in Questions, NEW s \in Sources, Receive(q, s)
  PROVE  RateInv'
<1>1. PICK b \in Buckets, t \in Nat :
        /\ t = Refilled(b)
        /\ auth'.tokens = [auth.tokens EXCEPT ![b] = IF t < 1 THEN t ELSE t - 1]
        /\ auth'.stamp = [auth.stamp EXCEPT ![b] = Stamped(b)]
        /\ auth'.first = [auth.first EXCEPT ![b] = IF auth.stamp[b] = -1 THEN auth.clock ELSE @]
        /\ auth'.allowed = [auth.allowed EXCEPT ![b] = IF t < 1 THEN @ ELSE @ + 1]
        /\ UNCHANGED <<auth.clock, auth.top>>
  BY ReceiveEffect
<1>2. /\ Rate \in Nat \ {0} /\ Burst \in Nat \ {0}
      /\ auth.clock \in Nat /\ auth.top \in Nat /\ auth.clock <= auth.top
      /\ auth.stamp[b] \in Int /\ auth.tokens[b] \in Nat /\ auth.first[b] \in Nat /\ auth.allowed[b] \in Nat
  BY ConstantTypes DEF AuthType, RateInv
<1>3. /\ auth'.stamp[b] = Stamped(b)
      /\ auth'.first[b] = IF auth.stamp[b] = -1 THEN auth.clock ELSE auth.first[b]
      /\ auth'.allowed[b] + auth'.tokens[b] = auth.allowed[b] + t
  BY <1>1, <1>2 DEF AuthType
<1>4. CASE auth.stamp[b] = -1
  <2>1. auth.allowed[b] = 0 /\ t = Burst /\ Stamped(b) = auth.clock
    BY <1>1, <1>4 DEF RateInv, Refilled, Stamped
  <2>2. Rate * (auth.clock - auth.clock) = 0
    BY <1>2
  <2>3. /\ auth'.stamp[b] = auth.clock /\ auth'.first[b] = auth.clock
        /\ auth'.allowed[b] + auth'.tokens[b] <= Burst + Rate * (auth'.stamp[b] - auth'.first[b])
    BY <1>2, <1>3, <1>4, <2>1, <2>2
  <2> QED
    BY <1>1, <1>2, <2>3 DEF RateInv, AuthType
<1>5. CASE auth.stamp[b] # -1
  <2>1. /\ auth.first[b] <= auth.stamp[b] /\ auth.stamp[b] <= auth.top
        /\ auth.allowed[b] + auth.tokens[b] <= Burst + Rate * (auth.stamp[b] - auth.first[b])
    BY <1>5 DEF RateInv
  <2>2. CASE auth.clock > auth.stamp[b]
    <3>1. t <= auth.tokens[b] + Rate * (auth.clock - auth.stamp[b]) /\ Stamped(b) = auth.clock
      BY <1>1, <1>2, <1>5, <2>2 DEF Refilled, Stamped, Smaller
    <3>2. Rate * (auth.clock - auth.stamp[b]) + Rate * (auth.stamp[b] - auth.first[b]) = Rate * (auth.clock - auth.first[b])
      BY <1>2, RateSum
    <3>3. /\ Rate * (auth.clock - auth.stamp[b]) \in Int /\ Rate * (auth.stamp[b] - auth.first[b]) \in Int
          /\ Rate * (auth.clock - auth.first[b]) \in Int
      BY <1>2
    <3>4. auth.allowed[b] + t <= Burst + Rate * (auth.clock - auth.first[b])
      BY <1>2, <2>1, <3>1, <3>2, <3>3
    <3> QED
      BY <1>1, <1>2, <1>3, <1>5, <2>1, <2>2, <3>1, <3>4 DEF RateInv, AuthType
  <2>3. CASE ~(auth.clock > auth.stamp[b])
    <3>1. t = auth.tokens[b] /\ Stamped(b) = auth.stamp[b]
      BY <1>1, <1>5, <2>3 DEF Refilled, Stamped
    <3> QED
      BY <1>1, <1>2, <1>3, <1>5, <2>1, <3>1 DEF RateInv, AuthType
  <2> QED
    BY <2>2, <2>3
<1> QED
  BY <1>4, <1>5

LEMMA RateStep ==
  ASSUME AuthType, RateInv, Server
  PROVE  RateInv'
<1>1. ASSUME LimiterSame PROVE RateInv'
  BY <1>1 DEF LimiterSame, RateInv
<1>2. CASE Signal \/ CloseSocket \/ ReadClosed \/ Leave \/ JournalClose \/ ClockMoves
  <2>1. /\ AuthType'
        /\ UNCHANGED <<auth.tokens, auth.stamp, auth.first, auth.allowed>>
        /\ \/ UNCHANGED <<auth.clock, auth.top>>
           \/ auth'.top = IF auth'.clock > auth.top THEN auth'.clock ELSE auth.top
    BY <1>2, QuietEffect
  <2>2. auth.top <= auth'.top /\ auth'.clock <= auth'.top
    BY <2>1 DEF AuthType, RateInv
  <2>3. \A b \in Buckets : auth.stamp[b] <= auth.top => auth.stamp[b] <= auth'.top
    BY <2>1, <2>2 DEF AuthType
  <2> QED
    BY <2>1, <2>2, <2>3 DEF RateInv
<1> QED
  BY <1>1, <1>2, RateReceive, AppendEffect, ShipEffect, WriteEffect DEF Server

-----------------------------------------------------------------------------
(* What the steps of the shipper do.                                       *)
Kept == UNCHANGED <<ship.queue, ship.offered, ship.late>>
StoredOrNot == ship'.stored \in {ship.stored, ship.stored \cup Ids(ship.body)}

(* A tick makes a batch of the whole queue.                                *)
Taken ==
  /\ ship.body = <<>> /\ ship'.body = ship.queue /\ ship'.queue = <<>> /\ ship'.pc \in {"tip", "post"}
  /\ UNCHANGED <<ship.shipped, ship.dropped, ship.offered, ship.late, ship.stored>>
(* The batch keeps its place, whatever logpit did with it.                 *)
Held ==
  /\ Kept /\ UNCHANGED <<ship.body, ship.shipped, ship.dropped>> /\ ship'.pc \in {"tick", "tip", "post"}
  /\ StoredOrNot
(* It is stored and its receipt is unreadable.                             *)
Waits ==
  /\ Kept /\ UNCHANGED <<ship.body, ship.shipped, ship.dropped>> /\ ship'.pc = "reread"
  /\ ship'.stored = ship.stored \cup Ids(ship.body)
(* It is given up after its last attempt.                                  *)
GivenUp ==
  /\ Kept /\ ship'.body = <<>> /\ ship'.dropped = ship.dropped + Len(ship.body) /\ ship'.shipped = ship.shipped
  /\ ship'.pc = "tick" /\ StoredOrNot
(* It is counted as shipped.                                               *)
Receipted ==
  /\ Kept /\ ship'.body = <<>> /\ ship'.shipped = ship.shipped + Len(ship.body) /\ ship'.dropped = ship.dropped
  /\ ship'.pc = "tick"
  /\ \/ ship'.stored = ship.stored \cup Ids(ship.body)
     \/ ship.pc = "reread" /\ ship'.stored = ship.stored
Stopped ==
  /\ Kept /\ UNCHANGED <<ship.body, ship.shipped, ship.stored>> /\ auth.signal /\ ship'.pc = "done"
  /\ ship'.dropped = ship.dropped + Len(ship.queue) + Len(ship.body)

ShipMoves == Taken \/ Held \/ Waits \/ GivenUp \/ Receipted \/ Stopped

LEMMA SettledEffect ==
  ASSUME NEW s, DOMAIN s = ShipFields, NEW field \in {"shipped", "dropped"}
  PROVE  /\ DOMAIN Settled(s, field) = ShipFields
         /\ Settled(s, field).body = <<>> /\ Settled(s, field).attempts = 0 /\ Settled(s, field).pc = "tick"
         /\ Settled(s, field)[field] = s[field] + Len(s.body)
         /\ \A g \in ShipFields \ {field, "body", "attempts", "pc"} : Settled(s, field)[g] = s[g]
  BY DEF Settled, ShipFields

LEMMA ShippedEffect ==
  ASSUME NEW s, DOMAIN s = ShipFields, NEW t, t = Settled(s, "shipped")
  PROVE  /\ DOMAIN t = ShipFields /\ t.stored = s.stored /\ t.attempts = 0 /\ t.pc = "tick"
         /\ t.queue = s.queue /\ t.shipped = s.shipped + Len(s.body) /\ t.offered = s.offered
         /\ t.late = s.late /\ t.body = <<>> /\ t.dropped = s.dropped
  BY DEF Settled, ShipFields

LEMMA FailedEffect ==
  ASSUME NEW s, DOMAIN s = ShipFields, s.attempts \in Nat
  PROVE  /\ DOMAIN Failed(s) = ShipFields /\ Failed(s).pc = "tick" /\ Failed(s).prev = 0 /\ Failed(s).attempts \in Nat
         /\ \A g \in {"queue", "shipped", "offered", "late", "stored"} : Failed(s)[g] = s[g]
         /\ \/ Failed(s).body = s.body /\ Failed(s).dropped = s.dropped
            \/ Failed(s).body = <<>> /\ Failed(s).dropped = s.dropped + Len(s.body)
<1>1. PICK t : t = [s EXCEPT !.attempts = @ + 1, !.prev = 0, !.pc = "tick"]
  OBVIOUS
<1>2. /\ DOMAIN t = ShipFields /\ t.pc = "tick" /\ t.prev = 0 /\ t.attempts \in Nat
      /\ t.queue = s.queue /\ t.shipped = s.shipped /\ t.offered = s.offered /\ t.late = s.late /\ t.stored = s.stored
      /\ t.body = s.body /\ t.dropped = s.dropped
  BY <1>1 DEF ShipFields
<1>3. Failed(s) = t \/ Failed(s) = Settled(t, "dropped")
  BY <1>1 DEF Failed
<1>4. CASE Failed(s) = t
  BY <1>2, <1>4
<1>5. CASE Failed(s) = Settled(t, "dropped")
  <2>1. /\ DOMAIN Settled(t, "dropped") = ShipFields
        /\ Settled(t, "dropped").body = <<>> /\ Settled(t, "dropped").attempts = 0 /\ Settled(t, "dropped").pc = "tick"
        /\ Settled(t, "dropped").dropped = t.dropped + Len(t.body)
        /\ \A g \in ShipFields \ {"dropped", "body", "attempts", "pc"} : Settled(t, "dropped")[g] = t[g]
    BY <1>2, SettledEffect
  <2> QED
    BY <1>2, <1>5, <2>1 DEF ShipFields
<1> QED
  BY <1>3, <1>4, <1>5

(* The record that keeps what logpit stored.                               *)
LEMMA StoredEffect ==
  ASSUME ShipType
  PROVE  /\ DOMAIN Stored = ShipFields /\ Stored.stored = ship.stored \cup Ids(ship.body)
         /\ \A g \in ShipFields \ {"stored"} : Stored[g] = ship[g]
  BY DEF Stored, ShipType, ShipFields, Ids

(* Failed is Held or GivenUp.                                              *)
LEMMA FailedMoves ==
  ASSUME ShipType, ship' = Failed(ship) \/ ship' = Failed(Stored)
  PROVE  (Held \/ GivenUp) /\ DOMAIN ship' = ShipFields /\ ship'.prev \in Nat /\ ship'.attempts \in Nat
<1>1. CASE ship' = Failed(ship)
  <2>1. ship.attempts \in Nat /\ DOMAIN ship = ShipFields
    BY DEF ShipType
  <2> QED
    BY <1>1, <2>1, FailedEffect DEF Held, GivenUp, Kept, StoredOrNot
<1>2. CASE ship' = Failed(Stored)
  <2>1. /\ DOMAIN Stored = ShipFields /\ Stored.stored = ship.stored \cup Ids(ship.body) /\ Stored.attempts \in Nat
        /\ Stored.queue = ship.queue /\ Stored.shipped = ship.shipped /\ Stored.offered = ship.offered
        /\ Stored.late = ship.late /\ Stored.body = ship.body /\ Stored.dropped = ship.dropped
    BY StoredEffect DEF ShipType, ShipFields
  <2> QED
    BY <1>2, <2>1, FailedEffect DEF Held, GivenUp, Kept, StoredOrNot
<1> QED
  BY <1>1, <1>2

(* Every step of the shipper is one of the moves.                          *)
LEMMA ShipperMoves ==
  ASSUME ShipType, PitType, Tick \/ refreshTip \/ appendBatch \/ Reread \/ Stop
  PROVE  /\ ship.pc # "done" /\ ShipMoves /\ auth' = auth /\ emit' = emit
         /\ DOMAIN ship' = ShipFields /\ ship'.prev \in Nat /\ ship'.attempts \in Nat
<1>1. Tip \in Nat /\ Tip + 1 \in Nat
  BY DEF Tip, PitType
<1>2. DOMAIN ship = ShipFields
  BY DEF ShipType
<1>3. CASE Tick
  BY <1>2, <1>3 DEF Tick, ShipType, ShipFields, ShipMoves, Taken, Held, Kept, StoredOrNot
<1>4. CASE refreshTip
  <2>1. ship.pc = "tip" /\ auth' = auth /\ emit' = emit
    BY <1>4 DEF refreshTip
  <2>2. CASE ship' = [ship EXCEPT !.prev = Tip, !.pc = "post"]
    BY <1>1, <1>2, <2>1, <2>2 DEF ShipType, ShipFields, ShipMoves, Held, Kept, StoredOrNot
  <2>3. CASE ship' = Failed(ship)
    BY <2>1, <2>3, FailedMoves DEF ShipMoves
  <2> QED
    BY <1>4, <2>2, <2>3 DEF refreshTip
<1>5. CASE appendBatch
  <2>1. ship.pc = "post" /\ auth' = auth /\ emit' = emit
    BY <1>5 DEF appendBatch
  <2>2. CASE ship' = [Settled(Stored, "shipped") EXCEPT !.prev = Tip + 1]
    <3>1. /\ DOMAIN Stored = ShipFields /\ Stored.stored = ship.stored \cup Ids(ship.body)
          /\ Stored.queue = ship.queue /\ Stored.shipped = ship.shipped /\ Stored.offered = ship.offered
          /\ Stored.late = ship.late /\ Stored.body = ship.body /\ Stored.dropped = ship.dropped
      BY StoredEffect DEF ShipFields
    <3>2. PICK t : t = Settled(Stored, "shipped")
      OBVIOUS
    <3>3. /\ DOMAIN t = ShipFields /\ t.stored = ship.stored \cup Ids(ship.body) /\ t.attempts = 0 /\ t.pc = "tick"
          /\ t.queue = ship.queue /\ t.shipped = ship.shipped + Len(ship.body) /\ t.offered = ship.offered
          /\ t.late = ship.late /\ t.body = <<>> /\ t.dropped = ship.dropped
      BY <3>1, <3>2, ShippedEffect
    <3> QED
      BY <1>1, <2>1, <2>2, <3>2, <3>3 DEF ShipFields, ShipMoves, Receipted, Kept
  <2>3. CASE ship' = [Stored EXCEPT !.pc = "reread"]
    <3>1. /\ DOMAIN Stored = ShipFields /\ Stored.stored = ship.stored \cup Ids(ship.body)
          /\ Stored.queue = ship.queue /\ Stored.shipped = ship.shipped /\ Stored.offered = ship.offered
          /\ Stored.late = ship.late /\ Stored.body = ship.body /\ Stored.dropped = ship.dropped
          /\ Stored.prev \in Nat /\ Stored.attempts \in Nat
      BY StoredEffect DEF ShipFields, ShipType
    <3> QED
      BY <2>1, <2>3, <3>1 DEF ShipFields, ShipMoves, Waits, Kept
  <2>4. CASE ship' = Failed(ship) \/ ship' = Failed(Stored)
    BY <2>1, <2>4, FailedMoves DEF ShipMoves
  <2> QED
    BY <1>5, <2>2, <2>3, <2>4 DEF appendBatch
<1>6. CASE Reread
  <2>1. PICK t : t = Settled(ship, "shipped")
    OBVIOUS
  <2>2. /\ DOMAIN t = ShipFields /\ t.stored = ship.stored /\ t.attempts = 0 /\ t.pc = "tick"
        /\ t.queue = ship.queue /\ t.shipped = ship.shipped + Len(ship.body) /\ t.offered = ship.offered
        /\ t.late = ship.late /\ t.body = <<>> /\ t.dropped = ship.dropped
    BY <1>2, <2>1, ShippedEffect
  <2>3. /\ ship.pc = "reread" /\ auth' = auth /\ emit' = emit
        /\ \E p \in {Tip, 0} : ship' = [t EXCEPT !.prev = p]
    BY <1>6, <2>1 DEF Reread
  <2> QED
    BY <1>1, <2>2, <2>3 DEF ShipFields, ShipMoves, Receipted, Kept
<1>7. CASE Stop
  BY <1>2, <1>7 DEF Stop, ShipType, ShipFields, ShipMoves, Stopped, Kept
<1> QED
  BY <1>3, <1>4, <1>5, <1>6, <1>7

(* Numbers and the set of stored lines keep their types.                   *)
LEMMA MovesType ==
  ASSUME ShipType, ShipMoves, DOMAIN ship' = ShipFields, ship'.prev \in Nat, ship'.attempts \in Nat
  PROVE  ShipType'
<1>1. /\ Len(ship.body) \in Nat /\ Len(ship.queue) \in Nat /\ <<>> \in Seq(Nat) /\ Ids(ship.body) \in SUBSET Nat
  BY DEF ShipType, Ids
<1>2. /\ ship'.queue \in Seq(Nat) /\ ship'.body \in Seq(Nat) /\ ship'.stored \in SUBSET Nat
      /\ ship'.pc \in {"tick", "tip", "post", "reread", "done"}
  BY <1>1 DEF ShipType, ShipMoves, Taken, Held, Waits, GivenUp, Receipted, Stopped, Kept, StoredOrNot
<1>3. /\ ship'.shipped \in Nat /\ ship'.dropped \in Nat /\ ship'.offered \in Nat /\ ship'.late \in Nat
  BY SMTT(30), <1>1 DEF ShipType, ShipMoves, Taken, Held, Waits, GivenUp, Receipted, Stopped, Kept, StoredOrNot
<1> QED
  BY <1>2, <1>3 DEF ShipType

(* The stretches follow one another after every move.                      *)
LEMMA MovesStretches ==
  ASSUME ShipType, Stretches, ShipMoves, auth' = auth
  PROVE  Stretches'
<1>1. Ids(<<>>) = {} /\ Rising(<<>>)
  BY DEF Ids, Rising
<1>2. CASE Taken
  BY <1>1, <1>2 DEF Taken, Stretches, Below
<1>3. CASE Held \/ Waits \/ Stopped
  <2>1. UNCHANGED <<ship.queue, ship.body>> /\ StoredOrNot
    BY <1>3 DEF Held, Waits, Stopped, Kept, StoredOrNot
  <2> QED
    BY <2>1 DEF Stretches, StoredOrNot, Below
<1>4. CASE GivenUp \/ Receipted
  <2>1. UNCHANGED <<ship.queue>> /\ ship'.body = <<>> /\ StoredOrNot
    BY <1>4 DEF GivenUp, Receipted, Kept, StoredOrNot
  <2> QED
    BY <1>1, <2>1 DEF Stretches, StoredOrNot, Below
<1> QED
  BY <1>2, <1>3, <1>4 DEF ShipMoves

(* Every line keeps one account.                                           *)
LEMMA MovesAccount ==
  ASSUME ShipType, Account, ship.pc # "done", ShipMoves, auth' = auth
  PROVE  Account'
<1>1. PICK b \in Nat, q \in Nat, m \in Nat : b = Len(ship.body) /\ q = Len(ship.queue) /\ m = QueueMax
  BY ConstantTypes DEF ShipType
<1>2. /\ ship.offered = ship.shipped + ship.dropped + (q + b) /\ ship.late = 0 /\ q + b <= m
      /\ ship.offered \in Nat /\ ship.shipped \in Nat /\ ship.dropped \in Nat
  BY <1>1 DEF Account, ShipType
<1>3. Len(<<>>) = 0
  OBVIOUS
<1>4. CASE Taken
  <2>1. b = 0
    BY <1>1, <1>3, <1>4 DEF Taken
  <2>2. Len(ship'.body) = q /\ Len(ship'.queue) = 0 /\ ship'.pc # "done" /\ ship'.late = 0
    BY <1>1, <1>2, <1>3, <1>4 DEF Taken
  <2>3. ship'.offered = ship'.shipped + ship'.dropped + (0 + q)
    BY <1>2, <1>4, <2>1 DEF Taken
  <2> QED
    BY <1>1, <1>2, <2>1, <2>2, <2>3 DEF Account
<1>5. CASE Held \/ Waits
  <2>1. UNCHANGED <<ship.queue, ship.body, ship.shipped, ship.dropped, ship.offered, ship.late>> /\ ship'.pc # "done"
    BY <1>5 DEF Held, Waits, Kept
  <2> QED
    BY <2>1 DEF Account
<1>6. CASE GivenUp \/ Receipted
  <2>1. /\ Len(ship'.body) = 0 /\ Len(ship'.queue) = q /\ ship'.pc # "done" /\ ship'.late = 0
        /\ ship'.offered = ship.offered
    BY <1>1, <1>2, <1>3, <1>6 DEF GivenUp, Receipted, Kept
  <2>2. ship'.shipped + ship'.dropped = ship.shipped + ship.dropped + b /\ ship'.shipped \in Nat /\ ship'.dropped \in Nat
    BY SMTT(30), <1>1, <1>2, <1>6 DEF GivenUp, Receipted
  <2>3. ship'.offered = ship'.shipped + ship'.dropped + (Len(ship'.queue) + Len(ship'.body))
    BY <1>2, <2>1, <2>2
  <2>4. q + 0 <= m
    <3>1. q + b <= m
      BY <1>2
    <3> QED
      BY <3>1
  <2>5. Len(ship'.queue) + Len(ship'.body) <= QueueMax
    BY <1>1, <2>1, <2>4
  <2> QED
    BY <2>1, <2>3, <2>5 DEF Account
<1>7. CASE Stopped
  <2>1. /\ ship'.pc = "done" /\ ship'.late = 0 /\ auth.signal /\ Len(ship'.queue) = q /\ Len(ship'.body) = b
        /\ ship'.dropped = ship.dropped + q + b /\ ship'.offered = ship.offered /\ ship'.shipped = ship.shipped
    BY <1>1, <1>2, <1>7 DEF Stopped, Kept
  <2>2. ship'.offered = ship'.shipped + ship'.dropped + ship'.late
    BY <1>2, <2>1
  <2> QED
    BY <1>1, <1>2, <2>1, <2>2 DEF Account
<1> QED
  BY <1>4, <1>5, <1>6, <1>7 DEF ShipMoves

(* What is counted as shipped stays among what is stored, outside of the   *)
(* batch.                                                                  *)
LEMMA MovesReceipts ==
  ASSUME ShipType, Stretches, Receipts, IsFiniteSet(auth.counted), ShipMoves
  PROVE  Receipts'
<1>1. PICK all : all = ship.stored \cup Ids(ship.body)
  OBVIOUS
<1>2. PICK out : out = ship.stored \ Ids(ship.body)
  OBVIOUS
<1>3. /\ IsFiniteSet(ship.stored)
      /\ IsFiniteSet(Ids(ship.body)) /\ Cardinality(Ids(ship.body)) = Len(ship.body)
  <2>1. ship.stored \in SUBSET auth.counted
    BY DEF Stretches
  <2> QED
    BY <2>1, FS_Subset, RisingCount DEF Stretches, ShipType
<1>4. /\ IsFiniteSet(out) /\ Cardinality(out) \in Nat /\ Cardinality(ship.stored) \in Nat
  BY <1>2, <1>3, FS_Difference, FS_CardinalityType
<1>5. Cardinality(out) <= Cardinality(ship.stored)
  BY <1>2, <1>3, FS_Subset
<1>6. PICK b \in Nat, c \in Nat, d \in Nat : b = Len(ship.body) /\ c = Cardinality(out) /\ d = Cardinality(ship.stored)
  BY <1>4 DEF ShipType
<1>7. Cardinality(all) = c + b
  <2>1. all = out \cup Ids(ship.body) /\ out \cap Ids(ship.body) = {}
    BY <1>1, <1>2
  <2>2. Cardinality(all) = Cardinality(out) + Cardinality(Ids(ship.body)) - Cardinality(out \cap Ids(ship.body))
    BY <1>3, <1>4, <2>1, FS_Union
  <2>3. Cardinality(out \cap Ids(ship.body)) = 0
    BY <2>1, FS_EmptySet
  <2> QED
    BY <1>3, <1>6, <2>2, <2>3
<1>8. ship.shipped \in Nat /\ ship.shipped <= c /\ c <= d
  BY <1>2, <1>5, <1>6 DEF Receipts, ShipType
<1>9. all \ Ids(ship.body) = out /\ Ids(<<>>) = {}
  BY <1>1, <1>2 DEF Ids
<1>10. CASE Taken
  <2>1. ship'.stored \ Ids(ship'.body) = ship.stored
    <3>1. \A x \in ship.stored : x \in Nat /\ x \notin Ids(ship.queue)
      BY DEF Stretches, Below, ShipType
    <3> QED
      BY <1>10, <3>1 DEF Taken
  <2>2. ship'.shipped <= d
    BY <1>8, <1>10 DEF Taken
  <2> QED
    BY <1>6, <1>10, <2>1, <2>2 DEF Taken, Receipts
<1>11. CASE Held \/ Waits \/ Stopped
  <2>1. /\ UNCHANGED <<ship.body, ship.shipped>> /\ ship'.stored \in {ship.stored, all}
        /\ ship'.pc = "reread" => ship'.stored = all
    BY <1>1, <1>11 DEF Held, Waits, Stopped, Kept, StoredOrNot
  <2>2. ship'.stored \ Ids(ship'.body) = out
    BY <1>2, <1>9, <2>1
  <2> QED
    BY <1>1, <1>6, <1>8, <2>1, <2>2 DEF Receipts
<1>12. CASE GivenUp
  <2>1. /\ ship'.stored \ Ids(ship'.body) = ship'.stored /\ ship'.stored \in {ship.stored, all}
        /\ ship'.shipped = ship.shipped /\ ship'.pc # "reread"
    BY <1>1, <1>9, <1>12 DEF GivenUp, StoredOrNot
  <2>2. Cardinality(ship'.stored) \in {d, c + b}
    BY <1>6, <1>7, <2>1
  <2>3. ship.shipped <= Cardinality(ship'.stored)
    BY <1>8, <2>2
  <2> QED
    BY <2>1, <2>3 DEF Receipts
<1>13. CASE Receipted
  <2>1. ship.pc = "reread" => all = ship.stored
    BY <1>1 DEF Receipts
  <2>2. /\ ship'.stored = all /\ ship'.stored \ Ids(ship'.body) = ship'.stored /\ ship'.pc # "reread"
        /\ ship'.shipped = ship.shipped + b
    BY <1>1, <1>6, <1>9, <1>13, <2>1 DEF Receipted
  <2>3. ship.shipped + b <= c + b
    BY <1>8
  <2> QED
    BY <1>7, <2>2, <2>3 DEF Receipts
<1> QED
  BY <1>10, <1>11, <1>12, <1>13 DEF ShipMoves

(* The callback of the journal: the line in hand is above all the others.  *)
LEMMA EnqueueStep ==
  ASSUME AuthType, ShipType, JournalInv, Stretches, ShipInv, Ship
  PROVE  ShipType' /\ Stretches' /\ ShipInv'
<1>1. /\ auth.pc = "ship" /\ auth'.counted = auth.counted \cup {auth.line.id} /\ auth.line.id \in Nat
      /\ UNCHANGED <<auth.signal>>
  BY ShipEffect
<1>2. PICK x \in Nat : x = auth.line.id /\ \A c \in auth.counted : c < x
  BY <1>1 DEF JournalInv
<1>3. ship' = enqueue(ship, x)
  BY <1>2 DEF Ship
<1>4. PICK b \in Nat, q \in Nat, m \in Nat : b = Len(ship.body) /\ q = Len(ship.queue) /\ m = QueueMax
  BY ConstantTypes DEF ShipType
<1>5. /\ ship.offered \in Nat /\ ship.shipped \in Nat /\ ship.dropped \in Nat /\ ship.late \in Nat
      /\ DOMAIN ship = ShipFields
  BY DEF ShipType
<1>8. PICK w \in Nat :
        w = (IF ship.pc = "done" THEN ship.late ELSE q + b) /\ ship.offered = ship.shipped + ship.dropped + w
  <2>1. (IF ship.pc = "done" THEN ship.late ELSE q + b) \in Nat
    BY <1>5
  <2>2. ship.offered = ship.shipped + ship.dropped + (IF ship.pc = "done" THEN ship.late ELSE q + b)
    BY <1>4 DEF ShipInv, Account
  <2> QED
    BY <2>1, <2>2
<1>6. CASE q + b >= m
  <2>1. /\ DOMAIN ship' = ShipFields /\ ship'.offered = ship.offered + 1 /\ ship'.dropped = ship.dropped + 1
        /\ UNCHANGED <<ship.pc, ship.queue, ship.body, ship.attempts, ship.prev, ship.shipped, ship.late, ship.stored>>
    BY <1>3, <1>4, <1>5, <1>6 DEF enqueue, ShipFields
  <2>2. ShipType'
    BY <2>1 DEF ShipType
  <2>3. Stretches'
    BY <1>1, <2>1 DEF Stretches
  <2>4. ship'.offered = ship'.shipped + ship'.dropped + w
    BY <1>5, <1>8, <2>1
  <2>5. ShipInv'
    BY <1>1, <1>4, <1>8, <2>1, <2>4 DEF ShipInv, Account, Receipts
  <2> QED
    BY <2>2, <2>3, <2>5
<1>7. CASE ~(q + b >= m)
  <2>1. /\ DOMAIN ship' = ShipFields /\ ship'.offered = ship.offered + 1 /\ ship'.queue = Append(ship.queue, x)
        /\ ship'.late = IF ship.pc = "done" THEN ship.late + 1 ELSE ship.late
        /\ UNCHANGED <<ship.pc, ship.dropped, ship.body, ship.attempts, ship.prev, ship.shipped, ship.stored>>
    BY <1>3, <1>4, <1>5, <1>7 DEF enqueue, ShipFields
  <2>2. ship'.queue \in Seq(Nat) /\ Len(ship'.queue) = q + 1 /\ Ids(ship'.queue) = Ids(ship.queue) \cup {x}
    BY <1>4, <2>1, IdsAppend DEF ShipType
  <2>3. ShipType'
    <3>1. ship'.offered \in Nat /\ ship'.late \in Nat
      BY <1>5, <2>1
    <3> QED
      BY <2>1, <2>2, <3>1 DEF ShipType
  <2>4. Stretches'
    <3>1. Below(Ids(ship.queue), {x}) /\ Below(Ids(ship.body), {x}) /\ Below(ship.stored, {x})
      BY <1>2 DEF Stretches, Below
    <3>2. Rising(ship'.queue)
      <4>1. ship.queue \in Seq(Int)
        BY DEF ShipType
      <4> QED
        BY <2>1, <3>1, <4>1, RisingAppend DEF Stretches
    <3> QED
      BY <1>1, <1>2, <2>1, <2>2, <3>1, <3>2 DEF Stretches, Below
  <2>5. /\ ship'.offered = ship'.shipped + ship'.dropped + (w + 1)
        /\ w + 1 = IF ship.pc = "done" THEN ship'.late ELSE (q + 1) + b
    BY <1>5, <1>8, <2>1
  <2>6. /\ q + 1 + b <= m
        /\ ship'.pc # "done" => ship'.late = 0
    BY <1>7, <2>1 DEF ShipInv, Account
  <2>7. Account'
    BY <1>1, <1>4, <2>1, <2>2, <2>5, <2>6 DEF ShipInv, Account
  <2>8. Receipts'
    BY <2>1 DEF ShipInv, Receipts
  <2> QED
    BY <2>3, <2>4, <2>7, <2>8 DEF ShipInv
<1> QED
  BY <1>6, <1>7

-----------------------------------------------------------------------------
(* logpit.                                                                 *)

LEMMA ReportsFinite ==
  ASSUME PitType
  PROVE  IsFiniteSet(Reports) /\ Cardinality(Reports) \in Nat
<1>1. PICK n \in Nat : DOMAIN pit = 1 .. n
  BY DEF PitType
<1>2. IsFiniteSet(1 .. n) /\ Reports \in SUBSET (1 .. n)
  BY <1>1, FS_Interval DEF Reports
<1> QED
  BY <1>2, FS_Subset, FS_CardinalityType

(* An entry more: the chain holds, and a report more is counted.           *)
LEMMA PitGrows ==
  ASSUME PitType, PitInv, NEW lines \in Seq(Int), Rising(lines), pit' = Append(pit, [prev |-> Len(pit), lines |-> lines])
  PROVE  /\ PitType' /\ PitInv'
         /\ Cardinality(Reports') \in Nat /\ Cardinality(Reports) <= Cardinality(Reports')
         /\ lines = <<-1>> => Cardinality(Reports') = Cardinality(Reports) + 1
<1>1. PICK n \in Nat : n = Len(pit) /\ DOMAIN pit = 1 .. n
  BY DEF PitType
<1>2. [prev |-> n, lines |-> lines] \in [prev : Nat, lines : Seq(Int)]
  OBVIOUS
<1>3. /\ pit' \in Seq([prev : Nat, lines : Seq(Int)]) /\ Len(pit') = n + 1 /\ DOMAIN pit' = 1 .. n + 1
      /\ pit'[n + 1] = [prev |-> n, lines |-> lines] /\ \A k \in 1 .. n : pit'[k] = pit[k]
  BY <1>1, <1>2 DEF PitType
<1>4. PitInv'
  <2>1. \A k \in 2 .. n + 1 : pit'[k].prev = k - 1
    BY <1>1, <1>3 DEF PitInv
  <2>2. \A k \in 1 .. n : Rising(pit'[k].lines)
    <3> SUFFICES ASSUME NEW k \in 1 .. n PROVE Rising(pit'[k].lines)
      OBVIOUS
    <3>1. Rising(pit[k].lines) /\ pit'[k] = pit[k]
      BY <1>1, <1>3 DEF PitInv
    <3> QED
      BY <3>1
  <2>3. Rising(pit'[n + 1].lines)
    <3>1. pit'[n + 1].lines = lines
      BY <1>3
    <3> QED
      BY <3>1
  <2>4. \A k \in 1 .. n + 1 : k \in 1 .. n \/ k = n + 1
    OBVIOUS
  <2>5. \A k \in DOMAIN pit' : Rising(pit'[k].lines)
    BY <1>3, <2>2, <2>3, <2>4, Zenon
  <2>6. Len(pit') > 0 /\ \A k \in 2 .. Len(pit') : pit'[k].prev = k - 1
    BY <1>3, <2>1
  <2> QED
    BY <2>5, <2>6, Zenon DEF PitInv
<1>5. Reports' = IF lines = <<-1>> THEN Reports \cup {n + 1} ELSE Reports
  <2>1. \A k \in 1 .. n : k \in 1 .. n + 1 /\ k # n + 1
    OBVIOUS
  <2>2. \A k \in 1 .. n + 1 : k \in 1 .. n \/ k = n + 1
    OBVIOUS
  <2>3. pit'[n + 1].lines = lines /\ n + 1 \in 1 .. n + 1
    BY <1>3
  <2>4. Reports' = {k \in 1 .. n + 1 : pit'[k].lines = <<-1>>} /\ Reports = {k \in 1 .. n : pit[k].lines = <<-1>>}
    BY <1>1, <1>3 DEF Reports
  <2>5. \A k : k \in Reports' <=> k \in Reports \/ (k = n + 1 /\ lines = <<-1>>)
    BY <1>3, <2>1, <2>2, <2>3, <2>4, Zenon
  <2> QED
    BY <2>5
<1>6. n + 1 \notin Reports
  BY <1>1 DEF Reports
<1>7. IsFiniteSet(Reports) /\ Cardinality(Reports) \in Nat
  BY ReportsFinite
<1>8. Cardinality(Reports \cup {n + 1}) = Cardinality(Reports) + 1
  BY <1>6, <1>7, FS_AddElement
<1>9. /\ Cardinality(Reports') \in Nat /\ Cardinality(Reports) <= Cardinality(Reports')
      /\ lines = <<-1>> => Cardinality(Reports') = Cardinality(Reports) + 1
  BY <1>5, <1>7, <1>8
<1> QED
  BY <1>3, <1>4, <1>9 DEF PitType

(* What the shipper and the other origin write.                            *)
LEMMA PitShipper ==
  ASSUME ShipType, PitType, Stretches, PitInv, Shipper
  PROVE  PitType' /\ PitInv' /\ Cardinality(Reports) <= Cardinality(Reports') /\ Cardinality(Reports') \in Nat
<1>1. Cardinality(Reports) \in Nat
  BY ReportsFinite
<1>2. CASE pit' = pit
  BY <1>1, <1>2 DEF PitType, PitInv, Reports
<1>3. CASE pit' = Append(pit, [prev |-> Len(pit), lines |-> ship.body])
  <2>1. ship.body \in Seq(Int) /\ Rising(ship.body)
    BY DEF ShipType, Stretches
  <2> QED
    BY <1>1, <1>3, <2>1, PitGrows
<1>4. CASE pit' = Append(pit, [prev |-> Len(pit), lines |-> <<>>])
  <2>1. <<>> \in Seq(Int) /\ Rising(<<>>)
    BY DEF Rising
  <2> QED
    BY <1>1, <1>4, <2>1, PitGrows
<1> QED
  BY <1>2, <1>3, <1>4 DEF Shipper, Tick, refreshTip, appendBatch, Reread, Stop, Rival, Entry, Tip

-----------------------------------------------------------------------------
(* The campaigns.                                                          *)
Running == {"replay", "send", "launch", "tool", "term", "kill", "manifest", "staged", "synced", "shipTip", "shipPost", "count"}
ReserveSame == UNCHANGED <<emit.busy, emit.client, emit.campaigns, emit.up>>
PaceSame == UNCHANGED <<emit.clock, emit.start, emit.sends, emit.due, emit.instant>>
FilesSame == UNCHANGED <<emit.run, emit.staging, emit.manifest>>

(* Every campaign accepted and not yet counted is the one that runs.       *)
LEMMA RunningKeeps ==
  ASSUME EmitType, Reservation, ReserveSame, emit.pc \in Running, emit'.pc \in Running
  PROVE  Reservation'
<1>1. Accepted' = Accepted
  BY DEF Accepted, ReserveSame
<1> QED
  BY <1>1 DEF Reservation, ReserveSame, Running

LEMMA ReserveStep ==
  ASSUME EmitType, EmitInv, NEW c \in Clients, NEW r \in RunIDs, NEW first \in {"replay", "launch"},
         reserve(c, r, first)
  PROVE  EmitType' /\ EmitInv'
<1>1. EmitShape
  BY DEF EmitType
<1>2. CASE emit.busy
  <2>1. /\ EmitShape' /\ emit'.client = [emit.client EXCEPT ![c] = "conflict"] /\ emit.client[c] = "idle"
        /\ PaceSame /\ FilesSame /\ UNCHANGED <<emit.busy, emit.campaigns, emit.up, emit.pc, emit.shipped, pit>>
    BY <1>1, <1>2 DEF EmitShape, reserve, PaceSame, FilesSame
  <2>2. EmitType'
    BY <2>1 DEF EmitType, PaceSame, FilesSame
  <2>3. Accepted' = Accepted /\ Reports' = Reports
    BY <2>1 DEF Accepted, EmitType, Reports
  <2> QED
    BY <2>1, <2>2, <2>3 DEF EmitInv, Reservation, Pace, Manifests, Reported, PaceSame, FilesSame
<1>3. CASE ~emit.busy
  <2>1. /\ EmitShape' /\ emit'.client = [emit.client EXCEPT ![c] = "accepted"] /\ emit.client[c] = "idle" /\ emit.up
        /\ emit'.busy = TRUE /\ emit'.pc = first /\ emit'.run = r /\ emit'.start = emit.clock /\ emit'.due = emit.clock
        /\ emit'.sends = 0
        /\ UNCHANGED <<emit.campaigns, emit.up, emit.clock, emit.instant, emit.staging, emit.manifest, emit.shipped, pit>>
    BY <1>1, <1>3 DEF EmitShape, reserve
  <2>2. EmitType'
    <3>1. emit.client \in [Clients -> {"idle", "conflict", "accepted"}]
      BY DEF EmitType
    <3>2. emit'.client \in [Clients -> {"idle", "conflict", "accepted"}] /\ emit'.busy \in BOOLEAN
      <4>1. emit'.client = [emit.client EXCEPT ![c] = "accepted"] /\ emit'.busy = TRUE
        BY <2>1
      <4> QED
        BY <3>1, <4>1
    <3> QED
      BY <2>1, <3>2 DEF EmitType
  <2>3. Accepted' = Accepted \cup {c} /\ c \notin Accepted /\ Reports' = Reports
    BY <2>1 DEF Accepted, EmitType, Reports
  <2>4. Cardinality(Accepted') = Cardinality(Accepted) + 1 /\ Cardinality(Accepted) \in Nat
    <3>1. Accepted \in SUBSET Clients /\ IsFiniteSet(Clients)
      BY ConstantTypes DEF Accepted
    <3>2. IsFiniteSet(Accepted)
      BY <3>1, FS_Subset
    <3> QED
      BY <2>3, <3>2, FS_AddElement, FS_CardinalityType
  <2>5. Reservation'
    <3>1. Cardinality(Accepted) - emit.campaigns = 0 /\ emit.campaigns \in Nat
      BY <1>3, <2>1 DEF EmitInv, Reservation, EmitType
    <3>2. Cardinality(Accepted') - emit'.campaigns = 1
      BY <2>1, <2>4, <3>1
    <3> QED
      BY <2>1, <3>2 DEF Reservation
  <2>6. Pace'
    <3>1. Interval \in Nat \ {0} /\ emit.clock \in Nat
      BY ConstantTypes DEF EmitType
    <3>2. (0 - 1) * Interval <= 0 /\ 0 * Interval = 0
      BY <3>1
    <3> QED
      BY <2>1, <3>1, <3>2 DEF Pace
  <2> QED
    BY <2>1, <2>2, <2>3, <2>5, <2>6 DEF EmitInv, Manifests, Reported
<1> QED
  BY <1>2, <1>3 DEF EmitType

(* The turns of a replay: the clock, the date of the next question and the *)
(* instant of the present one.                                             *)
LEMMA ReplayStep ==
  ASSUME EmitType, EmitInv, Passes \/ RunReplay \/ Send
  PROVE  EmitType' /\ EmitInv'
<1>1. EmitShape
  BY DEF EmitType
<1>2. /\ EmitShape' /\ emit.pc \in {"replay", "send"} /\ emit'.pc \in {"replay", "send", "manifest"}
      /\ ReserveSame /\ FilesSame /\ UNCHANGED <<emit.start, emit.shipped, pit>>
  <2>1. CASE Passes
    BY <1>1, <2>1 DEF EmitShape, Passes, ReserveSame, FilesSame
  <2>2. CASE RunReplay
    BY <1>1, <2>2 DEF EmitShape, RunReplay, ReserveSame, FilesSame
  <2>3. CASE Send
    BY ZenonT(30), <1>1, <2>3 DEF EmitShape, Send, ReserveSame, FilesSame
  <2> QED
    BY <2>1, <2>2, <2>3
<1>3. /\ Interval \in Nat \ {0} /\ emit.clock \in Nat /\ emit.start \in Nat /\ emit.due \in Nat /\ emit.instant \in Nat
      /\ emit.sends \in Nat
  BY ConstantTypes DEF EmitType
<1>4. PICK x \in Int, y \in Int : x = emit.sends * Interval /\ y = (emit.sends - 1) * Interval
  BY <1>3
<1>5. emit.start <= emit.clock /\ y <= emit.clock - emit.start /\ emit.start + x <= emit.due
  BY <1>2, <1>4 DEF EmitInv, Pace
<1>6. Pace' /\ {emit'.clock, emit'.due, emit'.instant, emit'.sends} \subseteq Nat
  <2>1. CASE Passes
    <3>1. emit'.clock = emit.clock + 1 /\ UNCHANGED <<emit.pc, emit.sends, emit.due, emit.instant, emit.start>>
      BY <1>1, <2>1 DEF EmitShape, Passes
    <3>2. emit.pc = "send" => emit.due <= emit.instant /\ emit.instant <= emit.clock
      BY DEF EmitInv, Pace
    <3>3. y <= emit'.clock - emit'.start
      BY <1>3, <1>5, <3>1
    <3> QED
      BY <1>3, <1>4, <1>5, <3>1, <3>2, <3>3 DEF Pace
  <2>2. CASE RunReplay
    <3>1. /\ UNCHANGED <<emit.clock, emit.sends, emit.due, emit.start>>
          /\ \/ emit'.pc = "manifest" /\ emit'.instant = emit.instant
             \/ emit'.instant = Instant /\ emit'.pc = IF Instant < emit.due THEN "replay" ELSE "send"
      BY <1>1, <2>2 DEF EmitShape, RunReplay
    <3>2. Instant \in Nat /\ Instant <= emit.clock
      BY <1>3, <1>5 DEF Instant
    <3> QED
      BY <1>3, <1>4, <1>5, <3>1, <3>2 DEF Pace
  <2>3. CASE Send
    <3>1. /\ UNCHANGED <<emit.clock, emit.instant, emit.start>>
          /\ \/ emit'.pc = "manifest" /\ UNCHANGED <<emit.sends, emit.due>>
             \/ emit'.pc = "replay" /\ emit'.sends = emit.sends + 1 /\ emit'.due = emit.instant + Interval
      BY <1>1, <2>3 DEF EmitShape, Send
    <3>2. emit.due <= emit.instant /\ emit.instant <= emit.clock
      BY <2>3 DEF EmitInv, Pace, Send
    <3>3. CASE emit'.pc = "manifest" /\ UNCHANGED <<emit.sends, emit.due>>
      BY <1>3, <1>4, <1>5, <3>1, <3>3 DEF Pace
    <3>4. CASE emit'.pc = "replay" /\ emit'.sends = emit.sends + 1 /\ emit'.due = emit.instant + Interval
      <4>1. (emit.sends + 1) * Interval = x + Interval /\ (emit.sends + 1) - 1 = emit.sends
        BY <1>3, <1>4
      <4>2. x <= emit.clock - emit.start /\ emit.start + (x + Interval) <= emit.instant + Interval
        BY <1>3, <1>5, <3>2
      <4>3. emit'.start + emit'.sends * Interval <= emit'.due /\ (emit'.sends - 1) * Interval <= emit'.clock - emit'.start
        BY <1>4, <3>1, <3>4, <4>1, <4>2
      <4> QED
        BY <1>3, <1>5, <3>1, <3>4, <4>3 DEF Pace
    <3> QED
      BY <3>1, <3>3, <3>4
  <2> QED
    BY <2>1, <2>2, <2>3
<1>7. EmitType'
  BY <1>2, <1>6 DEF EmitType, ReserveSame, FilesSame
<1>8. Reservation'
  BY <1>2, RunningKeeps DEF Running, EmitInv
<1>9. Manifests' /\ Reported'
  BY <1>2 DEF EmitInv, Manifests, Reported, FilesSame, Reports
<1> QED
  BY <1>6, <1>7, <1>8, <1>9 DEF EmitInv

(* The steps of a tool leave the pace and the files of the campaign alone. *)
LEMMA ToolStep ==
  ASSUME EmitType, EmitInv, RunTool
  PROVE  EmitType' /\ EmitInv'
<1>1. EmitShape
  BY DEF EmitType
<1>2. /\ EmitShape' /\ emit.pc \in {"launch", "tool", "term", "kill"} /\ emit'.pc \in {"tool", "term", "kill", "manifest"}
      /\ ReserveSame /\ PaceSame /\ FilesSame /\ UNCHANGED <<emit.shipped, pit>>
  <2>1. CASE Launch
    BY ZenonT(30), <1>1, <2>1 DEF EmitShape, Launch, ReserveSame, PaceSame, FilesSame
  <2>2. CASE Terminate
    BY <1>1, <2>2 DEF EmitShape, Terminate, ReserveSame, PaceSame, FilesSame
  <2>3. CASE Kill
    BY <1>1, <2>3 DEF EmitShape, Kill, ReserveSame, PaceSame, FilesSame
  <2>4. CASE ToolEnds
    BY ZenonT(30), <1>1, <2>4 DEF EmitShape, ToolEnds, ReserveSame, PaceSame, FilesSame
  <2> QED
    BY <2>1, <2>2, <2>3, <2>4 DEF RunTool
<1>3. EmitType'
  BY <1>2 DEF EmitType, ReserveSame, PaceSame, FilesSame
<1>4. Reservation'
  BY <1>2, RunningKeeps DEF Running, EmitInv
<1>5. Pace' /\ Manifests' /\ Reported'
  BY <1>2 DEF EmitInv, Pace, PaceSame, Manifests, Reported, FilesSame, Reports
<1> QED
  BY <1>3, <1>4, <1>5 DEF EmitInv

(* From the end of the replay to the counting: the manifest appears whole, *)
(* and what is reported is in logpit.                                      *)
LEMMA ManifestStep ==
  ASSUME EmitType, EmitInv, PitType, PitInv,
         CreateStaging \/ WriteStaging \/ Rename \/ ShipTip \/ ShipPost
  PROVE  EmitType' /\ EmitInv' /\ PitType' /\ PitInv'
<1>1. EmitShape
  BY DEF EmitType
<1>2. /\ EmitShape' /\ emit.pc \in Running /\ emit'.pc \in Running \ {"replay", "send", "launch", "tool", "term", "kill"}
      /\ ReserveSame /\ PaceSame /\ UNCHANGED <<emit.run>>
  <2>1. CASE CreateStaging
    BY <1>1, <2>1 DEF EmitShape, CreateStaging, ReserveSame, PaceSame, Running
  <2>2. CASE WriteStaging
    BY ZenonT(30), <1>1, <2>2 DEF EmitShape, WriteStaging, ReserveSame, PaceSame, Running
  <2>3. CASE Rename
    BY ZenonT(30), <1>1, <2>3 DEF EmitShape, Rename, ReserveSame, PaceSame, Running
  <2>4. CASE ShipTip
    BY ZenonT(30), <1>1, <2>4 DEF EmitShape, ShipTip, ReserveSame, PaceSame, Running
  <2>5. CASE ShipPost
    BY <1>1, <2>5 DEF EmitShape, ShipPost, ReserveSame, PaceSame, Running
  <2> QED
    BY <2>1, <2>2, <2>3, <2>4, <2>5
<1>3. /\ emit'.staging \in [RunIDs -> {"absent", "empty", "whole"}] /\ emit'.manifest \in [RunIDs -> {"absent", "empty", "whole"}]
      /\ Manifests'
  <2>1. CASE CreateStaging
    <3>1. /\ emit'.pc \in {"count", "staged"} /\ emit'.manifest = emit.manifest
          /\ emit'.staging \in {emit.staging, [emit.staging EXCEPT ![emit.run] = "empty"]}
      BY <1>1, <2>1 DEF EmitShape, CreateStaging
    <3> QED
      BY <3>1 DEF EmitInv, Manifests, EmitType
  <2>2. CASE WriteStaging
    <3>1. /\ emit'.manifest = emit.manifest /\ emit'.run = emit.run
          /\ \/ emit'.pc = "synced" /\ emit'.staging = [emit.staging EXCEPT ![emit.run] = "whole"]
             \/ emit'.pc = "count" /\ emit'.staging = [emit.staging EXCEPT ![emit.run] = "absent"]
      BY <1>1, <2>2 DEF EmitShape, WriteStaging
    <3> QED
      BY <3>1 DEF EmitInv, Manifests, EmitType
  <2>3. CASE Rename
    <3>1. /\ emit'.pc \in {"count", "shipTip"} /\ emit'.staging = [emit.staging EXCEPT ![emit.run] = "absent"]
          /\ emit'.manifest \in {emit.manifest, [emit.manifest EXCEPT ![emit.run] = emit.staging[emit.run]]}
      BY <1>1, <2>3 DEF EmitShape, Rename
    <3>2. emit.staging[emit.run] = "whole"
      BY <2>3 DEF Rename, EmitInv, Manifests
    <3> QED
      BY <3>1, <3>2 DEF EmitInv, Manifests, EmitType
  <2>4. CASE ShipTip \/ ShipPost
    <3>1. emit'.pc \in {"count", "shipPost"} /\ UNCHANGED <<emit.staging, emit.manifest>>
      BY <1>1, <2>4 DEF EmitShape, ShipTip, ShipPost
    <3> QED
      BY <3>1 DEF EmitInv, Manifests, EmitType
  <2> QED
    BY <2>1, <2>2, <2>3, <2>4
<1>4. Reported' /\ emit'.shipped \in Nat /\ PitType' /\ PitInv'
  <2>1. Cardinality(Reports) \in Nat /\ emit.shipped \in Nat /\ emit.shipped <= Cardinality(Reports)
    BY ReportsFinite DEF EmitType, EmitInv, Reported
  <2>2. CASE pit' = pit /\ emit'.shipped = emit.shipped
    BY <2>1, <2>2 DEF Reported, Reports, PitType, PitInv
  <2>3. CASE pit' = Append(pit, [prev |-> Len(pit), lines |-> <<-1>>]) /\ emit'.shipped \in {emit.shipped, emit.shipped + 1}
    <3>1. <<-1>> \in Seq(Int) /\ Rising(<<-1>>)
      BY DEF Rising
    <3>2. PitType' /\ PitInv' /\ Cardinality(Reports') = Cardinality(Reports) + 1
      BY <2>3, <3>1, PitGrows
    <3> QED
      BY <2>1, <2>3, <3>2 DEF Reported
  <2>4. CASE CreateStaging \/ WriteStaging \/ Rename \/ ShipTip
    <3>1. pit' = pit
      BY <2>4 DEF CreateStaging, WriteStaging, Rename, ShipTip
    <3>2. emit'.shipped = emit.shipped
      BY <1>1, <2>4 DEF EmitShape, CreateStaging, WriteStaging, Rename, ShipTip
    <3> QED
      BY <2>2, <3>1, <3>2
  <2>5. CASE ShipPost
    <3>1. \/ pit' = pit /\ emit'.shipped = emit.shipped
          \/ pit' = Append(pit, [prev |-> Len(pit), lines |-> <<-1>>]) /\ emit'.shipped \in {emit.shipped, emit.shipped + 1}
      BY <1>1, <2>5 DEF EmitShape, ShipPost, Tip
    <3> QED
      BY <2>2, <2>3, <3>1
  <2> QED
    BY <2>4, <2>5
<1>5. EmitType'
  BY <1>2, <1>3, <1>4 DEF EmitType, ReserveSame, PaceSame, Running
<1>6. Reservation'
  BY <1>2, RunningKeeps DEF EmitInv
<1>7. Pace'
  BY <1>2 DEF EmitInv, Pace, PaceSame, Running
<1> QED
  BY <1>3, <1>4, <1>5, <1>6, <1>7 DEF EmitInv

(* The end of a campaign and of the process.                               *)
LEMMA EndStep ==
  ASSUME EmitType, EmitInv, PitType, execute \/ Release \/ EmitSignal \/ Crash \/ Restart
  PROVE  EmitType' /\ EmitInv'
<1>1. EmitShape
  BY DEF EmitType
<1>2. EmitShape' /\ PaceSame /\ FilesSame /\ pit' = pit
  <2>1. CASE execute
    BY <1>1, <2>1 DEF EmitShape, execute, PaceSame, FilesSame
  <2>2. CASE Release
    BY <1>1, <2>2 DEF EmitShape, Release, PaceSame, FilesSame
  <2>3. CASE EmitSignal
    BY <1>1, <2>3 DEF EmitShape, EmitSignal, PaceSame, FilesSame
  <2>4. CASE Crash
    BY <1>1, <2>4 DEF EmitShape, Crash, PaceSame, FilesSame
  <2>5. CASE Restart
    BY <1>1, <2>5 DEF EmitShape, Restart, PaceSame, FilesSame
  <2> QED
    BY <2>1, <2>2, <2>3, <2>4, <2>5
<1>3. /\ emit.campaigns \in Nat /\ Cardinality(Accepted) \in Nat
  <2>1. Accepted \in SUBSET Clients /\ IsFiniteSet(Clients)
    BY ConstantTypes DEF Accepted
  <2> QED
    BY <2>1, FS_Subset, FS_CardinalityType DEF EmitType
<1>4. CASE execute
  <2>1. /\ emit'.campaigns = emit.campaigns + 1 /\ emit.pc = "count" /\ emit'.pc = "release" /\ emit.up
        /\ UNCHANGED <<emit.busy, emit.client, emit.up, emit.shipped>>
    BY <1>1, <1>4 DEF EmitShape, execute
  <2>2. EmitType'
    BY <1>2, <1>3, <2>1 DEF EmitType, PaceSame, FilesSame
  <2>3. Accepted' = Accepted /\ Reports' = Reports
    BY <1>2, <2>1 DEF Accepted, Reports
  <2>4. Cardinality(Accepted) - emit.campaigns = 1 /\ emit.busy
    BY <2>1 DEF EmitInv, Reservation
  <2>5. Cardinality(Accepted') - emit'.campaigns = 0
    BY <1>3, <2>1, <2>3, <2>4
  <2>6. Reservation'
    BY <2>1, <2>4, <2>5 DEF Reservation, EmitInv
  <2>7. Pace' /\ Manifests' /\ Reported'
    BY <1>2, <2>1, <2>3 DEF EmitInv, Pace, Manifests, Reported, PaceSame, FilesSame
  <2> QED
    BY <2>2, <2>6, <2>7 DEF EmitInv
<1>5. CASE Release
  <2>1. /\ emit.pc = "release" /\ emit'.pc = "idle" /\ emit'.busy = FALSE /\ emit.up
        /\ UNCHANGED <<emit.campaigns, emit.client, emit.up, emit.shipped>>
    BY <1>1, <1>5 DEF EmitShape, Release
  <2>2. EmitType'
    BY <1>2, <2>1 DEF EmitType, PaceSame, FilesSame
  <2>3. Accepted' = Accepted /\ Reports' = Reports
    BY <1>2, <2>1 DEF Accepted, Reports
  <2>4. Cardinality(Accepted) - emit.campaigns = 0
    BY <2>1 DEF EmitInv, Reservation
  <2>5. Reservation'
    BY <2>1, <2>3, <2>4 DEF Reservation, EmitInv
  <2>6. Pace' /\ Manifests' /\ Reported'
    BY <1>2, <2>1, <2>3 DEF EmitInv, Pace, Manifests, Reported, PaceSame, FilesSame
  <2> QED
    BY <2>2, <2>5, <2>6 DEF EmitInv
<1>6. CASE EmitSignal
  <2>1. ReserveSame /\ UNCHANGED <<emit.pc, emit.shipped>>
    BY <1>1, <1>6 DEF EmitShape, EmitSignal, ReserveSame
  <2>2. EmitType'
    BY <1>2, <2>1 DEF EmitType, PaceSame, FilesSame, ReserveSame
  <2>3. Accepted' = Accepted /\ Reports' = Reports
    BY <1>2, <2>1 DEF Accepted, Reports, ReserveSame
  <2> QED
    BY <1>2, <2>1, <2>2, <2>3 DEF EmitInv, Reservation, Pace, Manifests, Reported, PaceSame, FilesSame, ReserveSame
<1>7. CASE Crash
  <2>1. /\ emit'.pc = "idle" /\ emit'.busy = FALSE /\ emit'.up = FALSE
        /\ UNCHANGED <<emit.campaigns, emit.client, emit.shipped>>
    BY <1>1, <1>7 DEF EmitShape, Crash
  <2>2. EmitType'
    BY <1>2, <2>1 DEF EmitType, PaceSame, FilesSame
  <2>3. Reports' = Reports
    BY <1>2 DEF Reports
  <2> QED
    BY <1>2, <2>1, <2>2, <2>3 DEF EmitInv, Reservation, Pace, Manifests, Reported, PaceSame, FilesSame
<1>8. CASE Restart
  <2>1. /\ ~emit.up /\ emit'.up = TRUE /\ emit'.campaigns = 0 /\ emit'.shipped = 0
        /\ emit'.client = [c \in Clients |-> "idle"] /\ UNCHANGED <<emit.pc, emit.busy>>
    BY <1>1, <1>8 DEF EmitShape, Restart
  <2>2. EmitType'
    <3>1. /\ emit'.client \in [Clients -> {"idle", "conflict", "accepted"}]
          /\ emit'.campaigns \in Nat /\ emit'.shipped \in Nat
      BY <2>1
    <3>2. emit'.up \in BOOLEAN
      BY <2>1, Zenon
    <3> QED
      BY <1>2, <2>1, <3>1, <3>2 DEF EmitType, PaceSame, FilesSame
  <2>3. Accepted' = {} /\ Reports' = Reports
    BY <1>2, <2>1 DEF Accepted, Reports
  <2>4. ~emit.busy
    BY <2>1 DEF EmitInv, Reservation
  <2>5. Cardinality(Accepted') - emit'.campaigns = 0
    BY <2>1, <2>3, FS_EmptySet
  <2>6. Reservation'
    BY <2>1, <2>4, <2>5 DEF Reservation, EmitInv
  <2>7. Pace' /\ Manifests'
    BY <1>2, <2>1 DEF EmitInv, Pace, Manifests, PaceSame, FilesSame
  <2>8. Reported'
    BY <2>1, <2>3, ReportsFinite DEF Reported
  <2> QED
    BY <2>2, <2>6, <2>7, <2>8 DEF EmitInv
<1> QED
  BY <1>4, <1>5, <1>6, <1>7, <1>8

-----------------------------------------------------------------------------
(* The whole laboratory.                                                   *)

LEMMA LabInit == Init => LabInv
<1> SUFFICES ASSUME Init PROVE LabInv
  OBVIOUS
<1>1. /\ DOMAIN auth = {"pc", "zone", "line", "hour", "disk", "unsynced", "torn", "tokens", "stamp", "first", "allowed",
                        "clock", "top", "seen", "answered", "counted", "signal", "closed"}
      /\ auth.pc = "read" /\ auth.zone \in Zones /\ auth.line = Idle /\ auth.disk = <<>> /\ auth.signal = FALSE
      /\ auth.tokens = [b \in Buckets |-> 0] /\ auth.stamp = [b \in Buckets |-> -1] /\ auth.first = [b \in Buckets |-> 0]
      /\ auth.allowed = [b \in Buckets |-> 0] /\ auth.clock = 0 /\ auth.top = 0 /\ auth.seen = 0
      /\ auth.answered = {} /\ auth.counted = {}
  BY DEF Init
<1>2. AuthType
  <2>1. Idle \in Lines /\ <<>> \in Disk
    BY ConstantTypes DEF Disk
  <2>2. auth.signal \in BOOLEAN
    BY <1>1, Zenon
  <2>3. /\ auth.tokens \in [Buckets -> Nat] /\ auth.stamp \in [Buckets -> Int]
        /\ auth.first \in [Buckets -> Nat] /\ auth.allowed \in [Buckets -> Nat]
    BY <1>1
  <2>4. auth.line \in Lines /\ auth.disk \in Disk
    BY <1>1, <2>1
  <2> QED
    BY <1>1, <2>2, <2>3, <2>4 DEF AuthType, AuthShape
<1>3. JournalInv
  BY <1>1, FS_EmptySet DEF JournalInv
<1>4. RateInv
  BY <1>1 DEF RateInv
<1>5. /\ DOMAIN ship = ShipFields /\ ship.pc = "tick" /\ ship.queue = <<>> /\ ship.body = <<>> /\ ship.attempts = 0
      /\ ship.prev = 0 /\ ship.shipped = 0 /\ ship.dropped = 0 /\ ship.offered = 0 /\ ship.late = 0 /\ ship.stored = {}
  BY DEF Init, ShipFields
<1>6. ShipType
  BY <1>5 DEF ShipType
<1>7. Ids(<<>>) = {} /\ Rising(<<>>) /\ Len(<<>>) = 0
  BY DEF Ids, Rising
<1>8. Stretches
  BY <1>5, <1>7 DEF Stretches, Below
<1>9. Account
  BY <1>5, <1>7, ConstantTypes DEF Account
<1>10. Receipts
  <2>1. ship.stored \ Ids(ship.body) = {}
    BY <1>5
  <2>2. Cardinality(ship.stored \ Ids(ship.body)) = 0
    BY <2>1, FS_EmptySet
  <2> QED
    BY <1>5, <2>2 DEF Receipts
<1>11. /\ pit = <<[prev |-> 0, lines |-> <<>>]>> /\ Len(pit) = 1 /\ DOMAIN pit = 1 .. 1
       /\ pit[1].lines = <<>>
  BY DEF Init
<1>12. PitType
  BY <1>11 DEF PitType
<1>13. PitInv
  BY <1>7, <1>11 DEF PitInv
<1>14. /\ EmitShape /\ emit.busy = FALSE /\ emit.client = [c \in Clients |-> "idle"] /\ emit.pc = "idle"
       /\ emit.run = (CHOOSE r \in RunIDs : TRUE)
       /\ emit.staging = [r \in RunIDs |-> "absent"] /\ emit.manifest = [r \in RunIDs |-> "absent"] /\ emit.clock = 0
       /\ emit.due = 0 /\ emit.start = 0 /\ emit.instant = 0 /\ emit.sends = 0 /\ emit.campaigns = 0
       /\ emit.shipped = 0 /\ emit.up = TRUE
  BY DEF Init, EmitShape
<1>15. EmitType
  <2>1. /\ emit.run \in RunIDs /\ emit.client \in [Clients -> {"idle", "conflict", "accepted"}]
        /\ emit.staging \in [RunIDs -> {"absent", "empty", "whole"}] /\ emit.manifest \in [RunIDs -> {"absent", "empty", "whole"}]
    BY <1>14, ConstantTypes
  <2>2. emit.busy \in BOOLEAN /\ emit.up \in BOOLEAN
    BY <1>14, Zenon
  <2> QED
    BY <1>14, <2>1, <2>2 DEF EmitType
<1>16. Reservation
  <2>1. Accepted = {}
    BY <1>14 DEF Accepted
  <2>2. Cardinality(Accepted) = 0
    BY <2>1, FS_EmptySet
  <2> QED
    BY <1>14, <2>2 DEF Reservation
<1>17. Pace /\ Manifests
  BY <1>14 DEF Pace, Manifests
<1>18. Reported
  BY <1>12, <1>14, ReportsFinite DEF Reported
<1> QED
  BY <1>2, <1>3, <1>4, <1>6, <1>8, <1>9, <1>10, <1>12, <1>13, <1>15, <1>16, <1>17, <1>18
     DEF LabInv, TypeInv, ShipInv, EmitInv

LEMMA ServerStep ==
  ASSUME LabInv, Server
  PROVE  LabInv'
<1>1. AuthType' /\ auth.counted \subseteq auth'.counted /\ (auth.signal => auth'.signal)
  BY ReceiveEffect, AppendEffect, ShipEffect, WriteEffect, QuietEffect DEF Server, LabInv, TypeInv, JournalSame
<1>2. JournalInv' /\ RateInv'
  BY JournalStep, RateStep DEF LabInv, TypeInv
<1>3. ShipType' /\ Stretches' /\ ShipInv'
  <2>1. CASE Ship
    BY <2>1, EnqueueStep DEF LabInv, TypeInv
  <2>2. CASE ~Ship
    <3>1. ship' = ship
      BY <2>2 DEF Server, Receive, Append_, AppendFails, WriteTo, Signal, CloseSocket, ReadClosed, Leave, JournalClose,
         ClockMoves
    <3> QED
      BY <1>1, <3>1 DEF LabInv, TypeInv, ShipType, Stretches, ShipInv, Account, Receipts
  <2> QED
    BY <2>1, <2>2
<1>4. pit' = pit /\ emit' = emit
  BY DEF Server, Receive, Append_, AppendFails, Ship, WriteTo, Signal, CloseSocket, ReadClosed, Leave, JournalClose, ClockMoves
<1>5. PitType' /\ PitInv' /\ EmitType' /\ EmitInv'
  BY <1>4 DEF LabInv, TypeInv, PitType, PitInv, EmitType, EmitShape, EmitInv, Reservation, Pace, Manifests, Reported,
     Accepted, Reports
<1> QED
  BY <1>1, <1>2, <1>3, <1>5 DEF LabInv, TypeInv

LEMMA ShipperStep ==
  ASSUME LabInv, Shipper
  PROVE  LabInv'
<1>1. auth' = auth /\ emit' = emit
  BY DEF Shipper, Tick, refreshTip, appendBatch, Reread, Stop, Rival
<1>2. AuthType' /\ JournalInv' /\ RateInv'
  BY <1>1 DEF LabInv, TypeInv, AuthType, AuthShape, JournalInv, RateInv
<1>3. ShipType' /\ Stretches' /\ ShipInv'
  <2>1. CASE Rival
    BY <1>1, <2>1 DEF Rival, LabInv, TypeInv, ShipType, Stretches, ShipInv, Account, Receipts
  <2>2. CASE Tick \/ refreshTip \/ appendBatch \/ Reread \/ Stop
    <3>1. /\ ship.pc # "done" /\ ShipMoves /\ DOMAIN ship' = ShipFields /\ ship'.prev \in Nat /\ ship'.attempts \in Nat
      BY <2>2, ShipperMoves DEF LabInv, TypeInv
    <3> QED
      BY <1>1, <3>1, MovesType, MovesStretches, MovesAccount, MovesReceipts DEF LabInv, TypeInv, ShipInv, JournalInv
  <2> QED
    BY <2>1, <2>2 DEF Shipper
<1>4. PitType' /\ PitInv' /\ Cardinality(Reports) <= Cardinality(Reports') /\ Cardinality(Reports') \in Nat
  BY PitShipper DEF LabInv, TypeInv
<1>5. EmitType' /\ Reservation' /\ Pace' /\ Manifests'
  BY <1>1 DEF LabInv, TypeInv, EmitType, EmitShape, EmitInv, Reservation, Pace, Manifests, Accepted
<1>6. Reported'
  <2>1. Cardinality(Reports) \in Nat
    BY ReportsFinite DEF LabInv, TypeInv
  <2>2. emit.shipped \in Nat /\ emit.shipped <= Cardinality(Reports)
    BY DEF LabInv, TypeInv, EmitType, EmitInv, Reported
  <2> QED
    BY <1>1, <1>4, <2>1, <2>2 DEF Reported
<1> QED
  BY <1>2, <1>3, <1>4, <1>5, <1>6 DEF LabInv, TypeInv, EmitInv

LEMMA EmitterStep ==
  ASSUME LabInv, Emitter
  PROVE  LabInv'
<1>1. auth' = auth /\ ship' = ship
  BY DEF Emitter, reserve, Passes, RunReplay, Send, RunTool, Launch, Terminate, Kill, ToolEnds,
     CreateStaging, WriteStaging, Rename, ShipTip, ShipPost,
     execute, Release, EmitSignal, Crash, Restart
<1>2. AuthType' /\ JournalInv' /\ RateInv' /\ ShipType' /\ Stretches' /\ ShipInv'
  BY <1>1 DEF LabInv, TypeInv, AuthType, AuthShape, JournalInv, RateInv, ShipType, Stretches, ShipInv, Account, Receipts
<1>3. EmitType' /\ EmitInv' /\ PitType' /\ PitInv'
  <2>1. CASE CreateStaging \/ WriteStaging \/ Rename \/ ShipTip \/ ShipPost
    BY <2>1, ManifestStep DEF LabInv, TypeInv
  <2>2. CASE ~(CreateStaging \/ WriteStaging \/ Rename \/ ShipTip \/ ShipPost)
    <3>1. pit' = pit
      BY <2>2 DEF Emitter, reserve, Passes, RunReplay, Send, RunTool, Launch, Terminate, Kill, ToolEnds,
        execute, Release, EmitSignal, Crash, Restart
    <3>2. PitType' /\ PitInv'
      BY <3>1 DEF LabInv, TypeInv, PitType, PitInv
    <3>3. EmitType' /\ EmitInv'
      BY <2>2, ReserveStep, ReplayStep, ToolStep, EndStep DEF Emitter, LabInv, TypeInv
    <3> QED
      BY <3>2, <3>3
  <2> QED
    BY <2>1, <2>2
<1> QED
  BY <1>2, <1>3 DEF LabInv, TypeInv

LEMMA LabInductive == Spec => []LabInv
<1>1. LabInv /\ [Next]_vars => LabInv'
  <2> SUFFICES ASSUME LabInv, [Next]_vars PROVE LabInv'
    OBVIOUS
  <2>1. CASE UNCHANGED vars
    <3>1. UNCHANGED <<auth, ship, pit, emit>>
      BY <2>1 DEF vars
    <3>2. AuthType' /\ JournalInv' /\ RateInv'
      BY <3>1 DEF LabInv, TypeInv, AuthType, AuthShape, JournalInv, RateInv
    <3>3. ShipType' /\ Stretches' /\ ShipInv'
      BY <3>1 DEF LabInv, TypeInv, ShipType, Stretches, ShipInv, Account, Receipts
    <3>4. PitType' /\ PitInv' /\ EmitType' /\ EmitInv'
      BY <3>1 DEF LabInv, TypeInv, PitType, PitInv, EmitType, EmitShape, EmitInv, Reservation, Pace, Manifests, Reported,
         Accepted, Reports
    <3> QED
      BY <3>2, <3>3, <3>4 DEF LabInv, TypeInv
  <2> QED
    BY <2>1, ServerStep, ShipperStep, EmitterStep DEF Next
<1> QED
  BY <1>1, LabInit, PTL DEF Spec

(* LabAccounted: for every capacity of the queue, number of attempts, rate *)
(* and burst, every line handed to the shipper has exactly one account, a  *)
(* line counted as shipped is in the unbroken chain of logpit, no answer   *)
(* leaves before its line is in the journal, and no bucket exceeds what    *)
(* its burst and the time that passed allow.                               *)
THEOREM LabIsAccounted == Spec => []LabAccounted
<1>1. LabInv => LabAccounted
  <2> SUFFICES ASSUME LabInv PROVE LabAccounted
    OBVIOUS
  <2>1. LinesAccounted
    <3>1. /\ ship.offered = ship.shipped + ship.dropped +
               (IF ship.pc = "done" THEN ship.late ELSE Len(ship.queue) + Len(ship.body))
          /\ Len(ship.queue) + Len(ship.body) <= QueueMax
      BY DEF LabInv, ShipInv, Account
    <3>2. ship.late > 0 => auth.signal
      BY DEF LabInv, ShipInv, Account
    <3>3. ship.shipped <= Cardinality(ship.stored)
      <4>1. ship.stored \in SUBSET auth.counted /\ IsFiniteSet(auth.counted)
        BY DEF LabInv, Stretches, JournalInv
      <4>2. IsFiniteSet(ship.stored) /\ ship.stored \ Ids(ship.body) \in SUBSET ship.stored
        BY <4>1, FS_Subset
      <4>3. /\ Cardinality(ship.stored \ Ids(ship.body)) <= Cardinality(ship.stored)
            /\ Cardinality(ship.stored \ Ids(ship.body)) \in Nat /\ Cardinality(ship.stored) \in Nat
        BY <4>2, FS_Subset, FS_CardinalityType
      <4>4. ship.shipped \in Nat /\ ship.shipped <= Cardinality(ship.stored \ Ids(ship.body))
        BY DEF LabInv, TypeInv, ShipType, ShipInv, Receipts
      <4> QED
        BY <4>3, <4>4
    <3>4. /\ \A k \in 2 .. Len(pit) : pit[k].prev = k - 1
          /\ \A k \in DOMAIN pit : \A i, j \in DOMAIN pit[k].lines : i < j => pit[k].lines[i] < pit[k].lines[j]
      BY DEF LabInv, PitInv, Rising
    <3> QED
      BY <3>1, <3>2, <3>3, <3>4 DEF LinesAccounted
  <2>2. AnswersJournaled
    <3>1. \A b \in Buckets : auth.allowed[b] <= Burst + Rate * (auth.top - auth.first[b])
      <4> SUFFICES ASSUME NEW b \in Buckets PROVE auth.allowed[b] <= Burst + Rate * (auth.top - auth.first[b])
        OBVIOUS
      <4>1. /\ Rate \in Nat /\ Burst \in Nat /\ auth.top \in Nat /\ auth.stamp[b] \in Int /\ auth.first[b] \in Nat
            /\ auth.allowed[b] \in Nat /\ auth.tokens[b] \in Nat
        BY ConstantTypes DEF LabInv, TypeInv, AuthType
      <4>2. CASE auth.stamp[b] = -1
        <5>1. auth.allowed[b] = 0 /\ auth.first[b] = 0
          BY <4>2 DEF LabInv, RateInv
        <5>2. Rate * (auth.top - 0) \in Nat
          BY <4>1
        <5> QED
          BY <4>1, <5>1, <5>2
      <4>3. CASE auth.stamp[b] # -1
        <5>1. /\ auth.stamp[b] <= auth.top
              /\ auth.allowed[b] + auth.tokens[b] <= Burst + Rate * (auth.stamp[b] - auth.first[b])
          BY <4>3 DEF LabInv, RateInv
        <5>2. PICK m \in Int, n \in Int : m = auth.stamp[b] - auth.first[b] /\ n = auth.top - auth.first[b] /\ m <= n
          BY <4>1, <5>1
        <5>3. Rate * m <= Rate * n /\ Rate * m \in Int /\ Rate * n \in Int
          BY <4>1, <5>2, RateGrows
        <5> QED
          BY <4>1, <5>1, <5>2, <5>3
      <4> QED
        BY <4>2, <4>3
    <3>2. Len(auth.disk) - Cardinality(auth.counted) \in {0, 1}
      BY DEF LabInv, JournalInv
    <3>3. /\ \A a \in auth.answered : \E k \in DOMAIN auth.disk : auth.disk[k].line.id = a /\ ~auth.disk[k].line.limited
          /\ auth.answered \subseteq auth.counted
          /\ \A j, k \in DOMAIN auth.disk : j < k => auth.disk[j].line.id < auth.disk[k].line.id
      BY DEF LabInv, JournalInv
    <3> QED
      BY <3>1, <3>2, <3>3 DEF AnswersJournaled
  <2> QED
    BY <2>1, <2>2 DEF LabAccounted
<1> QED
  BY <1>1, LabInductive, PTL

(* A number of intervals that fit in a duration is bounded by the quotient.*)
LEMMA Fitting ==
  ASSUME NEW n \in Int, NEW x \in Int, NEW i \in Nat \ {0}, n * i <= x
  PROVE  n <= x \div i
<1>1. PICK d \in Int : d = x \div i
  OBVIOUS
<1>2. x < (d + 1) * i
  BY <1>1
<1>3. n * i < (d + 1) * i
  BY <1>2
<1>4. n < d + 1
  BY <1>3
<1> QED
  BY <1>1, <1>4

(* CampaignAlone: for every set of clients and every interval, one         *)
(* campaign runs at a time, it asks no faster than its pace, and whenever  *)
(* the process dies a published manifest is whole.                         *)
THEOREM CampaignsRunAlone == Spec => []CampaignAlone
<1>1. LabInv => CampaignAlone
  <2> SUFFICES ASSUME LabInv PROVE CampaignAlone
    OBVIOUS
  <2>1. emit.busy => emit.sends <= (emit.clock - emit.start) \div Interval + 1
    <3> SUFFICES ASSUME emit.busy PROVE emit.sends <= (emit.clock - emit.start) \div Interval + 1
      OBVIOUS
    <3>1. /\ Interval \in Nat \ {0} /\ emit.clock \in Nat /\ emit.start \in Nat /\ emit.sends \in Nat
          /\ (emit.sends - 1) * Interval <= emit.clock - emit.start
      BY ConstantTypes DEF LabInv, TypeInv, EmitType, EmitInv, Reservation, Pace
    <3>2. PICK n \in Int, x \in Int : n = emit.sends - 1 /\ x = emit.clock - emit.start
      BY <3>1
    <3>3. n * Interval <= x
      BY <3>1, <3>2
    <3>4. Interval \in Nat \ {0}
      BY <3>1
    <3>5. n <= x \div Interval
      BY <3>3, <3>4, Fitting, Zenon
    <3>6. x \div Interval \in Int
      BY <3>4
    <3> QED
      BY <3>1, <3>2, <3>5, <3>6
  <2>2. emit.up => (emit.busy <=> emit.pc # "idle")
    BY DEF LabInv, EmitInv, Reservation
  <2>3. emit.up => Cardinality({c \in Clients : emit.client[c] = "accepted"}) - emit.campaigns
                     = IF emit.busy /\ emit.pc # "release" THEN 1 ELSE 0
    BY DEF LabInv, EmitInv, Reservation, Accepted
  <2>4. /\ \A r \in RunIDs : emit.manifest[r] # "empty"
        /\ emit.shipped <= Cardinality({k \in DOMAIN pit : pit[k].lines = <<-1>>})
    BY DEF LabInv, EmitInv, Manifests, Reported, Reports
  <2> QED
    BY <2>1, <2>2, <2>3, <2>4 DEF CampaignAlone
<1> QED
  BY <1>1, LabInductive, PTL

-----------------------------------------------------------------------------
(* The live service.  A state of the service is sound when every session   *)
(* is: its files hold the events of its source, and after a failure of the *)
(* journal perhaps one more, which no number was given to.                 *)

Sessions ==
  [key : Addresses, run : LiveRuns \cup {NoRun}, jsonl : Seq(Nat), pcap : Seq(Nat), broken : BOOLEAN,
   closed : BOOLEAN, finishErr : BOOLEAN, published : BOOLEAN, finished : BOOLEAN]
ServiceFields ==
  {"source", "sources", "runs", "ordinal", "disk", "sequence", "log", "events", "evicted", "journalErr", "asyncErr",
   "closing", "faults"}
ServiceType(t) ==
  /\ DOMAIN t = ServiceFields
  /\ t.source \in Seq(Sessions) /\ t.journalErr \in BOOLEAN /\ t.closing \in BOOLEAN
  /\ t.sources \in [Addresses -> 0 .. Len(t.source)] /\ t.runs \in [LiveRuns -> 0 .. Len(t.source)]
  /\ t.sequence \in Nat /\ t.log \in Seq(1 .. Len(t.source)) /\ Len(t.log) = t.sequence
RunFrom(f, k, n) == k + Len(f) = n /\ \A j \in 1 .. Len(f) : f[j] = k + j
Window(t) ==
  /\ t.evicted \in Nat /\ t.evicted <= t.sequence
  /\ t.events \in Seq(Nat) /\ RunFrom(t.events, t.evicted, t.sequence)

Recorded(t, i, f) ==
  /\ Rising(f)
  /\ Ids(f) = EventsOf(t, i) \/ (t.journalErr /\ Ids(f) = EventsOf(t, i) \cup {t.sequence + 1})
SessionInv(t, i, e) ==
  /\ e.broken => t.journalErr
  /\ (e.finished => e.closed) /\ (e.finishErr => e.closed)
  /\ \A f \in {e.jsonl, e.pcap} : (e.finishErr /\ f = <<>>) \/ Recorded(t, i, f)
  /\ ~e.broken => e.jsonl = e.pcap
  /\ e.closed /\ ~e.finishErr => ~e.broken /\ (e.run # NoRun => e.published)
SessionsInv(t) == \A i \in 1 .. Len(t.source) : SessionInv(t, i, t.source[i])
ServiceInv(t) == ServiceType(t) /\ Window(t) /\ SessionsInv(t)

(* Before Close every source that is finished was finished without error.  *)
Faultless(t) == \A i \in 1 .. Len(t.source) : t.source[i].finished => ~t.source[i].finishErr

(* What a later state of the service keeps of an earlier one.              *)
Lasting(e) == e.closed /\ ~e.finishErr
Follows(t, u) ==
  /\ Len(t.source) <= Len(u.source) /\ u.closing = t.closing
  /\ t.sequence <= u.sequence /\ t.evicted <= u.evicted
  /\ \A n \in 1 .. t.sequence : u.log[n] = t.log[n]
  /\ \A i \in 1 .. Len(t.source) :
       Lasting(t.source[i]) => Lasting(u.source[i]) /\ u.source[i].run = t.source[i].run
  /\ Faultless(t) => Faultless(u)

(* The counts of a state are numbers.                                      *)
LEMMA Counts ==
  ASSUME NEW t, ServiceInv(t)
  PROVE  Len(t.source) \in Nat /\ t.sequence \in Nat /\ t.evicted \in Nat
  BY DEF ServiceInv, ServiceType, Window

(* Follows is reflexive and transitive.                                    *)
LEMMA FollowsSelf == ASSUME NEW t, ServiceInv(t) PROVE Follows(t, t)
  BY DEF Follows, ServiceInv, ServiceType, Window

LEMMA FollowsOn ==
  ASSUME NEW t, NEW u, NEW w, ServiceInv(t), ServiceInv(u), ServiceInv(w), Follows(t, u), Follows(u, w)
  PROVE  Follows(t, w)
<1>1. /\ Len(t.source) \in Nat /\ Len(u.source) \in Nat /\ Len(w.source) \in Nat
      /\ t.sequence \in Nat /\ u.sequence \in Nat /\ w.sequence \in Nat
      /\ t.evicted \in Nat /\ u.evicted \in Nat /\ w.evicted \in Nat
  BY Counts
<1>2. \A i \in 1 .. Len(t.source) : i \in 1 .. Len(u.source)
  BY <1>1 DEF Follows
<1>3. \A i \in 1 .. t.sequence : i \in 1 .. u.sequence
  BY <1>1 DEF Follows
<1> QED
  BY SMTT(30), <1>1, <1>2, <1>3 DEF Follows

(* The numbers below the next one stay those of their source.              *)
LEMMA EventsStay ==
  ASSUME NEW t, NEW u, NEW i, u.sequence = t.sequence, u.log = t.log
  PROVE  EventsOf(u, i) = EventsOf(t, i)
  BY DEF EventsOf

(* A session keeps its invariant when the journal neither moves nor is     *)
(* repaired.                                                               *)
LEMMA SessionStays ==
  ASSUME NEW t, NEW u, NEW i, NEW e, SessionInv(t, i, e), t.journalErr => u.journalErr,
         u.sequence = t.sequence, u.log = t.log
  PROVE  SessionInv(u, i, e)
<1>1. EventsOf(u, i) = EventsOf(t, i)
  BY EventsStay
<1> QED
  BY <1>1 DEF SessionInv, Recorded

(* A failure of the journal, with the fault and the file that it leaves.   *)
LEMMA FailedStep ==
  ASSUME NEW t, NEW u, ServiceInv(t), DOMAIN u = ServiceFields, u.journalErr \in BOOLEAN,
         t.journalErr => u.journalErr, u.source = t.source, u.sources = t.sources, u.runs = t.runs,
         u.sequence = t.sequence, u.log = t.log, u.events = t.events, u.evicted = t.evicted, u.closing = t.closing
  PROVE  ServiceInv(u) /\ Follows(t, u)
<1>1. ServiceType(u) /\ Window(u)
  BY DEF ServiceInv, ServiceType, Window
<1>2. SessionsInv(u)
  BY SessionStays DEF ServiceInv, SessionsInv
<1>3. Follows(t, u)
  BY Counts DEF Follows, Faultless
<1> QED
  BY <1>1, <1>2, <1>3 DEF ServiceInv

(* A new session.                                                          *)
LEMMA OpenedType ==
  ASSUME NEW a \in Addresses, NEW r \in LiveRuns \cup {NoRun}
  PROVE  openEvidenceSession(a, r) \in Sessions
  BY DEF openEvidenceSession, Sessions

(* newSourceLocked: the new source has no event, or the journal stopped.   *)
LEMMA NewSource ==
  ASSUME NEW t, ServiceInv(t), NEW a \in Addresses, NEW r \in LiveRuns \cup {NoRun}, NEW u \in newSourceLocked(t, a, r)
  PROVE  /\ ServiceInv(u) /\ Follows(t, u) /\ u.sequence = t.sequence
         /\ ~u.journalErr => u.sources[a] # 0
<1> DEFINE v == [t EXCEPT !.ordinal = @ + 1]
           stem == sourceEvidenceStem(v, a, r)
           N == Len(t.source) + 1
           new == openEvidenceSession(a, r)
<1>0. DOMAIN t = ServiceFields
  BY DEF ServiceInv, ServiceType
<1>1. /\ DOMAIN v = ServiceFields /\ v.source = t.source /\ v.sources = t.sources /\ v.runs = t.runs
      /\ v.sequence = t.sequence /\ v.log = t.log /\ v.events = t.events /\ v.evicted = t.evicted
      /\ v.closing = t.closing /\ v.journalErr = t.journalErr
  BY <1>0 DEF ServiceFields
<1> HIDE DEF v, stem
<1>2. CASE u \in {[v EXCEPT !.journalErr = TRUE]} \cup
                 {[[v EXCEPT !.journalErr = TRUE] EXCEPT !.faults = @ + 1, !.disk = d] : d \in {v.disk, v.disk \cup {stem}}}
  <2>1. /\ DOMAIN u = ServiceFields /\ u.source = t.source /\ u.sources = t.sources /\ u.runs = t.runs
        /\ u.sequence = t.sequence /\ u.log = t.log /\ u.events = t.events /\ u.evicted = t.evicted
        /\ u.closing = t.closing /\ u.journalErr = TRUE
    BY <1>1, <1>2 DEF ServiceFields
  <2> QED
    BY <2>1, FailedStep
<1>3. CASE u = [v EXCEPT !.source = Append(@, new), !.disk = @ \cup {stem}, !.sources[a] = Len(v.source) + 1,
                         !.runs = [x \in LiveRuns |-> IF x = r THEN Len(v.source) + 1 ELSE v.runs[x]]]
  <2>1. /\ DOMAIN u = ServiceFields /\ u.source = Append(t.source, new)
        /\ u.sources = [t.sources EXCEPT ![a] = N] /\ u.runs = [x \in LiveRuns |-> IF x = r THEN N ELSE t.runs[x]]
        /\ u.sequence = t.sequence /\ u.log = t.log /\ u.events = t.events /\ u.evicted = t.evicted
        /\ u.closing = t.closing /\ u.journalErr = t.journalErr
    BY <1>1, <1>3 DEF ServiceFields
  <2>2. new \in Sessions /\ t.source \in Seq(Sessions) /\ Len(t.source) \in Nat
    BY OpenedType DEF ServiceInv, ServiceType
  <2> HIDE DEF new
  <2>3. u.source \in Seq(Sessions) /\ Len(u.source) = N /\ u.source[N] = new
        /\ \A i \in 1 .. Len(t.source) : u.source[i] = t.source[i]
    BY <2>1, <2>2
  <2>4. ServiceType(u)
    <3>1. u.sources \in [Addresses -> 0 .. N] /\ u.sources[a] = N /\ u.runs \in [LiveRuns -> 0 .. N]
      BY <2>1, <2>2 DEF ServiceInv, ServiceType
    <3>2. u.log \in Seq(1 .. N)
      BY <2>1, <2>2 DEF ServiceInv, ServiceType
    <3> QED
      BY <2>1, <2>3, <3>1, <3>2 DEF ServiceInv, ServiceType
  <2>5. Window(u)
    BY <2>1 DEF ServiceInv, Window
  <2>6. EventsOf(u, N) = {}
    BY <2>1, <2>2 DEF EventsOf, ServiceInv, ServiceType
  <2>7. SessionInv(u, N, new)
    BY <2>6 DEF SessionInv, Recorded, Rising, Ids, openEvidenceSession, new
  <2>8. \A i \in 1 .. Len(t.source) : SessionInv(u, i, u.source[i])
    BY <2>1, <2>3, SessionStays DEF ServiceInv, SessionsInv
  <2>9. \A i \in 1 .. N : i \in 1 .. Len(t.source) \/ i = N
    BY <2>2
  <2>10. SessionsInv(u)
    BY <2>3, <2>7, <2>8, <2>9 DEF SessionsInv
  <2>11. Faultless(t) => Faultless(u)
    BY <2>3, <2>9 DEF Faultless, openEvidenceSession, new
  <2>12. Follows(t, u)
    BY <2>1, <2>2, <2>3, <2>11, Counts DEF Follows, Lasting
  <2>13. u.sources[a] # 0
    BY <2>1, <2>2 DEF ServiceInv, ServiceType
  <2> QED
    BY <2>1, <2>4, <2>5, <2>10, <2>12, <2>13 DEF ServiceInv
<1> QED
  BY <1>2, <1>3 DEF newSourceLocked, v, stem, new

(* A file that takes the next number holds the events and that one.        *)
LEMMA FileAppend ==
  ASSUME NEW t, ServiceType(t), NEW i, NEW f \in Seq(Nat), Rising(f), Ids(f) = EventsOf(t, i)
  PROVE  /\ Append(f, t.sequence + 1) \in Seq(Nat) /\ Rising(Append(f, t.sequence + 1))
         /\ Ids(Append(f, t.sequence + 1)) = EventsOf(t, i) \cup {t.sequence + 1}
<1>1. t.sequence \in Nat /\ t.sequence + 1 \in Nat
  BY DEF ServiceType
<1>2. Below(Ids(f), {t.sequence + 1})
  BY <1>1 DEF Below, EventsOf
<1>3. f \in Seq(Int) /\ t.sequence + 1 \in Int
  BY <1>1
<1> QED
  BY <1>1, <1>2, <1>3, IdsAppend, RisingAppend

(* A run of numbers goes on, and may lose its first.                       *)
LEMMA RunGoesOn ==
  ASSUME NEW f \in Seq(Nat), NEW k \in Nat, NEW n \in Nat, RunFrom(f, k, n)
  PROVE  /\ Append(f, n + 1) \in Seq(Nat) /\ RunFrom(Append(f, n + 1), k, n + 1)
         /\ Len(f) > 0 => Tail(f) \in Seq(Nat) /\ RunFrom(Tail(f), k + 1, n)
<1>1. PICK m \in Nat : m = Len(f) /\ k + m = n
  BY DEF RunFrom
<1>2. Append(f, n + 1) \in Seq(Nat) /\ Len(Append(f, n + 1)) = m + 1
  BY <1>1
<1>3. \A j \in 1 .. m + 1 : Append(f, n + 1)[j] = IF j = m + 1 THEN n + 1 ELSE f[j]
  BY <1>1
<1>4. RunFrom(Append(f, n + 1), k, n + 1)
  BY SMTT(30), <1>1, <1>2, <1>3 DEF RunFrom
<1>5. ASSUME m > 0 PROVE Tail(f) \in Seq(Nat) /\ RunFrom(Tail(f), k + 1, n)
  <2>1. Tail(f) \in Seq(Nat) /\ Len(Tail(f)) = m - 1 /\ \A j \in 1 .. m - 1 : Tail(f)[j] = f[j + 1]
    BY <1>1, <1>5
  <2> QED
    BY <1>1, <1>5, <2>1 DEF RunFrom
<1> QED
  BY <1>1, <1>2, <1>4, <1>5

(* The window when an event enters it.                                     *)
LEMMA WindowAppend ==
  ASSUME NEW t, ServiceType(t), Window(t), NEW u, u.sequence = t.sequence + 1,
         u.events = Append(IF Len(t.events) = Limit THEN Tail(t.events) ELSE t.events, t.sequence + 1),
         u.evicted = IF Len(t.events) = Limit THEN t.evicted + 1 ELSE t.evicted
  PROVE  Window(u) /\ t.evicted <= u.evicted
<1>1. t.sequence \in Nat /\ t.evicted \in Nat /\ t.evicted <= t.sequence /\ t.events \in Seq(Nat)
      /\ RunFrom(t.events, t.evicted, t.sequence)
  BY DEF ServiceType, Window
<1>2. CASE Len(t.events) = Limit
  <2>1. Len(t.events) > 0
    BY <1>2, DnsLiveAssumption
  <2>2. Tail(t.events) \in Seq(Nat) /\ RunFrom(Tail(t.events), t.evicted + 1, t.sequence)
    BY <1>1, <2>1, RunGoesOn
  <2>3. t.evicted + 1 \in Nat
    BY <1>1
  <2>4. u.events \in Seq(Nat) /\ RunFrom(u.events, t.evicted + 1, t.sequence + 1)
    BY <1>1, <1>2, <2>2, <2>3, RunGoesOn
  <2> QED
    BY <1>1, <1>2, <2>4 DEF Window
<1>3. CASE Len(t.events) # Limit
  <2>1. u.events \in Seq(Nat) /\ RunFrom(u.events, t.evicted, t.sequence + 1)
    BY <1>1, <1>3, RunGoesOn
  <2> QED
    BY <1>1, <1>3, <2>1 DEF Window
<1> QED
  BY <1>2, <1>3

(* journalEventLocked on a journal that works: the event is in both files  *)
(* and has the next number, or the journal stops.                          *)
JournalGoes(t, i, u) ==
  /\ u.sequence = t.sequence + 1 /\ u.log[u.sequence] = i /\ ~u.journalErr
JournalStops(t, u) == u.sequence = t.sequence /\ u.journalErr

(* What evidenceAppend leaves of a session.                                *)
Writes == [jsonl : BOOLEAN, pcap : BOOLEAN, broken : BOOLEAN]
AppendedAs(w, e, n, f) ==
  /\ w \in Sessions /\ w.broken = f.broken
  /\ w.jsonl = IF f.jsonl THEN Append(e.jsonl, n) ELSE e.jsonl
  /\ w.pcap = IF f.pcap THEN Append(e.pcap, n) ELSE e.pcap
  /\ w.key = e.key /\ w.run = e.run /\ w.closed = e.closed
  /\ w.finishErr = e.finishErr /\ w.published = e.published /\ w.finished = e.finished
LEMMA AppendedSession ==
  ASSUME NEW e \in Sessions, NEW n \in Nat, NEW f \in Writes
  PROVE  AppendedAs(evidenceAppend(e, n, f), e, n, f)
<1> DEFINE w == evidenceAppend(e, n, f)
<1>1. /\ w.jsonl = IF f.jsonl THEN Append(e.jsonl, n) ELSE e.jsonl
      /\ w.pcap = IF f.pcap THEN Append(e.pcap, n) ELSE e.pcap
      /\ w.broken = f.broken
  BY DEF evidenceAppend, Sessions, Writes
<1>2. /\ w.key = e.key /\ w.run = e.run /\ w.closed = e.closed
      /\ w.finishErr = e.finishErr /\ w.published = e.published /\ w.finished = e.finished
  BY DEF evidenceAppend, Sessions
<1>3. w.jsonl \in Seq(Nat) /\ w.pcap \in Seq(Nat) /\ w.broken \in BOOLEAN
  BY <1>1 DEF Sessions, Writes
<1>4. w \in Sessions
  BY <1>3 DEF evidenceAppend, Sessions
<1> QED
  BY <1>1, <1>2, <1>4 DEF AppendedAs

(* A session that takes an event on a working journal.                     *)
LEMMA JournalGoesOn ==
  ASSUME NEW t, ServiceInv(t), ~t.journalErr, NEW i \in 1 .. Len(t.source), ~t.source[i].closed,
         NEW u, DOMAIN u = ServiceFields,
         u.source = [t.source EXCEPT ![i] = evidenceAppend(@, t.sequence + 1, [jsonl |-> TRUE, pcap |-> TRUE, broken |-> FALSE])],
         u.sources = t.sources, u.runs = t.runs, u.sequence = t.sequence + 1, u.log = Append(t.log, i),
         u.events = Append(IF Len(t.events) = Limit THEN Tail(t.events) ELSE t.events, t.sequence + 1),
         u.evicted = (IF Len(t.events) = Limit THEN t.evicted + 1 ELSE t.evicted),
         u.journalErr = t.journalErr, u.closing = t.closing
  PROVE  ServiceInv(u) /\ Follows(t, u) /\ JournalGoes(t, i, u)
<1> DEFINE n == t.sequence + 1
           whole == [jsonl |-> TRUE, pcap |-> TRUE, broken |-> FALSE]
           old == t.source[i]
           e == evidenceAppend(old, n, whole)
<1>1. ServiceType(t) /\ Window(t) /\ SessionsInv(t) /\ SessionInv(t, i, old) /\ t.sequence \in Nat /\ n \in Nat
  BY DEF ServiceInv, ServiceType, SessionsInv
<1>2. old \in Sessions
  BY <1>1 DEF ServiceType
<1>3. whole \in Writes /\ whole.jsonl = TRUE /\ whole.pcap = TRUE /\ whole.broken = FALSE
  BY DEF Writes
<1> HIDE DEF whole, n, old
<1>4. /\ e \in Sessions /\ e.jsonl = Append(old.jsonl, n) /\ e.pcap = Append(old.pcap, n) /\ e.broken = FALSE
      /\ e.run = old.run /\ e.closed = old.closed /\ e.finishErr = old.finishErr /\ e.published = old.published
      /\ e.finished = old.finished
  <2>1. AppendedAs(e, old, n, whole)
    BY <1>1, <1>2, <1>3, AppendedSession
  <2> QED
    BY <1>3, <2>1 DEF AppendedAs
<1>5. u.source = [t.source EXCEPT ![i] = e]
  BY DEF whole, n, old
<1> HIDE DEF e
<1> USE DEF n, old
<1>6. /\ u.source \in Seq(Sessions) /\ Len(u.source) = Len(t.source) /\ u.source[i] = e
      /\ \A j \in 1 .. Len(t.source) : j # i => u.source[j] = t.source[j]
  BY <1>1, <1>4, <1>5 DEF ServiceType
<1>7. u.log \in Seq(1 .. Len(u.source)) /\ Len(u.log) = n /\ u.log[n] = i /\ \A k \in 1 .. t.sequence : u.log[k] = t.log[k]
  <2>1. PICK m \in Nat : m = t.sequence /\ Len(t.log) = m
    BY <1>1 DEF ServiceType
  <2> QED
    BY <1>1, <1>6, <2>1 DEF ServiceType
<1>8. ServiceType(u)
  BY <1>1, <1>6, <1>7 DEF ServiceType
<1>9. Window(u) /\ t.evicted <= u.evicted
  BY <1>1, WindowAppend
<1>10. EventsOf(u, i) = EventsOf(t, i) \cup {n} /\ \A j \in 1 .. Len(t.source) : j # i => EventsOf(u, j) = EventsOf(t, j)
  <2>1. 1 .. n = 1 .. t.sequence \cup {n} /\ n \notin 1 .. t.sequence
    BY <1>1
  <2> QED
    BY SMTT(30), <1>7, <2>1 DEF EventsOf
<1>11. SessionInv(u, i, e)
  <2>1. ~old.finishErr /\ ~old.finished
    BY <1>1 DEF SessionInv
  <2>2. ~old.broken /\ old.jsonl = old.pcap /\ Rising(old.jsonl) /\ Ids(old.jsonl) = EventsOf(t, i)
    BY <1>1, <2>1 DEF SessionInv, Recorded
  <2>3. old.jsonl \in Seq(Nat)
    BY <1>2 DEF Sessions
  <2>4. Rising(e.jsonl) /\ Ids(e.jsonl) = EventsOf(u, i) /\ e.jsonl = e.pcap
    BY <1>1, <1>4, <1>10, <2>2, <2>3, FileAppend
  <2> QED
    BY <1>4, <2>1, <2>4 DEF SessionInv, Recorded
<1>12. ASSUME NEW j \in 1 .. Len(t.source), j # i PROVE SessionInv(u, j, u.source[j])
  <2>1. SessionInv(t, j, t.source[j]) /\ u.source[j] = t.source[j] /\ EventsOf(u, j) = EventsOf(t, j)
    BY <1>1, <1>6, <1>10, <1>12 DEF SessionsInv
  <2> QED
    BY <2>1 DEF SessionInv, Recorded
<1>13. SessionsInv(u)
  BY <1>6, <1>11, <1>12 DEF SessionsInv
<1>14. Follows(t, u)
  <2>1. Faultless(t) => Faultless(u)
    BY <1>4, <1>6 DEF Faultless
  <2>2. \A j \in 1 .. Len(t.source) : Lasting(t.source[j]) => Lasting(u.source[j]) /\ u.source[j].run = t.source[j].run
    BY <1>4, <1>6 DEF Lasting
  <2> QED
    BY <1>1, <1>6, <1>7, <1>9, <2>1, <2>2 DEF Follows, ServiceType
<1> QED
  BY <1>1, <1>7, <1>8, <1>9, <1>13, <1>14 DEF ServiceInv, JournalGoes

(* A change of one session while the journal gives no number.              *)
LEMMA SessionChanged ==
  ASSUME NEW t, ServiceInv(t), NEW i \in 1 .. Len(t.source), NEW e \in Sessions, NEW u, DOMAIN u = ServiceFields,
         u.source = [t.source EXCEPT ![i] = e], u.sources \in [Addresses -> 0 .. Len(t.source)], u.runs = t.runs,
         u.sequence = t.sequence, u.log = t.log, u.events = t.events, u.evicted = t.evicted, u.closing = t.closing,
         u.journalErr \in BOOLEAN, t.journalErr => u.journalErr, SessionInv(u, i, e),
         Lasting(t.source[i]) => Lasting(e) /\ e.run = t.source[i].run,
         t.source[i].finished /\ ~t.source[i].finishErr => (e.finished => ~e.finishErr),
         e.finished /\ ~t.source[i].finished => ~e.finishErr
  PROVE  ServiceInv(u) /\ Follows(t, u)
<1>1. ServiceType(t) /\ Window(t) /\ SessionsInv(t)
  BY DEF ServiceInv
<1>2. /\ u.source \in Seq(Sessions) /\ Len(u.source) = Len(t.source) /\ u.source[i] = e
      /\ \A j \in 1 .. Len(t.source) : j # i => u.source[j] = t.source[j]
  BY <1>1 DEF ServiceType
<1>3. ServiceType(u)
  BY <1>1, <1>2 DEF ServiceType
<1>4. Window(u)
  BY <1>1 DEF Window
<1>5. SessionsInv(u)
  <2>1. ASSUME NEW j \in 1 .. Len(t.source), j # i PROVE SessionInv(u, j, u.source[j])
    BY <1>1, <1>2, <2>1, SessionStays DEF SessionsInv
  <2> QED
    BY <1>2, <2>1 DEF SessionsInv
<1>6. Faultless(t) => Faultless(u)
  BY <1>2 DEF Faultless
<1>7. Follows(t, u)
  BY <1>2, <1>6, Counts DEF Follows
<1> QED
  BY <1>3, <1>4, <1>5, <1>7 DEF ServiceInv

(* A failed append leaves the event in none, one or both files.            *)
LEMMA FailedAppend ==
  ASSUME NEW t, ServiceInv(t), ~t.journalErr, NEW i \in 1 .. Len(t.source), ~t.source[i].closed,
         NEW f \in AppendFailures, NEW u, DOMAIN u = ServiceFields,
         u.source = [t.source EXCEPT ![i] = evidenceAppend(@, t.sequence + 1, f)],
         u.sources = t.sources, u.runs = t.runs, u.sequence = t.sequence, u.log = t.log, u.events = t.events,
         u.evicted = t.evicted, u.journalErr = TRUE, u.closing = t.closing
  PROVE  ServiceInv(u) /\ Follows(t, u)
<1> DEFINE n == t.sequence + 1
           old == t.source[i]
           e == evidenceAppend(old, n, f)
<1>1. ServiceType(t) /\ SessionInv(t, i, old) /\ t.sequence \in Nat /\ n \in Nat /\ t.sources \in [Addresses -> 0 .. Len(t.source)]
  BY DEF ServiceInv, ServiceType, SessionsInv
<1>2. old \in Sessions
  BY <1>1 DEF ServiceType
<1>3. f \in Writes /\ (~f.broken => f.jsonl /\ f.pcap)
  BY DEF AppendFailures, Writes
<1>4. u.source = [t.source EXCEPT ![i] = e]
  OBVIOUS
<1>5. AppendedAs(e, old, n, f)
  BY <1>1, <1>2, <1>3, AppendedSession
<1> HIDE DEF e
<1>6. ~old.finishErr /\ ~old.finished /\ ~old.broken /\ old.jsonl = old.pcap
  BY <1>1 DEF SessionInv
<1>7. Rising(old.jsonl) /\ Ids(old.jsonl) = EventsOf(t, i) /\ old.jsonl \in Seq(Nat)
  BY <1>1, <1>2, <1>6 DEF SessionInv, Recorded, Sessions
<1>8. Rising(Append(old.jsonl, n)) /\ Ids(Append(old.jsonl, n)) = EventsOf(t, i) \cup {n}
  BY <1>1, <1>7, FileAppend
<1>9. EventsOf(u, i) = EventsOf(t, i)
  BY EventsStay
<1>10. Recorded(u, i, old.jsonl) /\ Recorded(u, i, Append(old.jsonl, n))
  BY <1>7, <1>8, <1>9 DEF Recorded
<1>11. SessionInv(u, i, e)
  BY <1>3, <1>5, <1>6, <1>10 DEF SessionInv, AppendedAs
<1>12. ~Lasting(old) /\ e.finished = old.finished /\ e.finishErr = old.finishErr
  BY <1>5 DEF Lasting, AppendedAs
<1>13. e \in Sessions
  BY <1>5 DEF AppendedAs
<1>14. u.sources \in [Addresses -> 0 .. Len(t.source)]
  BY <1>1
<1> QED
  BY <1>4, <1>6, <1>11, <1>12, <1>13, <1>14, SessionChanged

(* journalEventLocked.                                                     *)
LEMMA Journal ==
  ASSUME NEW t, ServiceInv(t), ~t.journalErr, NEW i \in 1 .. Len(t.source), NEW u \in journalEventLocked(t, i)
  PROVE  /\ ServiceInv(u) /\ Follows(t, u) /\ u.sources = t.sources
         /\ JournalGoes(t, i, u) \/ JournalStops(t, u)
<1> DEFINE n == t.sequence + 1
           whole == [jsonl |-> TRUE, pcap |-> TRUE, broken |-> FALSE]
           full == Len(t.events) = Limit
<1>0. DOMAIN t = ServiceFields
  BY DEF ServiceInv, ServiceType
<1>1. CASE u = [t EXCEPT !.journalErr = TRUE]
  <2>1. /\ DOMAIN u = ServiceFields /\ u.source = t.source /\ u.sources = t.sources /\ u.runs = t.runs
        /\ u.sequence = t.sequence /\ u.log = t.log /\ u.events = t.events /\ u.evicted = t.evicted
        /\ u.closing = t.closing /\ u.journalErr = TRUE
    BY <1>0, <1>1 DEF ServiceFields
  <2> QED
    BY <2>1, FailedStep DEF JournalStops
<1>2. CASE /\ ~t.source[i].closed
           /\ u = [t EXCEPT !.source[i] = evidenceAppend(@, n, whole), !.sequence = n, !.log = Append(@, i),
                            !.events = Append(IF full THEN Tail(@) ELSE @, n), !.evicted = IF full THEN @ + 1 ELSE @]
  <2>1. /\ DOMAIN u = ServiceFields /\ u.source = [t.source EXCEPT ![i] = evidenceAppend(@, n, whole)]
        /\ u.sources = t.sources /\ u.runs = t.runs /\ u.sequence = n /\ u.log = Append(t.log, i)
        /\ u.closing = t.closing /\ u.journalErr = t.journalErr
    BY <1>0, <1>2 DEF ServiceFields
  <2>2. u.events = Append(IF full THEN Tail(t.events) ELSE t.events, n) /\ u.evicted = IF full THEN t.evicted + 1 ELSE t.evicted
    BY <1>0, <1>2 DEF ServiceFields
  <2> QED
    BY <1>2, <2>1, <2>2, JournalGoesOn
<1>3. CASE /\ ~t.source[i].closed
           /\ \E f \in AppendFailures :
                u = [t EXCEPT !.source[i] = evidenceAppend(@, n, f), !.journalErr = TRUE, !.faults = @ + 1]
  <2>1. PICK f \in AppendFailures : u = [t EXCEPT !.source[i] = evidenceAppend(@, n, f), !.journalErr = TRUE, !.faults = @ + 1]
    BY <1>3
  <2>2. /\ DOMAIN u = ServiceFields /\ u.source = [t.source EXCEPT ![i] = evidenceAppend(@, n, f)]
        /\ u.sources = t.sources /\ u.runs = t.runs
        /\ u.sequence = t.sequence /\ u.log = t.log /\ u.events = t.events /\ u.evicted = t.evicted
        /\ u.closing = t.closing /\ u.journalErr = TRUE
    BY <1>0, <2>1 DEF ServiceFields
  <2> QED
    BY ZenonT(30), <1>3, <2>2, FailedAppend DEF JournalStops
<1> QED
  BY <1>1, <1>2, <1>3 DEF journalEventLocked

(* What finish leaves of a session.                                        *)
FinishedAs(w, e) ==
  /\ w \in Sessions /\ w.closed /\ w.key = e.key /\ w.run = e.run /\ w.finished = e.finished
  /\ Lasting(e) => Lasting(w)

LEMMA FinishSession ==
  ASSUME NEW t, NEW i, NEW e \in Sessions, SessionInv(t, i, e), NEW fails \in BOOLEAN, NEW alive \in BOOLEAN,
         NEW w \in evidenceFinish(e, fails, alive)
  PROVE  FinishedAs(w, e) /\ SessionInv(t, i, w)
<1>1. CASE e.closed
  BY <1>1 DEF evidenceFinish, FinishedAs
<1>2. CASE ~e.closed /\ (e.broken \/ fails)
  <2>1. PICK m \in {FALSE, alive} :
          w = [e EXCEPT !.closed = TRUE, !.finishErr = TRUE, !.published = m /\ e.run # NoRun,
                        !.jsonl = IF m THEN <<>> ELSE @, !.pcap = IF m THEN <<>> ELSE @]
    BY <1>2 DEF evidenceFinish
  <2>2. w \in Sessions
    <3>0. <<>> \in Seq(Nat) /\ e.jsonl \in Seq(Nat) /\ e.pcap \in Seq(Nat)
      BY DEF Sessions
    <3>1. PICK x \in Seq(Nat), y \in Seq(Nat) : x = (IF m THEN <<>> ELSE e.jsonl) /\ y = (IF m THEN <<>> ELSE e.pcap)
      BY <3>0, Zenon
    <3>2. PICK p \in BOOLEAN : p = (m /\ e.run # NoRun)
      OBVIOUS
    <3>3. w = [e EXCEPT !.closed = TRUE, !.finishErr = TRUE, !.published = p, !.jsonl = x, !.pcap = y]
      BY <2>1, <3>1, <3>2
    <3> QED
      BY <3>3 DEF Sessions
  <2>3. /\ w.closed = TRUE /\ w.finishErr = TRUE /\ w.key = e.key /\ w.run = e.run /\ w.finished = e.finished /\ w.broken = e.broken
        /\ w.jsonl = (IF m THEN <<>> ELSE e.jsonl) /\ w.pcap = (IF m THEN <<>> ELSE e.pcap)
    BY <2>1 DEF Sessions
  <2> QED
    BY <1>2, <2>2, <2>3 DEF FinishedAs, SessionInv, Lasting
<1>3. CASE ~e.closed /\ ~(e.broken \/ fails)
  <2>1. w = [e EXCEPT !.closed = TRUE, !.published = alive /\ e.run # NoRun, !.finishErr = ~alive /\ e.run # NoRun]
    BY <1>3 DEF evidenceFinish
  <2>2. w \in Sessions
    BY <2>1 DEF Sessions
  <2>3. /\ w.closed = TRUE /\ w.key = e.key /\ w.run = e.run /\ w.finished = e.finished /\ w.broken = e.broken
        /\ w.finishErr = (~alive /\ e.run # NoRun) /\ w.published = (alive /\ e.run # NoRun)
        /\ w.jsonl = e.jsonl /\ w.pcap = e.pcap
    BY <2>1 DEF Sessions
  <2> QED
    BY <1>3, <2>2, <2>3 DEF FinishedAs, SessionInv, Lasting
<1> QED
  BY <1>1, <1>2, <1>3

(* A session marked as finished once it is closed.                         *)
LEMMA MarkFinished ==
  ASSUME NEW t, NEW i, NEW e \in Sessions, SessionInv(t, i, e), e.closed, NEW w, w = [e EXCEPT !.finished = TRUE]
  PROVE  /\ w \in Sessions /\ SessionInv(t, i, w) /\ w.closed /\ w.finished /\ w.finishErr = e.finishErr
         /\ w.run = e.run /\ w.key = e.key
<1>1. w \in Sessions
  BY DEF Sessions
<1>2. /\ w.key = e.key /\ w.run = e.run /\ w.jsonl = e.jsonl /\ w.pcap = e.pcap /\ w.broken = e.broken
      /\ w.closed = e.closed /\ w.finishErr = e.finishErr /\ w.published = e.published /\ w.finished = TRUE
  BY DEF Sessions
<1> QED
  BY <1>1, <1>2 DEF SessionInv

(* A finish that fails stops the journal and leaves the source as it is.   *)
LEMMA FinishFails ==
  ASSUME NEW t, ServiceInv(t), NEW i \in 1 .. Len(t.source), ~t.source[i].finished,
         NEW e, FinishedAs(e, t.source[i]), SessionInv(t, i, e), NEW u, DOMAIN u = ServiceFields,
         u.source = [t.source EXCEPT ![i] = e], u.sources = t.sources, u.runs = t.runs,
         u.sequence = t.sequence, u.log = t.log, u.events = t.events, u.evicted = t.evicted, u.closing = t.closing,
         u.journalErr = TRUE
  PROVE  ServiceInv(u) /\ Follows(t, u)
<1>1. SessionInv(u, i, e)
  BY SessionStays
<1>2. e \in Sessions /\ ~e.finished /\ (Lasting(t.source[i]) => Lasting(e) /\ e.run = t.source[i].run)
  BY DEF FinishedAs
<1>3. u.sources \in [Addresses -> 0 .. Len(t.source)]
  BY DEF ServiceInv, ServiceType
<1> QED
  BY <1>1, <1>2, <1>3, SessionChanged

(* finishSourceLocked.                                                     *)
LEMMA Finish ==
  ASSUME NEW t, ServiceInv(t), NEW i \in 1 .. Len(t.source), NEW u \in finishSourceLocked(t, i)
  PROVE  ServiceInv(u) /\ Follows(t, u) /\ u.sequence = t.sequence
<1> DEFINE old == t.source[i]
<1>0. DOMAIN t = ServiceFields /\ old \in Sessions /\ SessionInv(t, i, old)
  BY DEF ServiceInv, ServiceType, SessionsInv
<1>1. CASE u = t
  BY <1>1, FollowsSelf
<1>2. CASE /\ ~old.finished
           /\ \E e \in evidenceFinish(old, FALSE, TRUE) : e.finishErr /\ u = [t EXCEPT !.source[i] = e, !.journalErr = TRUE]
  <2>1. PICK e \in evidenceFinish(old, FALSE, TRUE) : u = [t EXCEPT !.source[i] = e, !.journalErr = TRUE]
    BY <1>2
  <2>2. FinishedAs(e, old) /\ SessionInv(t, i, e)
    BY <1>0, FinishSession
  <2>3. /\ DOMAIN u = ServiceFields /\ u.source = [t.source EXCEPT ![i] = e] /\ u.sources = t.sources /\ u.runs = t.runs
        /\ u.sequence = t.sequence /\ u.log = t.log /\ u.events = t.events /\ u.evicted = t.evicted
        /\ u.closing = t.closing /\ u.journalErr = TRUE
    BY <1>0, <2>1 DEF ServiceFields
  <2>4. ~old.finished
    BY <1>2
  <2>5. ServiceInv(u) /\ Follows(t, u)
    BY <2>2, <2>3, <2>4, FinishFails
  <2> QED
    BY <2>3, <2>5
<1>3. CASE /\ ~old.finished
           /\ \E e \in evidenceFinish(old, FALSE, TRUE) :
                ~e.finishErr /\ u = [t EXCEPT !.source[i] = [e EXCEPT !.finished = TRUE], !.sources[e.key] = 0]
  <2>1. PICK e \in evidenceFinish(old, FALSE, TRUE) :
          ~e.finishErr /\ u = [t EXCEPT !.source[i] = [e EXCEPT !.finished = TRUE], !.sources[e.key] = 0]
    BY <1>3
  <2>2. FinishedAs(e, old) /\ SessionInv(t, i, e)
    BY <1>0, FinishSession
  <2>3. e \in Sessions /\ e.closed /\ e.run = old.run /\ e.key \in Addresses
    BY <2>2 DEF FinishedAs, Sessions
  <2> DEFINE w == [e EXCEPT !.finished = TRUE]
  <2>4. /\ DOMAIN u = ServiceFields /\ u.source = [t.source EXCEPT ![i] = w] /\ u.sources = [t.sources EXCEPT ![e.key] = 0]
        /\ u.runs = t.runs /\ u.sequence = t.sequence /\ u.log = t.log /\ u.events = t.events /\ u.evicted = t.evicted
        /\ u.closing = t.closing /\ u.journalErr = t.journalErr
    BY <1>0, <2>1 DEF ServiceFields
  <2>5. /\ w \in Sessions /\ SessionInv(t, i, w) /\ w.closed /\ w.finished /\ w.finishErr = e.finishErr
        /\ w.run = e.run /\ w.key = e.key
    BY <2>2, <2>3, MarkFinished
  <2> HIDE DEF w
  <2>6. SessionInv(u, i, w)
    BY <2>4, <2>5, SessionStays
  <2>7. Lasting(w) /\ ~w.finishErr /\ w.run = old.run
    BY <2>1, <2>3, <2>5 DEF Lasting
  <2>8. u.sources \in [Addresses -> 0 .. Len(t.source)] /\ u.journalErr \in BOOLEAN
    BY <2>3, <2>4 DEF ServiceInv, ServiceType
  <2> QED
    BY <2>4, <2>5, <2>6, <2>7, <2>8, SessionChanged
<1>4. CASE /\ ~old.finished
           /\ \E e \in evidenceFinish(old, TRUE, TRUE) \cup evidenceFinish(old, FALSE, FALSE) :
                u = [t EXCEPT !.source[i] = e, !.journalErr = TRUE, !.faults = @ + 1]
  <2>1. PICK e \in evidenceFinish(old, TRUE, TRUE) \cup evidenceFinish(old, FALSE, FALSE) :
          u = [t EXCEPT !.source[i] = e, !.journalErr = TRUE, !.faults = @ + 1]
    BY <1>4
  <2>2. FinishedAs(e, old) /\ SessionInv(t, i, e)
    BY <1>0, FinishSession
  <2>3. /\ DOMAIN u = ServiceFields /\ u.source = [t.source EXCEPT ![i] = e] /\ u.sources = t.sources /\ u.runs = t.runs
        /\ u.sequence = t.sequence /\ u.log = t.log /\ u.events = t.events /\ u.evicted = t.evicted
        /\ u.closing = t.closing /\ u.journalErr = TRUE
    BY <1>0, <2>1 DEF ServiceFields
  <2>4. ~old.finished
    BY <1>4
  <2>5. ServiceInv(u) /\ Follows(t, u)
    BY <2>2, <2>3, <2>4, FinishFails
  <2> QED
    BY <2>3, <2>5
<1> QED
  BY <1>1, <1>2, <1>3, <1>4 DEF finishSourceLocked

(* The critical section of handleDatagram.                                 *)
LEMMA Answering ==
  ASSUME NEW t, ServiceInv(t), ~t.journalErr, NEW a \in Addresses, NEW d, NEW w \in Answered(t, a, d)
  PROVE  /\ ServiceInv(w) /\ Follows(t, w)
         /\ w.sequence = t.sequence + 2 => w.log[w.sequence] = w.log[w.sequence - 1]
<1>0. t.sequence \in Nat
  BY Counts
<1>1. PICK u \in sourceForDatagramLocked(t, a) :
        w \in IF u.journalErr THEN {u}
              ELSE UNION {IF q.journalErr \/ d = "garbage" THEN {q}
                          ELSE IF d = "unanswerable" THEN {[q EXCEPT !.asyncErr = TRUE]}
                          ELSE journalEventLocked(q, q.sources[a]) : q \in journalEventLocked(u, u.sources[a])}
  BY DEF Answered
<1>2. ServiceInv(u) /\ Follows(t, u) /\ u.sequence = t.sequence /\ (~u.journalErr => u.sources[a] # 0)
  <2>1. CASE t.sources[a] # 0
    BY <1>1, <2>1, FollowsSelf DEF sourceForDatagramLocked
  <2>2. CASE ~(t.sources[a] # 0)
    BY <1>1, <2>2, NewSource DEF sourceForDatagramLocked
  <2> QED
    BY <2>1, <2>2
<1>3. CASE u.journalErr
  BY <1>0, <1>1, <1>2, <1>3
<1>4. CASE ~u.journalErr
  <2>1. PICK q \in journalEventLocked(u, u.sources[a]) :
          w \in IF q.journalErr \/ d = "garbage" THEN {q}
                ELSE IF d = "unanswerable" THEN {[q EXCEPT !.asyncErr = TRUE]}
                ELSE journalEventLocked(q, q.sources[a])
    BY <1>1, <1>4
  <2>2. u.sources[a] \in 1 .. Len(u.source)
    BY <1>2, <1>4 DEF ServiceInv, ServiceType
  <2>3. /\ ServiceInv(q) /\ Follows(u, q) /\ q.sources = u.sources
        /\ JournalGoes(u, u.sources[a], q) \/ JournalStops(u, q)
    BY <1>2, <1>4, <2>2, Journal
  <2>4. Follows(t, q) /\ q.sequence \in {t.sequence, t.sequence + 1} /\ q.sequence \in Nat
    BY <1>0, <1>2, <2>3, FollowsOn DEF JournalGoes, JournalStops
  <2>5. CASE w = q
    BY <1>0, <2>3, <2>4, <2>5
  <2>6. CASE w = [q EXCEPT !.asyncErr = TRUE]
    <3>0. DOMAIN q = ServiceFields /\ q.journalErr \in BOOLEAN
      BY <2>3 DEF ServiceInv, ServiceType
    <3>1. /\ DOMAIN w = ServiceFields /\ w.source = q.source /\ w.sources = q.sources /\ w.runs = q.runs
          /\ w.sequence = q.sequence /\ w.log = q.log /\ w.events = q.events /\ w.evicted = q.evicted
          /\ w.closing = q.closing /\ w.journalErr = q.journalErr
      BY <3>0, <2>6 DEF ServiceFields
    <3>2. ServiceInv(w) /\ Follows(q, w)
      BY <2>3, <3>0, <3>1, FailedStep
    <3> QED
      BY <1>0, <2>3, <2>4, <3>1, <3>2, FollowsOn
  <2>7. CASE ~q.journalErr /\ w \in journalEventLocked(q, q.sources[a])
    <3>1. q.sources[a] \in 1 .. Len(q.source)
      BY <1>2, <1>4, <2>3 DEF ServiceInv, ServiceType
    <3>2. /\ ServiceInv(w) /\ Follows(q, w) /\ (JournalGoes(q, q.sources[a], w) \/ JournalStops(q, w))
      BY <2>3, <2>7, <3>1, Journal
    <3>3. JournalGoes(u, u.sources[a], q) /\ q.sequence = t.sequence + 1 /\ q.log[q.sequence] = u.sources[a]
      BY <1>2, <2>3, <2>7 DEF JournalGoes, JournalStops
    <3>4. w.sequence = t.sequence + 2 => w.log[w.sequence] = u.sources[a] /\ w.sequence - 1 = q.sequence
      BY <1>0, <2>3, <3>2, <3>3 DEF JournalGoes, JournalStops
    <3>5. w.log[q.sequence] = q.log[q.sequence]
      BY <1>0, <3>2, <3>3 DEF Follows
    <3> QED
      BY <1>2, <2>3, <2>4, <3>2, <3>3, <3>4, <3>5, FollowsOn
  <2> QED
    BY <2>1, <2>5, <2>6, <2>7
<1> QED
  BY <1>3, <1>4

(* The critical section of handleRegistrations.                            *)
LEMMA Registering ==
  ASSUME NEW t, ServiceInv(t), NEW r \in LiveRuns, NEW a \in Addresses, NEW w \in Registered(t, r, a)
  PROVE  ServiceInv(w) /\ Follows(t, w) /\ (t.closing => w = t)
<1> DEFINE i == t.sources[a]
           freed == IF i = 0 THEN {t} ELSE finishSourceLocked(t, i)
<1>1. CASE w = t
  BY <1>1, FollowsSelf
<1>2. CASE ~t.closing /\ w \in UNION {IF u.sources[a] # 0 THEN {u} ELSE newSourceLocked(u, a, r) : u \in freed}
  <2>1. PICK u \in freed : w \in IF u.sources[a] # 0 THEN {u} ELSE newSourceLocked(u, a, r)
    BY <1>2
  <2>2. ServiceInv(u) /\ Follows(t, u)
    <3>1. CASE i = 0
      BY <2>1, <3>1, FollowsSelf
    <3>2. CASE i # 0
      <4>1. i \in 1 .. Len(t.source)
        BY <3>2 DEF ServiceInv, ServiceType
      <4> QED
        BY <2>1, <3>2, <4>1, Finish
    <3> QED
      BY <3>1, <3>2
  <2>3. CASE w = u
    BY <1>2, <2>2, <2>3
  <2>4. CASE w \in newSourceLocked(u, a, r)
    <3>1. ServiceInv(w) /\ Follows(u, w)
      BY <2>2, <2>4, NewSource
    <3> QED
      BY <1>2, <2>2, <3>1, FollowsOn
  <2> QED
    BY <2>1, <2>3, <2>4
<1> QED
  BY <1>1, <1>2 DEF Registered

-----------------------------------------------------------------------------
(* The inductive invariant of the live service.                            *)

WorkerInv ==
  /\ worker.pc \in {"off", "read", "got", "send", "exit"} /\ DOMAIN worker = {"pc", "addr", "data", "number"}
  /\ worker.pc = "got" => worker.addr \in Addresses
  /\ worker.pc = "send" => worker.number \in 2 .. live.sequence /\ live.log[worker.number] = live.log[worker.number - 1]
RequestInv == request \in [Handlers -> {NoRequest} \cup [op : Operations, run : LiveRuns, addr : Addresses]]

SentInv == \A n \in sent : n \in 2 .. live.sequence /\ live.log[n] = live.log[n - 1]
ServedInv ==
  \A i \in served : i \in 1 .. Len(live.source) /\ Lasting(live.source[i]) /\ live.source[i].run # NoRun
ClientInv ==
  /\ client.cursor \in 0 .. live.sequence
  /\ \A n \in 1 .. client.cursor : n \in client.saw \/ n <= live.evicted

(* Nobody can move any more and every source is closed without error.      *)
AtRest ==
  /\ net.udp = "closed" /\ net.http = "closed" /\ worker.pc = "exit" /\ \A h \in Handlers : request[h] = NoRequest
  /\ ~live.journalErr /\ \A i \in 1 .. Len(live.source) : Lasting(live.source[i])
CloserInv ==
  /\ DOMAIN closer = {"pc", "expired", "lifecycleErr", "err"} /\ DOMAIN net = {"udp", "http"}
  /\ closer.pc \in {"idle", "udp", "http", "drain", "wait", "finish", "done"} /\ closer.expired \in BOOLEAN
  /\ closer.pc \in {"http", "drain", "wait", "finish"} => net.udp = "closed"
  /\ closer.pc \in {"drain", "wait", "finish"} => net.http = "closed"
  /\ closer.pc \in {"wait", "finish"} /\ ~closer.lifecycleErr => \A h \in Handlers : request[h] = NoRequest
  /\ closer.pc = "finish" => worker.pc = "exit"
  /\ closer.pc # "done" => Faultless(live)
  /\ closer.pc = "done" /\ ~closer.err => AtRest

LiveInv == ServiceInv(live) /\ WorkerInv /\ RequestInv /\ SentInv /\ ServedInv /\ ClientInv /\ CloserInv

LEMMA LiveStart == LiveInit => LiveInv
<1> SUFFICES ASSUME LiveInit PROVE LiveInv
  OBVIOUS
<1>1. /\ live.source = <<>> /\ live.log = <<>> /\ live.events = <<>> /\ live.sequence = 0 /\ live.evicted = 0
      /\ DOMAIN live = ServiceFields /\ live.journalErr = FALSE /\ live.closing = FALSE
      /\ live.sources = [a \in Addresses |-> 0] /\ live.runs = [r \in LiveRuns |-> 0]
  BY DEF LiveInit, ServiceFields
<1>2. ServiceType(live)
  <2>1. live.source \in Seq(Sessions) /\ Len(live.source) = 0
    BY <1>1
  <2>2. live.log \in Seq(1 .. 0) /\ Len(live.log) = 0
    BY <1>1
  <2>3. live.sources \in [Addresses -> 0 .. 0] /\ live.runs \in [LiveRuns -> 0 .. 0]
    BY <1>1
  <2>4. live.sequence = 0 /\ DOMAIN live = ServiceFields /\ live.journalErr = FALSE /\ live.closing = FALSE
    BY <1>1
  <2>5. /\ live.sources \in [Addresses -> 0 .. Len(live.source)] /\ live.runs \in [LiveRuns -> 0 .. Len(live.source)]
        /\ live.log \in Seq(1 .. Len(live.source)) /\ Len(live.log) = live.sequence
    BY <2>1, <2>2, <2>3, <2>4, Zenon
  <2>6. live.journalErr \in BOOLEAN /\ live.closing \in BOOLEAN
    BY <2>4, Zenon
  <2>7. live.sequence \in Nat
    BY <2>4
  <2> QED
    BY <2>1, <2>4, <2>5, <2>6, <2>7, Zenon DEF ServiceType
<1>3. Window(live) /\ SessionsInv(live) /\ Faultless(live)
  BY <1>1 DEF Window, RunFrom, SessionsInv, Faultless
<1>4. WorkerInv /\ RequestInv
  BY DEF LiveInit, WorkerInv, RequestInv, Waiting
<1>5. SentInv /\ ServedInv /\ ClientInv
  BY <1>1 DEF LiveInit, SentInv, ServedInv, ClientInv
<1>6. CloserInv
  BY <1>3 DEF LiveInit, CloserInv
<1> QED
  BY <1>2, <1>3, <1>4, <1>5, <1>6 DEF LiveInv, ServiceInv

(* What the histories say stays true of a later state.                     *)
LEMMA HistoryStays ==
  ASSUME ServiceInv(live), ServiceInv(live'), Follows(live, live'), SentInv, ServedInv, ClientInv
  PROVE  /\ UNCHANGED sent => SentInv'
         /\ UNCHANGED served => ServedInv'
         /\ UNCHANGED client => ClientInv'
         /\ (WorkerInv /\ UNCHANGED worker => WorkerInv')
<1>1. /\ live.sequence \in Nat /\ live'.sequence \in Nat /\ live.evicted \in Nat /\ live'.evicted \in Nat
      /\ Len(live.source) \in Nat /\ Len(live'.source) \in Nat
  BY Counts
<1>2. /\ live.sequence <= live'.sequence /\ live.evicted <= live'.evicted /\ Len(live.source) <= Len(live'.source)
      /\ \A n \in 1 .. live.sequence : live'.log[n] = live.log[n]
      /\ \A i \in 1 .. Len(live.source) : Lasting(live.source[i]) =>
           Lasting(live'.source[i]) /\ live'.source[i].run = live.source[i].run
  BY DEF Follows
<1>3. \A n \in 2 .. live.sequence : /\ n \in 2 .. live'.sequence /\ n \in 1 .. live.sequence /\ n - 1 \in 1 .. live.sequence
  BY <1>1, <1>2
<1>4. ASSUME UNCHANGED sent PROVE SentInv'
  BY <1>2, <1>3, <1>4 DEF SentInv
<1>5. ASSUME UNCHANGED served PROVE ServedInv'
  BY <1>1, <1>2, <1>5 DEF ServedInv
<1>6. ASSUME UNCHANGED client PROVE ClientInv'
  BY <1>1, <1>2, <1>6 DEF ClientInv
<1>7. ASSUME WorkerInv, UNCHANGED worker PROVE WorkerInv'
  BY <1>2, <1>3, <1>7 DEF WorkerInv
<1> QED
  BY <1>4, <1>5, <1>6, <1>7

(* The place of Close is kept by a step of another goroutine.              *)
LEMMA CloserStays ==
  ASSUME CloserInv, UNCHANGED <<closer, net>>, Faultless(live) => Faultless(live'),
         (\A h \in Handlers : request[h] = NoRequest) /\ net.http = "closed" => \A h \in Handlers : request'[h] = NoRequest,
         worker.pc = "exit" => worker'.pc = "exit", AtRest => AtRest'
  PROVE  CloserInv'
<1>1. closer' = closer /\ net' = net
  OBVIOUS
<1>2. closer.pc # "done" => Faultless(live')
  BY DEF CloserInv
<1>3. closer.pc = "done" /\ ~closer.err => AtRest'
  BY DEF CloserInv
<1> QED
  BY <1>1, <1>2, <1>3 DEF CloserInv

(* A step that leaves the state under the mutex as it is, but for the      *)
(* asynchronous error and the faults.                                      *)
QuietChange ==
  /\ DOMAIN live' = ServiceFields /\ live'.source = live.source /\ live'.sources = live.sources /\ live'.runs = live.runs
  /\ live'.sequence = live.sequence /\ live'.log = live.log /\ live'.events = live.events /\ live'.evicted = live.evicted
  /\ live'.journalErr = live.journalErr /\ live'.closing \in BOOLEAN

LEMMA QuietState ==
  ASSUME ServiceInv(live), QuietChange
  PROVE  /\ ServiceInv(live') /\ live'.source = live.source /\ live'.journalErr = live.journalErr
         /\ live'.sequence = live.sequence /\ live'.log = live.log /\ live'.evicted = live.evicted
<1>1. ServiceType(live') /\ Window(live')
  BY DEF QuietChange, ServiceInv, ServiceType, Window
<1>2. SessionsInv(live')
  BY SessionStays DEF QuietChange, ServiceInv, SessionsInv
<1> QED
  BY <1>1, <1>2 DEF QuietChange, ServiceInv

LEMMA QuietHistory ==
  ASSUME SentInv, ServedInv, ClientInv, live'.source = live.source,
         live'.sequence = live.sequence, live'.log = live.log, live'.evicted = live.evicted
  PROVE  /\ UNCHANGED sent => SentInv'
         /\ UNCHANGED served => ServedInv'
         /\ UNCHANGED client => ClientInv'
         /\ (WorkerInv /\ UNCHANGED worker => WorkerInv')
         /\ Faultless(live) => Faultless(live')
  BY DEF SentInv, ServedInv, ClientInv, WorkerInv, Faultless

(* Start.                                                                  *)
LEMMA StartStep == LiveInv /\ Start => LiveInv'
<1> SUFFICES ASSUME LiveInv, Start PROVE LiveInv'
  OBVIOUS
<1>1. UNCHANGED <<live, request, closer, sent, served, client>> /\ net.udp = "none" /\ worker' = Waiting
      /\ net' = [udp |-> "open", http |-> "open"]
  BY DEF Start
<1>2. WorkerInv'
  BY <1>1 DEF WorkerInv, Waiting
<1>3. ServiceInv(live)' /\ RequestInv' /\ SentInv' /\ ServedInv' /\ ClientInv'
  BY <1>1 DEF LiveInv, RequestInv, SentInv, ServedInv, ClientInv
<1>4. closer.pc \notin {"http", "drain", "wait", "finish"} /\ ~(closer.pc = "done" /\ ~closer.err)
  BY <1>1 DEF LiveInv, CloserInv, AtRest
<1>5. CloserInv'
  BY <1>1, <1>4 DEF LiveInv, CloserInv
<1> QED
  BY <1>2, <1>3, <1>5 DEF LiveInv

(* The steps of the UDP goroutine.                                         *)
LEMMA ReceiveStep == ASSUME NEW a \in Addresses, NEW d, LiveInv, ReceiveDatagram(a, d) PROVE LiveInv'
<1>1. UNCHANGED <<live, net, request, closer, sent, served, client>> /\ worker.pc = "read"
      /\ worker' = [worker EXCEPT !.pc = "got", !.addr = a, !.data = d]
  BY DEF ReceiveDatagram
<1>2. WorkerInv'
  BY <1>1 DEF LiveInv, WorkerInv
<1>3. ServiceInv(live)' /\ RequestInv' /\ SentInv' /\ ServedInv' /\ ClientInv'
  BY <1>1 DEF LiveInv, RequestInv, SentInv, ServedInv, ClientInv
<1>4. CloserInv'
  BY <1>1, CloserStays DEF LiveInv, AtRest
<1> QED
  BY <1>2, <1>3, <1>4 DEF LiveInv

LEMMA DatagramStep == LiveInv /\ handleDatagram => LiveInv'
<1> SUFFICES ASSUME LiveInv, handleDatagram PROVE LiveInv'
  OBVIOUS
<1>1. PICK t \in IF Refuses(live) THEN {live} ELSE Answered(live, worker.addr, worker.data) :
        /\ live' = t
        /\ worker' = IF t.sequence = live.sequence + 2
                     THEN [worker EXCEPT !.pc = "send", !.number = t.sequence] ELSE Waiting
  BY DEF handleDatagram
<1>2. UNCHANGED <<net, request, closer, sent, served, client>> /\ worker.pc = "got" /\ worker.addr \in Addresses
      /\ DOMAIN worker = {"pc", "addr", "data", "number"} /\ ServiceInv(live)
  BY DEF handleDatagram, LiveInv, WorkerInv
<1>3. live.sequence \in Nat /\ live.sequence # live.sequence + 2
  BY <1>2, Counts
<1>4. /\ ServiceInv(live') /\ Follows(live, live')
      /\ live'.sequence = live.sequence + 2 => live'.log[live'.sequence] = live'.log[live'.sequence - 1]
  <2>1. CASE Refuses(live)
    BY <1>1, <1>2, <1>3, <2>1, FollowsSelf
  <2>2. CASE ~Refuses(live)
    BY <1>1, <1>2, <2>2, Answering DEF Refuses
  <2> QED
    BY <2>1, <2>2
<1>5. WorkerInv'
  BY <1>1, <1>2, <1>3, <1>4 DEF WorkerInv, Waiting
<1>6. SentInv' /\ ServedInv' /\ ClientInv' /\ RequestInv'
  BY <1>2, <1>4, HistoryStays DEF LiveInv, RequestInv
<1>7. CloserInv'
  BY <1>2, <1>4, CloserStays DEF LiveInv, AtRest, Follows
<1> QED
  BY <1>4, <1>5, <1>6, <1>7 DEF LiveInv

LEMMA WriteStep == LiveInv /\ (WriteToUDP \/ serveUDPReturns) => LiveInv'
<1> SUFFICES ASSUME LiveInv, WriteToUDP \/ serveUDPReturns PROVE LiveInv'
  OBVIOUS
<1>1. UNCHANGED <<net, request, closer, served, client>> /\ worker.pc \in {"send", "read"} /\ ServiceInv(live)
  BY DEF WriteToUDP, serveUDPReturns, LiveInv
<1>2. QuietChange
  <2>1. DOMAIN live = ServiceFields /\ live.closing \in BOOLEAN
    BY <1>1 DEF ServiceInv, ServiceType
  <2> QED
    BY <2>1 DEF WriteToUDP, serveUDPReturns, QuietChange, ServiceFields
<1>3. /\ ServiceInv(live') /\ live'.source = live.source /\ live'.journalErr = live.journalErr
      /\ live'.sequence = live.sequence /\ live'.log = live.log /\ live'.evicted = live.evicted
  BY <1>1, <1>2, QuietState
<1>4. ServedInv' /\ ClientInv' /\ (Faultless(live) => Faultless(live')) /\ RequestInv'
  BY <1>1, <1>3, QuietHistory DEF LiveInv, RequestInv
<1>5. UNCHANGED sent \/ (worker.pc = "send" /\ sent' = sent \cup {worker.number})
  BY DEF WriteToUDP, serveUDPReturns
<1>6. SentInv'
  BY <1>3, <1>5 DEF LiveInv, SentInv, WorkerInv
<1>7. WorkerInv'
  BY DEF WriteToUDP, serveUDPReturns, LiveInv, WorkerInv, Waiting
<1>8. CloserInv'
  BY <1>1, <1>4, CloserStays DEF LiveInv, AtRest
<1> QED
  BY <1>3, <1>4, <1>6, <1>7, <1>8 DEF LiveInv

(* The HTTP handlers.                                                      *)
LEMMA RoutesStep == ASSUME NEW h \in Handlers, LiveInv, routes(h) PROVE LiveInv'
<1>1. UNCHANGED <<live, net, worker, closer, sent, served, client>> /\ net.http = "open"
  BY DEF routes
<1>2. RequestInv'
  BY DEF routes, LiveInv, RequestInv
<1>3. ServiceInv(live)' /\ WorkerInv' /\ SentInv' /\ ServedInv' /\ ClientInv'
  BY <1>1 DEF LiveInv, WorkerInv, SentInv, ServedInv, ClientInv
<1>4. CloserInv'
  BY <1>1, CloserStays DEF LiveInv, AtRest
<1> QED
  BY <1>2, <1>3, <1>4 DEF LiveInv

(* A handler that replies had a request, and the others keep theirs.       *)
LEMMA ReplyEffect ==
  ASSUME RequestInv, NEW h \in Handlers, NEW o \in Operations, Reply(h, o)
  PROVE  /\ request[h] # NoRequest /\ request[h].run \in LiveRuns /\ request[h].addr \in Addresses /\ RequestInv'
         /\ \A k \in Handlers : request[k] = NoRequest => request'[k] = NoRequest
  BY DEF RequestInv, Reply, Operations, NoRequest

(* What a handler leaves of the place of Close.                            *)
LEMMA CloserReply ==
  ASSUME LiveInv, NEW h \in Handlers, NEW o \in Operations, Reply(h, o), UNCHANGED <<net, worker, closer>>,
         Faultless(live) => Faultless(live')
  PROVE  CloserInv'
<1>1. request[h] # NoRequest /\ \A k \in Handlers : request[k] = NoRequest => request'[k] = NoRequest
  BY ReplyEffect DEF LiveInv
<1> QED
  BY <1>1, CloserStays DEF LiveInv, AtRest

LEMMA ChangeStep ==
  ASSUME NEW h \in Handlers, LiveInv, handleRegistrations(h) \/ handleFinish(h)
  PROVE  LiveInv'
<1>1. UNCHANGED <<net, worker, closer, sent, served, client>> /\ (Reply(h, "register") \/ Reply(h, "finish"))
  BY DEF handleRegistrations, handleFinish
<1>2. PICK o \in Operations : Reply(h, o)
  BY <1>1 DEF Operations
<1>3. request[h].run \in LiveRuns /\ request[h].addr \in Addresses /\ RequestInv'
  BY <1>2, ReplyEffect DEF LiveInv
<1>4. ServiceInv(live') /\ Follows(live, live')
  <2>1. CASE handleRegistrations(h)
    BY <1>3, <2>1, Registering DEF handleRegistrations, LiveInv
  <2>2. CASE handleFinish(h)
    <3>1. PICK i : i = live.runs[request[h].run] /\ live' \in IF i = 0 THEN {live} ELSE finishSourceLocked(live, i)
      BY <2>2 DEF handleFinish
    <3>2. CASE i = 0
      BY <3>1, <3>2, FollowsSelf DEF LiveInv
    <3>3. CASE i # 0
      <4>1. i \in 1 .. Len(live.source)
        BY <1>3, <3>1, <3>3 DEF LiveInv, ServiceInv, ServiceType
      <4> QED
        BY <3>1, <3>3, <4>1, Finish DEF LiveInv
    <3> QED
      BY <3>2, <3>3
  <2> QED
    BY <2>1, <2>2
<1>5. SentInv' /\ ServedInv' /\ ClientInv' /\ WorkerInv'
  BY <1>1, <1>4, HistoryStays DEF LiveInv
<1>6. CloserInv'
  BY <1>1, <1>2, <1>4, CloserReply DEF Follows
<1> QED
  BY <1>3, <1>4, <1>5, <1>6 DEF LiveInv

LEMMA EvidenceStep == ASSUME NEW h \in Handlers, LiveInv, handleEvidence(h) PROVE LiveInv'
<1>1. UNCHANGED <<live, net, worker, closer, sent, client>> /\ Reply(h, "evidence") /\ "evidence" \in Operations
  BY DEF handleEvidence, Operations
<1>2. request[h].run \in LiveRuns /\ RequestInv'
  BY <1>1, ReplyEffect DEF LiveInv
<1>3. ServedInv'
  <2>1. PICK i : i = live.runs[request[h].run]
                 /\ served' = IF i # 0 /\ live.source[i].finished /\ manifest(live.source[i]) THEN served \cup {i} ELSE served
    BY DEF handleEvidence
  <2>2. i \in 0 .. Len(live.source) /\ Len(live.source) \in Nat
    BY <1>2, <2>1 DEF LiveInv, ServiceInv, ServiceType
  <2>3. i # 0 => i \in 1 .. Len(live.source)
    BY <2>2
  <2> QED
    BY <1>1, <2>1, <2>3 DEF LiveInv, ServedInv, manifest, Lasting
<1>4. ServiceInv(live)' /\ WorkerInv' /\ SentInv' /\ ClientInv'
  BY <1>1 DEF LiveInv, WorkerInv, SentInv, ClientInv
<1>5. CloserInv'
  BY <1>1, CloserReply
<1> QED
  BY <1>2, <1>3, <1>4, <1>5 DEF LiveInv

LEMMA EventsStep == ASSUME NEW h \in Handlers, LiveInv, handleEvents(h) PROVE LiveInv'
<1>1. UNCHANGED <<live, net, worker, closer, sent, served>> /\ Reply(h, "events") /\ "events" \in Operations
  BY DEF handleEvents, Operations
<1>2. RequestInv'
  BY <1>1, ReplyEffect DEF LiveInv
<1>3. ClientInv'
  <2>1. PICK after :
          /\ after = {n \in 1 .. live.sequence : n > client.cursor /\ \E k \in 1 .. Len(live.events) : live.events[k] = n}
          /\ client' = [cursor |-> IF after = {} THEN client.cursor ELSE live.events[Len(live.events)],
                        saw |-> client.saw \cup after]
    BY DEF handleEvents
  <2>2. PICK n \in Nat, v \in Nat, c \in Nat : n = live.sequence /\ v = live.evicted /\ c = client.cursor /\ v <= n /\ c <= n
    BY DEF LiveInv, ServiceInv, ServiceType, Window, ClientInv
  <2>3. Len(live.events) \in Nat /\ v + Len(live.events) = n /\ \A j \in 1 .. Len(live.events) : live.events[j] = v + j
    BY <2>2 DEF LiveInv, ServiceInv, Window, RunFrom
  <2>4. \A x \in c + 1 .. n : x <= v \/ x \in after
    <3> SUFFICES ASSUME NEW x \in c + 1 .. n, ~(x <= v) PROVE x \in after
      OBVIOUS
    <3>0. PICK m \in Nat : m = Len(live.events) /\ v + m = n
      BY <2>3
    <3>1. x - v \in 1 .. m /\ v + (x - v) = x /\ x \in 1 .. n /\ x > c
      BY <3>0
    <3>2. live.events[x - v] = x
      BY <2>3, <3>0, <3>1
    <3> QED
      BY <2>1, <2>2, <3>0, <3>1, <3>2
  <2>5. \A x \in 1 .. c : x \in client.saw \/ x <= v
    BY <2>2 DEF LiveInv, ClientInv
  <2>6. CASE after = {}
    BY <1>1, <2>1, <2>2, <2>5, <2>6 DEF ClientInv
  <2>7. CASE after # {}
    <3>1. Len(live.events) \in 1 .. Len(live.events)
      BY <2>1, <2>3, <2>7
    <3>2. client'.cursor = n /\ client'.saw = client.saw \cup after
      BY <2>1, <2>2, <2>3, <2>7, <3>1
    <3>3. \A x \in 1 .. n : x \in 1 .. c \/ x \in c + 1 .. n
      BY <2>2
    <3>4. \A x \in 1 .. n : x \in client'.saw \/ x <= v
      BY <2>4, <2>5, <3>2, <3>3
    <3> QED
      BY <1>1, <2>2, <3>2, <3>4 DEF ClientInv
  <2> QED
    BY <2>6, <2>7
<1>4. ServiceInv(live)' /\ WorkerInv' /\ SentInv' /\ ServedInv'
  BY <1>1 DEF LiveInv, WorkerInv, SentInv, ServedInv
<1>5. CloserInv'
  BY <1>1, CloserReply
<1> QED
  BY <1>2, <1>3, <1>4, <1>5 DEF LiveInv

(* The steps of Close before the evidence.                                 *)
LEMMA CloseBeginStep == LiveInv /\ CloseBegin => LiveInv'
<1> SUFFICES ASSUME LiveInv, CloseBegin PROVE LiveInv'
  OBVIOUS
<1>1. UNCHANGED <<net, worker, request, sent, served, client>> /\ closer.pc = "idle" /\ ServiceInv(live)
  BY DEF CloseBegin, LiveInv
<1>2. QuietChange
  <2>1. DOMAIN live = ServiceFields /\ live.closing \in BOOLEAN
    BY <1>1 DEF ServiceInv, ServiceType
  <2> QED
    BY <2>1 DEF CloseBegin, QuietChange, ServiceFields
<1>3. /\ ServiceInv(live') /\ live'.source = live.source /\ live'.journalErr = live.journalErr
      /\ live'.sequence = live.sequence /\ live'.log = live.log /\ live'.evicted = live.evicted
  BY <1>1, <1>2, QuietState
<1>4. SentInv' /\ ServedInv' /\ ClientInv' /\ WorkerInv' /\ (Faultless(live) => Faultless(live')) /\ RequestInv'
  BY <1>1, <1>3, QuietHistory DEF LiveInv, RequestInv
<1>5. \/ closer' = [closer EXCEPT !.pc = "done", !.err = TRUE]
      \/ closer' = [closer EXCEPT !.pc = "udp"]
  BY DEF CloseBegin
<1>6. CloserInv'
  BY <1>1, <1>4, <1>5 DEF LiveInv, CloserInv
<1> QED
  BY <1>3, <1>4, <1>6 DEF LiveInv

LEMMA CloseListenerStep == LiveInv /\ (CloseUDP \/ CloseHTTP \/ Shutdown \/ CloseWait) => LiveInv'
<1> SUFFICES ASSUME LiveInv, CloseUDP \/ CloseHTTP \/ Shutdown \/ CloseWait PROVE LiveInv'
  OBVIOUS
<1>1. UNCHANGED <<live, worker, request, sent, served, client>>
  BY DEF CloseUDP, CloseHTTP, CloseListener, Shutdown, CloseWait
<1>2. ServiceInv(live)' /\ WorkerInv' /\ RequestInv' /\ SentInv' /\ ServedInv' /\ ClientInv'
  BY <1>1 DEF LiveInv, WorkerInv, RequestInv, SentInv, ServedInv, ClientInv
<1>3. CloserInv /\ Faultless(live)'
  BY <1>1 DEF LiveInv, CloserInv, CloseUDP, CloseHTTP, CloseListener, Shutdown, CloseWait, Faultless
<1>4. ASSUME CloseUDP \/ CloseHTTP PROVE CloserInv'
  BY <1>1, <1>3, <1>4 DEF CloserInv, CloseUDP, CloseHTTP, CloseListener
<1>5. ASSUME Shutdown \/ CloseWait PROVE CloserInv'
  BY <1>1, <1>3, <1>5 DEF CloserInv, Shutdown, CloseWait
<1>6. CloserInv'
  BY <1>4, <1>5
<1> QED
  BY <1>2, <1>6 DEF LiveInv

(* Every source is finished, with its own error.                           *)
LEMMA CloseFinishStep == LiveInv /\ CloseFinish => LiveInv'
<1> SUFFICES ASSUME LiveInv, CloseFinish PROVE LiveInv'
  OBVIOUS
<1> DEFINE N == Len(live.source)
<1>1. UNCHANGED <<net, worker, request, sent, served, client>> /\ closer.pc = "finish" /\ ServiceInv(live) /\ CloserInv
  BY DEF CloseFinish, LiveInv
<1>2. PICK open, bad, e :
        /\ open = {i \in 1 .. N : ~live.source[i].finished}
        /\ \A i \in open : e[i] \in evidenceFinish(live.source[i], i \in bad, ~closer.expired)
        /\ live' = [live EXCEPT !.source = [i \in 1 .. N |-> IF i \in open THEN [e[i] EXCEPT !.finished = TRUE] ELSE live.source[i]],
                                !.faults = IF bad = {} THEN @ ELSE @ + 1]
        /\ closer' = [closer EXCEPT !.pc = "done",
                        !.err = \/ live.journalErr \/ live.asyncErr \/ closer.lifecycleErr
                                \/ \E i \in open : e[i].finishErr]
  BY DEF CloseFinish
<1> DEFINE F == [i \in 1 .. N |-> IF i \in open THEN [e[i] EXCEPT !.finished = TRUE] ELSE live.source[i]]
<1>3. /\ DOMAIN live = ServiceFields /\ N \in Nat /\ live.source \in Seq(Sessions)
      /\ \A i \in 1 .. N : live.source[i] \in Sessions /\ SessionInv(live, i, live.source[i])
  BY <1>1 DEF ServiceInv, ServiceType, SessionsInv
<1>4. /\ DOMAIN live' = ServiceFields /\ live'.source = F /\ live'.sources = live.sources /\ live'.runs = live.runs
      /\ live'.sequence = live.sequence /\ live'.log = live.log /\ live'.events = live.events /\ live'.evicted = live.evicted
      /\ live'.journalErr = live.journalErr /\ live'.closing = live.closing
  BY <1>2, <1>3 DEF ServiceFields
<1>5. ASSUME NEW i \in open
      PROVE  /\ F[i] \in Sessions /\ SessionInv(live, i, F[i]) /\ F[i].closed /\ F[i].finishErr = e[i].finishErr
             /\ F[i].run = live.source[i].run /\ (Lasting(live.source[i]) => Lasting(F[i]))
  <2>1. i \in 1 .. N /\ e[i] \in evidenceFinish(live.source[i], i \in bad, ~closer.expired)
    BY <1>2, <1>5
  <2>2. (i \in bad) \in BOOLEAN /\ (~closer.expired) \in BOOLEAN
    OBVIOUS
  <2>3. FinishedAs(e[i], live.source[i]) /\ SessionInv(live, i, e[i])
    BY <1>3, <2>1, <2>2, FinishSession
  <2>4. e[i] \in Sessions /\ e[i].closed /\ e[i].run = live.source[i].run /\ (Lasting(live.source[i]) => Lasting(e[i]))
    BY <2>3 DEF FinishedAs
  <2>5. F[i] = [e[i] EXCEPT !.finished = TRUE]
    BY <1>5, <2>1
  <2> HIDE DEF F
  <2>6. F[i] \in Sessions /\ SessionInv(live, i, F[i]) /\ F[i].closed /\ F[i].finishErr = e[i].finishErr /\ F[i].run = e[i].run
    BY <2>3, <2>4, <2>5, MarkFinished
  <2> QED
    BY <2>4, <2>6 DEF Lasting
<1>6. ASSUME NEW i \in 1 .. N, i \notin open
      PROVE  F[i] = live.source[i] /\ Lasting(live.source[i])
  <2>1. live.source[i].finished /\ Faultless(live)
    BY <1>1, <1>2, <1>6 DEF CloserInv
  <2> QED
    BY <1>3, <1>6, <2>1 DEF Faultless, Lasting, SessionInv
<1>7. F \in Seq(Sessions) /\ Len(F) = N
  <2>1. \A i \in 1 .. N : F[i] \in Sessions
    BY <1>3, <1>5, <1>6
  <2>2. F \in [1 .. N -> Sessions]
    BY <2>1
  <2> QED
    BY <1>3, <2>2
<1> HIDE DEF F
<1>8. ASSUME NEW i \in 1 .. N
      PROVE  SessionInv(live', i, F[i]) /\ (Lasting(live.source[i]) => Lasting(F[i]) /\ F[i].run = live.source[i].run)
  <2>1. SessionInv(live, i, F[i])
    BY <1>3, <1>5, <1>6
  <2> QED
    BY <1>4, <1>5, <1>6, <2>1, SessionStays
<1>9. ServiceInv(live')
  <2>1. ServiceType(live') /\ Window(live')
    BY <1>1, <1>4, <1>7 DEF ServiceInv, ServiceType, Window
  <2> QED
    BY <1>4, <1>7, <1>8, <2>1 DEF ServiceInv, SessionsInv
<1>10. SentInv' /\ ClientInv' /\ WorkerInv' /\ RequestInv'
  BY <1>1, <1>4 DEF LiveInv, SentInv, ClientInv, WorkerInv, RequestInv
<1>11. ServedInv'
  BY <1>1, <1>4, <1>7, <1>8 DEF LiveInv, ServedInv
<1>12. CloserInv'
  <2>1. DOMAIN closer' = DOMAIN closer /\ closer'.pc = "done" /\ closer'.expired = closer.expired
        /\ closer'.err = (\/ live.journalErr \/ live.asyncErr \/ closer.lifecycleErr \/ \E i \in open : e[i].finishErr)
    BY <1>1, <1>2 DEF CloserInv
  <2>2. ASSUME ~closer'.err PROVE AtRest'
    <3>1. ~live.journalErr /\ ~closer.lifecycleErr /\ \A i \in open : ~e[i].finishErr
      BY <2>1, <2>2
    <3>2. \A i \in 1 .. N : Lasting(F[i])
      BY <1>5, <1>6, <3>1 DEF Lasting
    <3> QED
      BY <1>1, <1>4, <1>7, <3>1, <3>2 DEF AtRest, CloserInv
  <2> QED
    BY <1>1, <2>1, <2>2 DEF CloserInv
<1> QED
  BY <1>9, <1>10, <1>11, <1>12 DEF LiveInv

LEMMA LiveInductive == LiveSpec => []LiveInv
<1>1. LiveInv /\ [LiveNext]_liveVars => LiveInv'
  <2> SUFFICES ASSUME LiveInv, [LiveNext]_liveVars PROVE LiveInv'
    OBVIOUS
  <2>1. CASE Start \/ CloseBegin
    BY <2>1, StartStep, CloseBeginStep
  <2>2. CASE CloserStep
    BY <2>2, CloseListenerStep, CloseFinishStep DEF CloserStep
  <2>3. CASE WorkerStep
    BY <2>3, DatagramStep, WriteStep DEF WorkerStep
  <2>4. CASE \E a \in Addresses, d \in Datagrams : ReceiveDatagram(a, d)
    BY <2>4, ReceiveStep
  <2>5. CASE \E h \in Handlers : routes(h) \/ Handle(h)
    BY <2>5, RoutesStep, ChangeStep, EvidenceStep, EventsStep DEF Handle
  <2>6. CASE UNCHANGED liveVars
    <3>1. UNCHANGED <<live, net, worker, request, closer, sent, served, client>>
      BY <2>6 DEF liveVars
    <3>2. ServiceInv(live)' /\ WorkerInv' /\ RequestInv' /\ SentInv' /\ ServedInv' /\ ClientInv'
      BY <3>1 DEF LiveInv, WorkerInv, RequestInv, SentInv, ServedInv, ClientInv
    <3>3. CloserInv'
      BY <3>1 DEF LiveInv, CloserInv, AtRest
    <3> QED
      BY <3>2, <3>3 DEF LiveInv
  <2> QED
    BY <2>1, <2>2, <2>3, <2>4, <2>5, <2>6 DEF LiveNext
<1> QED
  BY <1>1, LiveStart, PTL DEF LiveSpec

(* The evidence of the live service (journalEventLocked, finish, Close and *)
(* the HTTP handlers of internal/dnslive) is exact for any number of       *)
(* addresses, runs, handlers and faults: every event has one number and is *)
(* in its files once and in order, a response leaves after it is recorded, *)
(* a manifest that was served stays true and a Close without error left    *)
(* every source complete.                                                  *)
THEOREM EvidenceIsExact == LiveSpec => []EvidenceExact
<1>1. LiveInv => EvidenceExact
  <2> SUFFICES ASSUME LiveInv PROVE EvidenceExact
    OBVIOUS
  <2>1. /\ ServiceInv(live) /\ live.sequence \in Nat /\ live.evicted \in Nat /\ Len(live.source) \in Nat
        /\ \A i \in 1 .. Len(live.source) : SessionInv(live, i, live.source[i])
    BY Counts DEF LiveInv, ServiceInv, SessionsInv
  <2>2. ASSUME NEW i \in 1 .. Len(live.source), ~live.source[i].finishErr
        PROVE  Recorded(live, i, live.source[i].jsonl) /\ Recorded(live, i, live.source[i].pcap)
    BY <2>1, <2>2 DEF SessionInv
  <2>3. ASSUME NEW i \in 1 .. Len(live.source), ~live.source[i].finishErr, ~live.journalErr PROVE Complete(i)
    BY <2>2, <2>3 DEF Complete, Recorded
  <2>4. ASSUME NEW i \in 1 .. Len(live.source), NEW n \in Ids(live.source[i].jsonl) \cup Ids(live.source[i].pcap)
        PROVE  n \in EventsOf(live, i) \/ (n = live.sequence + 1 /\ live.journalErr)
    <3>1. PICK f \in {live.source[i].jsonl, live.source[i].pcap} : n \in Ids(f)
      OBVIOUS
    <3>2. CASE f = <<>>
      BY <3>1, <3>2 DEF Ids
    <3>3. CASE Recorded(live, i, f)
      BY <3>1, <3>3 DEF Recorded
    <3> QED
      BY <2>1, <3>2, <3>3 DEF SessionInv
  <2>5. live.events = [k \in 1 .. live.sequence - live.evicted |-> live.evicted + k]
    <3>1. live.events \in Seq(Nat) /\ live.evicted + Len(live.events) = live.sequence
          /\ \A j \in 1 .. Len(live.events) : live.events[j] = live.evicted + j
      BY <2>1 DEF ServiceInv, Window, RunFrom
    <3>2. PICK m \in Nat : m = Len(live.events) /\ m = live.sequence - live.evicted
      BY <2>1, <3>1
    <3>3. live.events = [k \in 1 .. m |-> live.evicted + k]
      <4>1. live.events \in [1 .. m -> Nat]
        BY <3>1, <3>2, LenProperties
      <4> QED
        BY <3>1, <3>2, <4>1
    <3> QED
      BY <3>2, <3>3
  <2>6. NumbersExact
    <3>1. \A i \in 1 .. Len(live.source) : live.source[i].finishErr => live.source[i].closed
      BY <2>1 DEF SessionInv
    <3> QED
      BY <2>3, <2>4, <2>5, <3>1 DEF NumbersExact, LiveInv, ClientInv
  <2>7. SentIsJournaled
    BY DEF SentIsJournaled, LiveInv, SentInv
  <2>8. ManifestTrue
    <3> SUFFICES ASSUME NEW i \in served
                 PROVE  /\ live.source[i].published /\ live.source[i].jsonl = live.source[i].pcap
                        /\ \/ Complete(i)
                           \/ live.journalErr /\ Rising(live.source[i].jsonl)
                              /\ Ids(live.source[i].jsonl) = EventsOf(live, i) \cup {live.sequence + 1}
      BY DEF ManifestTrue
    <3>1. i \in 1 .. Len(live.source) /\ Lasting(live.source[i]) /\ live.source[i].run # NoRun
      BY DEF LiveInv, ServedInv
    <3>2. live.source[i].published /\ live.source[i].jsonl = live.source[i].pcap
      BY <2>1, <3>1 DEF SessionInv, Lasting
    <3>3. Recorded(live, i, live.source[i].jsonl)
      BY <2>2, <3>1 DEF Lasting
    <3> QED
      BY <3>2, <3>3 DEF Recorded, Complete
  <2>9. CloseHonest
    <3> SUFFICES ASSUME closer.pc = "done", ~closer.err
                 PROVE  /\ worker.pc = "exit" /\ ~live.journalErr
                        /\ \A i \in 1 .. Len(live.source) : live.source[i].closed /\ Complete(i)
      BY DEF CloseHonest
    <3>1. AtRest
      BY DEF LiveInv, CloserInv
    <3> QED
      BY <2>3, <3>1 DEF AtRest, Lasting
  <2> QED
    BY <2>6, <2>7, <2>8, <2>9 DEF EvidenceExact
<1> QED
  BY <1>1, LiveInductive, PTL

=============================================================================
