--------------------------- MODULE PipelineProofs ---------------------------
(***************************************************************************)
(* PipelineSound holds of Pipeline for any number of callers, packets,     *)
(* tables and calls and for queues of any size.                            *)
(*                                                                         *)
(* The invariant has a part for each thing that could go wrong: who may    *)
(* still be at work once Close has passed each of its steps (LifeInv),     *)
(* where an incident is (FlowInv), what the worker knows of the case in    *)
(* its hands (CaseInv), where the record of a decision is (AuditInv) and   *)
(* which tables a call under way has met (MetInv).                         *)
(*                                                                         *)
(* TableSound and TableKept hold of Reputation for any sources, lists,     *)
(* shared roots and number of synchronisers: what Match answers is settled *)
(* once (BlockPrevails), and the mutex keeps the table a pass replaces     *)
(* from changing under it (SyncInv).                                       *)
(*                                                                         *)
(* HistoryTrue holds of TemporalTracker for any domains, table, window and *)
(* clocks: the slot of a domain holds the end of its current run, at       *)
(* places of the ring that are as far back from its head (TrackerInv).     *)
(*                                                                         *)
(* BookSound holds of Promotion for any number of promoters that take      *)
(* turns: the codebook file is always the beginning of a book that was     *)
(* composed, and only a whole one loads (BookInv).                         *)
(***************************************************************************)
EXTENDS Pipeline, Reputation, TemporalTracker, Promotion, FiniteSetTheorems, SequenceTheorems,
        WellFoundedInduction, NaturalsInduction, TLAPS

CaseActions == {"none", "BLOCK_IMMEDIATE", "ALLOW_VENDOR", "MONITOR_ONLY"}
Incident == [id : Nat, packet : Packet, track : Tracked, action : CaseActions]
Record == {"drop", "verdict"} \X Nat
CallRecords == [pc : {"decide", "drop"}, id : Nat, packet : Packet, met : SUBSET Tables]
Holding == {"arbitrate", "veto", "log", "callback"}
WorkerRecords ==
  [pc : {"none", "receive", "exited"}]
  \cup [pc : {"arbitrate"}, inc : Incident, open : BOOLEAN]
  \cup [pc : {"veto", "log", "callback"}, inc : Incident, verdict : validSLMVerdict, open : BOOLEAN]
Outcome == [id : Nat, verdict : validSLMVerdict, action : CaseActions, open : BOOLEAN]
Answered == [id : Nat, decision : {"error", "FastPass", "FastDrop", "EscalateSLM", "QueueFull"}]
AuditRecords ==
  [queue : Seq(Record), closed : BOOLEAN, error : BOOLEAN,
   written : SUBSET Record, lost : SUBSET Record, late : SUBSET Record]

TypeInv ==
  /\ rep \in Tables
  /\ call \in [Callers -> {Idle} \cup CallRecords]
  /\ calls \in Nat
  /\ slmQueue \in Seq(Incident)
  /\ worker \in WorkerRecords
  /\ cancelled \in BOOLEAN
  /\ closer \in {"idle", "lock", "join", "audit", "flush", "done", "failed"}
  /\ waiting \in BOOLEAN /\ closed \in BOOLEAN /\ queueClosed \in BOOLEAN
  /\ audit \in AuditRecords
  /\ sent \subseteq Nat /\ abandoned \subseteq Nat
  /\ done \subseteq Outcome /\ results \subseteq Answered
  /\ panic \in BOOLEAN

(* Once Close holds the write lock no call is under way; once the worker   *)
(* has been joined it is gone; the audit is closed after that.             *)
LifeInv ==
  /\ closed <=> closer \notin {"idle", "lock"}
  /\ queueClosed = closed
  /\ closed => \A c \in Callers : call[c].pc = "idle"
  /\ closer \in {"audit", "flush", "done", "failed"} => worker.pc \in {"none", "exited"}
  /\ audit.closed => closer \in {"flush", "done", "failed"}
  /\ ~panic /\ audit.late = {}

(* The incidents that wait.                                                *)
Ids(q) == {q[i].id : i \in DOMAIN q}
Distinct(q) == \A i, j \in 1 .. Len(q) : q[i].id = q[j].id => i = j
Hand(st) == IF st.pc \in Holding THEN {st.inc.id} ELSE {}
Delivered(ds) == {d.id : d \in ds}

(* An incident has one place, and the number of a call under way none yet. *)
FlowInv ==
  /\ Len(slmQueue) <= QueueCap /\ Len(audit.queue) <= AuditCap
  /\ Distinct(slmQueue)
  /\ sent = Ids(slmQueue) \cup Hand(worker) \cup Delivered(done) \cup abandoned
  /\ Ids(slmQueue) \cap Hand(worker) = {}
  /\ Ids(slmQueue) \cap Delivered(done) = {}
  /\ Ids(slmQueue) \cap abandoned = {}
  /\ Hand(worker) \cap Delivered(done) = {}
  /\ Hand(worker) \cap abandoned = {}
  /\ Delivered(done) \cap abandoned = {}
  /\ \A n \in sent : n <= calls
  /\ \A c \in Callers : call[c].pc # "idle" => call[c].id <= calls /\ call[c].id \notin sent
  /\ \A b, c \in Callers :
       call[b].pc # "idle" /\ call[c].pc # "idle" /\ call[b].id = call[c].id => b = c

(* The case in the worker's hands: one taken after the cancellation never  *)
(* reaches the veto, and its verdict is insufficient evidence.             *)
CaseInv ==
  /\ worker.pc \in Holding /\ ~worker.open => cancelled /\ worker.pc # "veto"
  /\ worker.pc \in {"log", "callback"} =>
       /\ ~worker.open => worker.verdict = Insufficient
       /\ \/ worker.inc.action = RecommendedActionForVerdict(worker.verdict)
          \/ closed /\ worker.open /\ worker.verdict = Insufficient
  /\ LateIsInsufficient /\ CaseComplete

(* A record given to the audit waits, is written or is lost with an error. *)
Kept(a, r) == r \in a.written \/ r \in a.lost \/ \E i \in 1 .. Len(a.queue) : a.queue[i] = r

AuditInv ==
  /\ audit.lost # {} => audit.error
  /\ closer = "done" => audit.queue = << >> /\ ~audit.error
  /\ worker.pc = "callback" => Kept(audit, <<"verdict", worker.inc.id>>)
  /\ \A d \in done : Kept(audit, <<"verdict", d.id>>)
  /\ \A r \in results : r.decision = "FastDrop" => Kept(audit, <<"drop", r.id>>)

(* A call has met the table in service, one that gave its first answer.    *)
Meeting(me) ==
  me.pc # "idle" =>
    /\ rep \in me.met
    /\ me.pc = "drop" => \E t \in me.met : me.packet \in t.blocks
    /\ me.pc = "decide" => \E t \in me.met : me.packet \notin t.blocks

MetInv == \A c \in Callers : Meeting(call[c])

PipeInv == TypeInv /\ LifeInv /\ FlowInv /\ CaseInv /\ AuditInv /\ MetInv

-----------------------------------------------------------------------------
(* The queues.                                                             *)

LEMMA AppendIds ==
  ASSUME NEW q \in Seq(Incident), NEW e \in Incident
  PROVE  /\ Append(q, e) \in Seq(Incident) /\ Len(Append(q, e)) = Len(q) + 1
         /\ Ids(Append(q, e)) = Ids(q) \cup {e.id}
         /\ Distinct(q) /\ e.id \notin Ids(q) => Distinct(Append(q, e))
<1> DEFINE a == Append(q, e)
<1>1. /\ a \in Seq(Incident) /\ Len(a) = Len(q) + 1 /\ Len(q) \in Nat
      /\ DOMAIN a = 1 .. Len(q) + 1 /\ DOMAIN q = 1 .. Len(q)
      /\ \A i \in 1 .. Len(q) : a[i] = q[i]
      /\ a[Len(q) + 1] = e
  OBVIOUS
<1> HIDE DEF a
<1>2. Ids(a) = Ids(q) \cup {e.id}
  <2>1. ASSUME NEW i \in 1 .. Len(q) + 1 PROVE a[i].id \in Ids(q) \cup {e.id}
    <3>1. CASE i = Len(q) + 1
      BY <1>1, <3>1
    <3>2. CASE i \in 1 .. Len(q)
      BY <1>1, <3>2 DEF Ids
    <3> QED BY <1>1, <3>1, <3>2
  <2>2. ASSUME NEW i \in 1 .. Len(q) PROVE q[i].id \in Ids(a)
    <3>1. i \in 1 .. Len(q) + 1 /\ a[i] = q[i]
      BY <1>1
    <3> QED BY <1>1, <3>1 DEF Ids
  <2>3. e.id \in Ids(a)
    <3>1. Len(q) + 1 \in 1 .. Len(q) + 1
      BY <1>1
    <3> QED BY <1>1, <3>1 DEF Ids
  <2> QED BY <1>1, <2>1, <2>2, <2>3 DEF Ids
<1>3. ASSUME Distinct(q), e.id \notin Ids(q) PROVE Distinct(a)
  <2> SUFFICES ASSUME NEW i \in 1 .. Len(q) + 1, NEW j \in 1 .. Len(q) + 1, a[i].id = a[j].id
               PROVE  i = j
    BY <1>1 DEF Distinct
  <2>1. \A k \in 1 .. Len(q) : a[k].id # e.id
    BY <1>1, <1>3 DEF Ids
  <2>2. CASE i \in 1 .. Len(q) /\ j \in 1 .. Len(q)
    BY <1>1, <1>3, <2>2 DEF Distinct
  <2>3. CASE i = Len(q) + 1 /\ j \in 1 .. Len(q)
    BY <1>1, <2>1, <2>3
  <2>4. CASE j = Len(q) + 1 /\ i \in 1 .. Len(q)
    BY <1>1, <2>1, <2>4
  <2>5. \A k \in 1 .. Len(q) + 1 : k \in 1 .. Len(q) \/ k = Len(q) + 1
    BY <1>1
  <2> QED BY <2>2, <2>3, <2>4, <2>5
<1> QED BY <1>1, <1>2, <1>3 DEF a

LEMMA TailIds ==
  ASSUME NEW q \in Seq(Incident), q # << >>
  PROVE  /\ Head(q) \in Incident /\ Tail(q) \in Seq(Incident) /\ Len(Tail(q)) = Len(q) - 1
         /\ Ids(q) = Ids(Tail(q)) \cup {Head(q).id}
         /\ Distinct(q) => Distinct(Tail(q)) /\ Head(q).id \notin Ids(Tail(q))
<1> DEFINE u == Tail(q)
<1>1. /\ u \in Seq(Incident) /\ Len(u) = Len(q) - 1 /\ Len(q) \in Nat /\ Len(q) >= 1
      /\ DOMAIN u = 1 .. Len(q) - 1 /\ DOMAIN q = 1 .. Len(q)
      /\ \A i \in 1 .. Len(q) - 1 : u[i] = q[i + 1]
      /\ Head(q) = q[1] /\ q[1] \in Incident
  OBVIOUS
<1> HIDE DEF u
<1>2. Ids(q) = Ids(u) \cup {Head(q).id}
  <2>1. ASSUME NEW i \in 1 .. Len(q) PROVE q[i].id \in Ids(u) \cup {Head(q).id}
    <3>1. CASE i = 1
      BY <1>1, <3>1
    <3>2. CASE i # 1
      <4>1. i - 1 \in 1 .. Len(q) - 1 /\ (i - 1) + 1 = i
        BY <1>1, <3>2
      <4>2. u[i - 1] = q[i]
        BY <1>1, <4>1
      <4> QED BY <1>1, <4>1, <4>2 DEF Ids
    <3> QED BY <3>1, <3>2
  <2>2. ASSUME NEW i \in 1 .. Len(q) - 1 PROVE u[i].id \in Ids(q)
    <3>1. i + 1 \in 1 .. Len(q) /\ u[i] = q[i + 1]
      BY <1>1
    <3> QED BY <1>1, <3>1 DEF Ids
  <2>3. Head(q).id \in Ids(q)
    <3>1. 1 \in 1 .. Len(q)
      BY <1>1
    <3> QED BY <1>1, <3>1 DEF Ids
  <2> QED BY <1>1, <2>1, <2>2, <2>3 DEF Ids
<1>3. ASSUME Distinct(q) PROVE Distinct(u) /\ Head(q).id \notin Ids(u)
  <2>1. ASSUME NEW i \in 1 .. Len(q) - 1, NEW j \in 1 .. Len(q) - 1, u[i].id = u[j].id
        PROVE  i = j
    <3>1. /\ i + 1 \in 1 .. Len(q) /\ u[i] = q[i + 1] /\ j + 1 \in 1 .. Len(q) /\ u[j] = q[j + 1]
      BY <1>1
    <3>2. i + 1 = j + 1
      BY <1>3, <2>1, <3>1 DEF Distinct
    <3> QED BY <3>2
  <2>2. ASSUME NEW i \in 1 .. Len(q) - 1 PROVE u[i].id # Head(q).id
    <3>1. /\ i + 1 \in 1 .. Len(q) /\ u[i] = q[i + 1] /\ 1 \in 1 .. Len(q) /\ i + 1 # 1
      BY <1>1
    <3> QED BY <1>1, <1>3, <3>1 DEF Distinct
  <2> QED BY <1>1, <2>1, <2>2 DEF Distinct, Ids
<1> QED BY <1>1, <1>2, <1>3 DEF u

(* What a record added to the audit, or written by its goroutine, leaves.  *)
LEMMA LogFacts ==
  ASSUME audit \in AuditRecords, Len(audit.queue) <= AuditCap, NEW x \in Record,
         ~audit.closed, audit.lost # {} => audit.error
  PROVE  LET a == logEvent(x) IN
         /\ a \in AuditRecords /\ Len(a.queue) <= AuditCap
         /\ a.closed = audit.closed /\ a.late = audit.late
         /\ a.lost # {} => a.error
         /\ Kept(a, x)
         /\ \A r : Kept(audit, r) => Kept(a, r)
<1> DEFINE a == logEvent(x)
           q == audit.queue
<1>1. q \in Seq(Record) /\ Len(q) \in Nat /\ AuditCap \in Nat
  BY PipelineAssumption DEF AuditRecords
<1>2. CASE Len(q) < AuditCap
  <2>1. a = [audit EXCEPT !.queue = Append(q, x)]
    BY <1>2 DEF logEvent
  <2>2. /\ Append(q, x) \in Seq(Record) /\ Len(Append(q, x)) = Len(q) + 1
        /\ Append(q, x)[Len(q) + 1] = x
        /\ \A i \in 1 .. Len(q) : Append(q, x)[i] = q[i]
    BY <1>1
  <2>3. /\ a \in AuditRecords /\ a.queue = Append(q, x) /\ a.closed = audit.closed
        /\ a.late = audit.late /\ a.lost = audit.lost /\ a.error = audit.error
        /\ a.written = audit.written
    BY <2>1, <2>2 DEF AuditRecords
  <2> HIDE DEF a, q
  <2>4. Len(q) + 1 \in 1 .. Len(a.queue) /\ a.queue[Len(q) + 1] = x /\ Len(a.queue) <= AuditCap
    BY <1>1, <1>2, <2>2, <2>3
  <2>5. ASSUME NEW i \in 1 .. Len(q) PROVE i \in 1 .. Len(a.queue) /\ a.queue[i] = q[i]
    BY <1>1, <2>2, <2>3
  <2>6. \A r : Kept(audit, r) => Kept(a, r)
    BY <2>3, <2>5 DEF Kept, q
  <2>7. Kept(a, x)
    BY <2>4 DEF Kept
  <2> QED BY <2>3, <2>4, <2>6, <2>7 DEF a
<1>3. CASE ~ (Len(q) < AuditCap)
  <2>1. a = [audit EXCEPT !.lost = audit.lost \cup {x}, !.error = TRUE]
    BY <1>3 DEF logEvent
  <2>2. /\ a \in AuditRecords /\ a.queue = q /\ a.closed = audit.closed
        /\ a.late = audit.late /\ a.lost = audit.lost \cup {x} /\ a.error = TRUE
        /\ a.written = audit.written
    BY ZenonT(30), <2>1 DEF AuditRecords
  <2> HIDE DEF a
  <2> QED BY <2>2 DEF Kept, a
<1> QED BY <1>2, <1>3

LEMMA WriteFacts ==
  ASSUME TypeInv, Len(audit.queue) <= AuditCap, audit.lost # {} => audit.error,
         NEW ok \in BOOLEAN, WriteAudit(ok)
  PROVE  /\ audit' \in AuditRecords /\ Len(audit'.queue) <= AuditCap
         /\ audit'.closed = audit.closed /\ audit'.late = audit.late
         /\ audit'.lost # {} => audit'.error
         /\ audit.queue # << >>
         /\ \A r : Kept(audit, r) => Kept(audit', r)
<1> DEFINE q == audit.queue
<1>1. audit \in AuditRecords /\ q \in Seq(Record) /\ Len(q) \in Nat /\ AuditCap \in Nat /\ q # << >>
  BY PipelineAssumption DEF TypeInv, AuditRecords, WriteAudit
<1>2. /\ Tail(q) \in Seq(Record) /\ Len(Tail(q)) = Len(q) - 1 /\ Len(q) >= 1
      /\ Head(q) = q[1] /\ Head(q) \in Record
      /\ \A i \in 1 .. Len(q) - 1 : Tail(q)[i] = q[i + 1]
  BY <1>1
<1>3. \/ audit' = [audit EXCEPT !.queue = Tail(q), !.written = audit.written \cup {Head(q)}]
      \/ audit' = [audit EXCEPT !.queue = Tail(q), !.lost = audit.lost \cup {Head(q)}, !.error = TRUE]
  BY DEF WriteAudit
<1>4. /\ audit' \in AuditRecords /\ audit'.queue = Tail(q)
      /\ audit'.closed = audit.closed /\ audit'.late = audit.late
      /\ audit.written \subseteq audit'.written /\ audit.lost \subseteq audit'.lost
      /\ Head(q) \in audit'.written \/ Head(q) \in audit'.lost
      /\ (audit'.lost = audit.lost /\ audit'.error = audit.error) \/ audit'.error = TRUE
  <2>1. CASE audit' = [audit EXCEPT !.queue = Tail(q), !.written = audit.written \cup {Head(q)}]
    BY <1>1, <1>2, <2>1 DEF AuditRecords
  <2>2. CASE audit' = [audit EXCEPT !.queue = Tail(q), !.lost = audit.lost \cup {Head(q)}, !.error = TRUE]
    BY <1>1, <1>2, <2>2 DEF AuditRecords
  <2> QED BY <1>3, <2>1, <2>2
<1>5. ASSUME NEW i \in 1 .. Len(q), i # 1
      PROVE  i - 1 \in 1 .. Len(audit'.queue) /\ audit'.queue[i - 1] = q[i]
  BY <1>1, <1>2, <1>4, <1>5
<1>6. \A r : Kept(audit, r) => Kept(audit', r)
  <2> SUFFICES ASSUME NEW r, NEW i \in 1 .. Len(q), q[i] = r PROVE Kept(audit', r)
    BY <1>4 DEF Kept
  <2>1. CASE i = 1
    BY <1>2, <1>4, <2>1 DEF Kept
  <2>2. CASE i # 1
    BY <1>5, <2>2 DEF Kept
  <2> QED BY <2>1, <2>2
<1>7. Len(audit'.queue) <= AuditCap
  BY <1>1, <1>2, <1>4
<1> QED BY <1>1, <1>4, <1>6, <1>7

-----------------------------------------------------------------------------
(* The callers.                                                            *)

LEMMA InitInv == Init => PipeInv
<1> SUFFICES ASSUME Init PROVE PipeInv
  OBVIOUS
<1>1. TypeInv
  <2>1. worker \in WorkerRecords
    BY DEF Init, WorkerRecords
  <2>2. audit \in AuditRecords
    BY DEF Init, AuditRecords
  <2>3. call \in [Callers -> {Idle} \cup CallRecords]
    BY DEF Init
  <2>4. /\ cancelled \in BOOLEAN /\ waiting \in BOOLEAN /\ closed \in BOOLEAN
        /\ queueClosed \in BOOLEAN /\ panic \in BOOLEAN
    BY DEF Init
  <2> QED BY <2>1, <2>2, <2>3, <2>4 DEF Init, TypeInv
<1>2. LifeInv
  BY DEF Init, LifeInv, Idle
<1>3. FlowInv
  <2>1. Len(slmQueue) = 0 /\ Len(audit.queue) = 0 /\ Ids(slmQueue) = {} /\ Distinct(slmQueue)
    BY DEF Init, Ids, Distinct
  <2>2. Hand(worker) = {} /\ Delivered(done) = {}
    BY DEF Init, Hand, Holding, Delivered
  <2> QED BY <2>1, <2>2, PipelineAssumption DEF Init, FlowInv, Idle
<1>4. CaseInv
  BY DEF Init, CaseInv, Holding, LateIsInsufficient, CaseComplete
<1>5. AuditInv
  BY DEF Init, AuditInv
<1>6. MetInv
  BY DEF Init, MetInv, Meeting, Idle
<1> QED BY <1>1, <1>2, <1>3, <1>4, <1>5, <1>6 DEF PipeInv

(* What EvaluatePacket does to its first look at the table.                *)
LEMMA EvaluateEffect ==
  ASSUME TypeInv, NEW c \in Callers, NEW p \in Packets, EvaluatePacket(c, p)
  PROVE  /\ call[c].pc = "idle" /\ calls' = calls + 1 /\ calls + 1 \in Nat
         /\ UNCHANGED <<rep, slmQueue, worker, cancelled, closer, waiting, closed, queueClosed,
                        audit, sent, done, abandoned, panic>>
         /\ \/ /\ call' = call
               /\ \E x \in Answered : x.decision # "FastDrop" /\ results' = results \cup {x}
            \/ /\ results' = results /\ ~closed
               /\ \E me \in CallRecords :
                    /\ call' = [call EXCEPT ![c] = me] /\ me.id = calls + 1 /\ me.met = {rep}
                    /\ me.pc = "drop" => me.packet \in rep.blocks
                    /\ me.pc = "decide" => me.packet \notin rep.blocks
<1>1. calls + 1 \in Nat /\ p \in Packet /\ {rep} \in SUBSET Tables
  BY PipelineAssumption DEF TypeInv
<1>2. /\ call[c].pc = "idle" /\ calls' = calls + 1
      /\ UNCHANGED <<rep, slmQueue, worker, cancelled, closer, waiting, closed, queueClosed,
                     audit, sent, done, abandoned, panic>>
  BY DEF EvaluatePacket, lifeVars
<1> DEFINE me == [pc |-> "decide", id |-> calls + 1, packet |-> p, met |-> {rep}]
           dr == [pc |-> "drop", id |-> calls + 1, packet |-> p, met |-> {rep}]
<1>3. me \in CallRecords /\ dr \in CallRecords
  BY <1>1 DEF CallRecords
<1>4. CASE closed \/ p.parse # "query"
  <2> DEFINE x == [id |-> calls + 1, decision |-> IF ~closed /\ p.parse = "empty" THEN "FastPass" ELSE "error"]
  <2>1. call' = call /\ results' = results \cup {x}
    BY <1>4 DEF EvaluatePacket, Result
  <2>2. x \in Answered /\ x.decision # "FastDrop"
    BY <1>1 DEF Answered
  <2> HIDE DEF x
  <2> QED BY <1>1, <1>2, <2>1, <2>2
<1>5. CASE ~ (closed \/ p.parse # "query") /\ p \in rep.blocks
  <2>1. call' = [call EXCEPT ![c] = dr] /\ results' = results
    BY <1>5 DEF EvaluatePacket
  <2>2. dr.id = calls + 1 /\ dr.met = {rep} /\ dr.pc = "drop" /\ dr.packet \in rep.blocks
    BY <1>5
  <2> HIDE DEF dr
  <2> QED BY <1>1, <1>2, <1>3, <1>5, <2>1, <2>2
<1>6. CASE ~ (closed \/ p.parse # "query") /\ p \notin rep.blocks
  <2>1. call' = [call EXCEPT ![c] = me] /\ results' = results
    BY <1>6 DEF EvaluatePacket
  <2>2. me.id = calls + 1 /\ me.met = {rep} /\ me.pc = "decide" /\ me.packet \notin rep.blocks
    BY <1>6
  <2> HIDE DEF me
  <2> QED BY <1>1, <1>2, <1>3, <1>6, <2>1, <2>2
<1> QED BY <1>4, <1>5, <1>6

LEMMA EvaluateInv ==
  ASSUME PipeInv, NEW c \in Callers, NEW p \in Packets, EvaluatePacket(c, p)
  PROVE  PipeInv'
<1> USE DEF PipeInv
<1>0. /\ call[c].pc = "idle" /\ calls' = calls + 1 /\ calls \in Nat /\ calls + 1 \in Nat
      /\ UNCHANGED <<rep, slmQueue, worker, cancelled, closer, waiting, closed, queueClosed,
                     audit, sent, done, abandoned, panic>>
  BY EvaluateEffect DEF TypeInv
<1>1. CaseInv'
  BY <1>0 DEF CaseInv, LateIsInsufficient, CaseComplete
<1>a. \A n \in sent : n <= calls' /\ n # calls + 1
  BY <1>0 DEF FlowInv, TypeInv
<1>2. CASE call' = call /\ \E x \in Answered : x.decision # "FastDrop" /\ results' = results \cup {x}
  <2>1. TypeInv' /\ LifeInv' /\ MetInv'
    BY <1>0, <1>2 DEF TypeInv, LifeInv, MetInv, Meeting
  <2>2. \A b \in Callers : call[b].pc # "idle" => call[b].id <= calls'
    BY <1>0 DEF FlowInv, TypeInv, CallRecords, Idle
  <2>3. FlowInv'
    BY <1>0, <1>2, <1>a, <2>2 DEF FlowInv
  <2>4. AuditInv'
    BY <1>0, <1>2 DEF AuditInv
  <2> QED BY <1>1, <2>1, <2>3, <2>4
<1>3. ASSUME results' = results, ~closed, NEW me \in CallRecords,
             call' = [call EXCEPT ![c] = me], me.id = calls + 1, me.met = {rep},
             me.pc = "drop" => me.packet \in rep.blocks,
             me.pc = "decide" => me.packet \notin rep.blocks
      PROVE  PipeInv'
  <2>0. \A b \in Callers : call'[b] = IF b = c THEN me ELSE call[b]
    BY <1>3 DEF TypeInv
  <2>1. TypeInv'
    BY <1>0, <1>3 DEF TypeInv
  <2>2. LifeInv'
    BY <1>0, <1>3 DEF LifeInv
  <2>3. FlowInv'
    <3>1. \A b \in Callers : call[b].pc # "idle" => call[b].id <= calls' /\ call[b].id # calls + 1
      BY <1>0 DEF FlowInv, TypeInv, CallRecords, Idle
    <3>2. \A b \in Callers : call'[b].pc # "idle" => call'[b].id <= calls' /\ call'[b].id \notin sent
      BY <1>0, <1>3, <1>a, <2>0, <3>1 DEF FlowInv
    <3>3. \A a, b \in Callers :
            call'[a].pc # "idle" /\ call'[b].pc # "idle" /\ call'[a].id = call'[b].id => a = b
      BY <1>0, <1>3, <2>0, <3>1 DEF FlowInv
    <3> QED BY <1>0, <1>a, <3>2, <3>3 DEF FlowInv
  <2>4. AuditInv'
    BY <1>0, <1>3 DEF AuditInv
  <2>5. MetInv'
    <3>1. me.pc \in {"drop", "decide"}
      BY DEF CallRecords
    <3>2. ASSUME NEW b \in Callers PROVE Meeting(call[b])'
      <4>1. CASE b = c
        BY <1>0, <1>3, <2>0, <3>1, <4>1 DEF Meeting
      <4>2. CASE b # c
        BY <1>0, <2>0, <4>2 DEF Meeting, MetInv
      <4> QED BY <4>1, <4>2
    <3> QED BY <3>2 DEF MetInv
  <2> QED BY <1>1, <2>1, <2>2, <2>3, <2>4, <2>5
<1> QED BY <1>2, <1>3, EvaluateEffect

(* A call that ends frees its caller.                                      *)
LEMMA ReturnFacts ==
  ASSUME TypeInv, LifeInv, NEW c \in Callers, call[c].pc # "idle",
         call' = [call EXCEPT ![c] = Idle]
  PROVE  /\ call[c] \in CallRecords /\ ~closed /\ ~queueClosed /\ ~audit.closed
         /\ \A b \in Callers : call'[b] = IF b = c THEN Idle ELSE call[b]
         /\ call' \in [Callers -> {Idle} \cup CallRecords]
<1>1. call[c] \in CallRecords
  BY DEF TypeInv, Idle
<1>2. ~closed /\ ~queueClosed /\ ~audit.closed
  BY DEF LifeInv
<1> QED BY <1>1, <1>2 DEF TypeInv

LEMMA DropInv ==
  ASSUME PipeInv, NEW c \in Callers, Drop(c)
  PROVE  PipeInv'
<1> USE DEF PipeInv
<1> DEFINE x == <<"drop", call[c].id>>
           y == [id |-> call[c].id, decision |-> "FastDrop"]
<1>0. /\ call[c].pc = "drop" /\ call' = [call EXCEPT ![c] = Idle]
      /\ audit' = logEvent(x) /\ results' = results \cup {y}
      /\ UNCHANGED <<rep, calls, slmQueue, worker, cancelled, closer, waiting, closed, queueClosed,
                     sent, done, abandoned, panic>>
  BY DEF Drop, lifeVars, Result
<1>1. /\ call[c] \in CallRecords /\ ~closed /\ ~queueClosed /\ ~audit.closed
      /\ \A b \in Callers : call'[b] = IF b = c THEN Idle ELSE call[b]
      /\ call' \in [Callers -> {Idle} \cup CallRecords]
  BY <1>0, ReturnFacts
<1>2. x \in Record /\ y \in Answered
  BY <1>1 DEF CallRecords, Record, Answered
<1>3. /\ audit' \in AuditRecords /\ Len(audit'.queue) <= AuditCap
      /\ audit'.closed = audit.closed /\ audit'.late = audit.late
      /\ audit'.lost # {} => audit'.error
      /\ Kept(audit', x)
      /\ \A r : Kept(audit, r) => Kept(audit', r)
  BY <1>0, <1>1, <1>2, LogFacts DEF TypeInv, FlowInv, AuditInv
<1>4. TypeInv'
  BY <1>0, <1>1, <1>2, <1>3 DEF TypeInv
<1>5. LifeInv'
  BY <1>0, <1>1, <1>3 DEF LifeInv
<1>6. FlowInv'
  BY <1>0, <1>1, <1>3 DEF FlowInv, Idle
<1>7. CaseInv'
  BY <1>0 DEF CaseInv, LateIsInsufficient, CaseComplete
<1>8. AuditInv'
  <2>1. closer # "done"
    BY <1>1 DEF LifeInv
  <2>2. \A r \in results' : r.decision = "FastDrop" => Kept(audit', <<"drop", r.id>>)
    BY <1>0, <1>3 DEF AuditInv
  <2> QED BY <1>0, <1>3, <2>1, <2>2 DEF AuditInv
<1>9. MetInv'
  BY <1>0, <1>1 DEF MetInv, Meeting, Idle
<1> QED BY <1>4, <1>5, <1>6, <1>7, <1>8, <1>9

LEMMA DecideInv ==
  ASSUME PipeInv, NEW c \in Callers, NEW track \in Tracked, Decide(c, track)
  PROVE  PipeInv'
<1> USE DEF PipeInv
<1> DEFINE inc == [id |-> call[c].id, packet |-> call[c].packet, track |-> track, action |-> "none"]
<1>0. /\ call[c].pc = "decide" /\ call' = [call EXCEPT ![c] = Idle]
      /\ UNCHANGED <<rep, calls, worker, cancelled, closer, waiting, closed, queueClosed,
                     audit, done, abandoned>>
  BY DEF Decide, lifeVars
<1>1. /\ call[c] \in CallRecords /\ ~closed /\ ~queueClosed /\ ~audit.closed
      /\ \A b \in Callers : call'[b] = IF b = c THEN Idle ELSE call[b]
      /\ call' \in [Callers -> {Idle} \cup CallRecords]
  BY <1>0, ReturnFacts
<1>2. inc \in Incident
  BY <1>1 DEF CallRecords, Incident, CaseActions
<1>3. \E y \in Answered : y.decision # "FastDrop" /\ results' = results \cup {y}
  <2> DEFINE d == IF ~Escalates(call[c].packet, track, rep) THEN "FastPass"
                  ELSE IF Room THEN "EscalateSLM" ELSE "QueueFull"
             y == [id |-> call[c].id, decision |-> d]
  <2>1. results' = results \cup {y}
    BY DEF Decide, Result
  <2>2. d \in {"FastPass", "EscalateSLM", "QueueFull"}
    OBVIOUS
  <2> HIDE DEF d
  <2>3. y \in Answered /\ y.decision # "FastDrop"
    BY <1>1, <2>2 DEF Answered, CallRecords
  <2> HIDE DEF y
  <2> QED BY <2>1, <2>3
<1>4. /\ panic' = panic
      /\ \/ slmQueue' = slmQueue /\ sent' = sent
         \/ /\ Room
            /\ slmQueue' = Append(slmQueue, inc) /\ sent' = sent \cup {inc.id}
  <2>1. panic = FALSE /\ panic' = FALSE
    BY <1>1 DEF Decide, LifeInv, TypeInv
  <2> QED BY <1>1, <2>1 DEF Decide
<1> HIDE DEF inc
<1>5. /\ inc.id = call[c].id /\ inc.id \in Nat
      /\ inc.id \notin sent /\ inc.id <= calls
  BY <1>0, <1>1 DEF inc, CallRecords, FlowInv
<1>6. LifeInv'
  BY <1>0, <1>1, <1>4 DEF LifeInv
<1>7. CaseInv'
  BY <1>0 DEF CaseInv, LateIsInsufficient, CaseComplete
<1>8. AuditInv'
  BY <1>0, <1>3 DEF AuditInv
<1>9. MetInv'
  BY <1>0, <1>1 DEF MetInv, Meeting, Idle
<1>10. CASE slmQueue' = slmQueue /\ sent' = sent
  <2>1. TypeInv'
    BY <1>0, <1>1, <1>3, <1>4, <1>10 DEF TypeInv
  <2>2. FlowInv'
    BY <1>0, <1>1, <1>10 DEF FlowInv, Idle
  <2> QED BY <1>6, <1>7, <1>8, <1>9, <2>1, <2>2
<1>11. CASE Room /\ slmQueue' = Append(slmQueue, inc) /\ sent' = sent \cup {inc.id}
  <2>1. /\ slmQueue \in Seq(Incident) /\ Distinct(slmQueue)
        /\ inc.id \notin Ids(slmQueue) /\ Len(slmQueue) \in Nat
    BY <1>5 DEF TypeInv, FlowInv
  <2>2. /\ slmQueue' \in Seq(Incident) /\ Len(slmQueue') = Len(slmQueue) + 1
        /\ Ids(slmQueue)' = Ids(slmQueue) \cup {inc.id} /\ Distinct(slmQueue')
    <3>1. Ids(slmQueue)' = Ids(slmQueue')
      BY DEF Ids
    <3> QED BY <1>2, <1>11, <2>1, <3>1, AppendIds
  <2>3. TypeInv'
    BY <1>0, <1>1, <1>3, <1>4, <1>5, <1>11, <2>2 DEF TypeInv
  <2>4. Len(slmQueue') <= QueueCap
    BY <1>11, <2>1, <2>2, PipelineAssumption DEF Room
  <2>5. Hand(worker)' = Hand(worker) /\ Delivered(done)' = Delivered(done)
    BY <1>0 DEF Hand, Delivered
  <2>6. \A b \in Callers : call'[b].pc # "idle" => call'[b].id <= calls' /\ call'[b].id \notin sent'
    BY <1>0, <1>1, <1>5, <1>11 DEF FlowInv, Idle
  <2>7. \A a, b \in Callers :
          call'[a].pc # "idle" /\ call'[b].pc # "idle" /\ call'[a].id = call'[b].id => a = b
    BY <1>1 DEF FlowInv, Idle
  <2>8. \A n \in sent' : n <= calls'
    BY <1>0, <1>5, <1>11 DEF FlowInv
  <2>9. Distinct(slmQueue)' /\ Len(audit'.queue) <= AuditCap
    BY <1>0, <2>2 DEF FlowInv, Distinct
  <2>10. FlowInv'
    BY <1>0, <1>5, <1>11, <2>1, <2>2, <2>4, <2>5, <2>6, <2>7, <2>8, <2>9 DEF FlowInv
  <2> QED BY <1>6, <1>7, <1>8, <1>9, <2>3, <2>10
<1> QED BY <1>4, <1>10, <1>11

LEMMA ReloadInv ==
  ASSUME PipeInv, Reload
  PROVE  PipeInv'
<1> USE DEF PipeInv
<1>0. UNCHANGED <<calls, slmQueue, worker, cancelled, closer, waiting, closed, queueClosed, audit,
                  sent, done, abandoned, results, panic>>
  BY DEF Reload, lifeVars
<1>1. PICK t \in Tables :
        /\ rep' = t
        /\ call' = [c \in Callers |-> IF c \in Readers THEN [call[c] EXCEPT !.met = @ \cup {t}] ELSE call[c]]
  BY DEF Reload
<1>2. ASSUME NEW c \in Callers
      PROVE  \/ call[c].pc = "idle" /\ call'[c] = call[c]
             \/ /\ call[c] \in CallRecords /\ call'[c] \in CallRecords
                /\ call'[c].pc = call[c].pc /\ call'[c].id = call[c].id
                /\ call'[c].packet = call[c].packet /\ call'[c].met = call[c].met \cup {t}
  <2>1. CASE call[c].pc = "idle"
    BY <1>1, <2>1 DEF Readers
  <2>2. CASE call[c].pc # "idle"
    <3>1. call'[c] = [call[c] EXCEPT !.met = call[c].met \cup {t}] /\ call[c] \in CallRecords
      BY <1>1, <2>2 DEF Readers, TypeInv, Idle
    <3> QED BY <3>1 DEF CallRecords
  <2> QED BY <2>1, <2>2
<1>3. TypeInv'
  <2>1. \A c \in Callers : call'[c] \in {Idle} \cup CallRecords
    BY <1>2 DEF TypeInv
  <2>2. call' \in [Callers -> {Idle} \cup CallRecords]
    BY <1>1, <2>1
  <2> QED BY <1>0, <1>1, <2>2 DEF TypeInv
<1>4. LifeInv'
  BY <1>0, <1>2 DEF LifeInv
<1>5. FlowInv'
  <2>1. \A c \in Callers : call'[c].pc # "idle" => call'[c].id <= calls /\ call'[c].id \notin sent
    BY <1>2 DEF FlowInv
  <2>2. \A a, b \in Callers :
          call'[a].pc # "idle" /\ call'[b].pc # "idle" /\ call'[a].id = call'[b].id => a = b
    BY <1>2 DEF FlowInv
  <2> QED BY <1>0, <2>1, <2>2 DEF FlowInv
<1>6. CaseInv' /\ AuditInv'
  BY <1>0 DEF CaseInv, LateIsInsufficient, CaseComplete, AuditInv
<1>7. MetInv'
  <2> SUFFICES ASSUME NEW c \in Callers, call'[c].pc # "idle" PROVE Meeting(call[c])'
    BY DEF MetInv, Meeting
  <2>1. Meeting(call[c])
    BY DEF MetInv
  <2> QED BY <1>1, <1>2, <2>1 DEF Meeting
<1> QED BY <1>3, <1>4, <1>5, <1>6, <1>7

-----------------------------------------------------------------------------
(* The worker.                                                             *)

(* A step that moves neither the queue, nor what is in the worker's hands, *)
(* nor what it delivered keeps the places of the incidents.                *)
LEMMA FlowFrame ==
  ASSUME FlowInv, Hand(worker)' = Hand(worker), Len(audit'.queue) <= AuditCap,
         UNCHANGED <<call, calls, slmQueue, sent, done, abandoned>>
  PROVE  FlowInv'
BY DEF FlowInv, Distinct, Ids, Delivered

LEMMA WorkerShape ==
  ASSUME TypeInv
  PROVE  /\ worker.pc \in {"none", "receive", "exited"} => worker = [pc |-> worker.pc]
         /\ worker.pc = "arbitrate" => worker \in [pc : {"arbitrate"}, inc : Incident, open : BOOLEAN]
         /\ worker.pc \in {"veto", "log", "callback"} =>
              worker \in [pc : {"veto", "log", "callback"}, inc : Incident, verdict : validSLMVerdict,
                          open : BOOLEAN]
         /\ worker.pc \in {"none", "receive", "exited"} \cup Holding
<1>1. CASE worker \in [pc : {"none", "receive", "exited"}]
  BY <1>1 DEF Holding
<1>2. CASE worker \in [pc : {"arbitrate"}, inc : Incident, open : BOOLEAN]
  BY <1>2 DEF Holding
<1>3. CASE worker \in [pc : {"veto", "log", "callback"}, inc : Incident, verdict : validSLMVerdict,
                       open : BOOLEAN]
  BY <1>3 DEF Holding
<1> QED BY <1>1, <1>2, <1>3 DEF TypeInv, WorkerRecords

LEMMA EnrichedFacts ==
  ASSUME NEW inc \in Incident, NEW v \in validSLMVerdict
  PROVE  /\ Enriched(inc, v) \in Incident /\ Enriched(inc, v).id = inc.id
         /\ Enriched(inc, v).action = RecommendedActionForVerdict(v)
<1>1. RecommendedActionForVerdict(v) \in CaseActions
  BY DEF RecommendedActionForVerdict, CaseActions
<1> HIDE DEF RecommendedActionForVerdict
<1> QED BY <1>1 DEF Enriched, Incident

(* Starting the worker, the end of its context and its return.             *)
LEMMA WorkerLifeInv ==
  ASSUME PipeInv, StartArbitratorWorker \/ CancelContext \/ WorkerExit
  PROVE  PipeInv'
<1> USE DEF PipeInv
<1>0. /\ UNCHANGED <<rep, call, calls, closer, waiting, closed, queueClosed, sent, results, panic,
                     slmQueue, audit, done, abandoned>>
      /\ cancelled' \in BOOLEAN
      /\ cancelled => cancelled'
      /\ \/ worker' = worker
         \/ worker.pc = "none" /\ worker' = [pc |-> "receive"] /\ ~closed
         \/ worker.pc = "receive" /\ worker' = [pc |-> "exited"]
  BY DEF StartArbitratorWorker, CancelContext, WorkerExit, environment, TypeInv
<1>1. /\ worker' \in WorkerRecords
      /\ worker' = worker \/ (worker.pc \notin Holding /\ worker'.pc \notin Holding)
      /\ closer \in {"audit", "flush", "done", "failed"} => worker'.pc \in {"none", "exited"}
  <2>1. CASE worker' = worker
    BY <2>1 DEF TypeInv, LifeInv
  <2>2. CASE worker.pc = "none" /\ worker' = [pc |-> "receive"] /\ ~closed
    BY <2>2 DEF WorkerRecords, Holding, LifeInv
  <2>3. CASE worker.pc = "receive" /\ worker' = [pc |-> "exited"]
    BY <2>3 DEF WorkerRecords, Holding
  <2> QED BY <1>0, <2>1, <2>2, <2>3
<1>2. TypeInv' /\ LifeInv'
  BY <1>0, <1>1 DEF TypeInv, LifeInv
<1>3. FlowInv'
  <2>1. Hand(worker)' = Hand(worker) /\ Len(audit'.queue) <= AuditCap
    BY <1>0, <1>1 DEF Hand, FlowInv
  <2> QED BY <1>0, <2>1, FlowFrame
<1>4. CaseInv'
  <2>1. CASE worker' = worker
    BY <1>0, <2>1 DEF CaseInv, LateIsInsufficient, CaseComplete
  <2>2. CASE worker'.pc \notin Holding
    BY <1>0, <2>2 DEF CaseInv, LateIsInsufficient, CaseComplete, Holding
  <2> QED BY <1>1, <2>1, <2>2
<1>5. AuditInv'
  BY <1>0, <1>1 DEF AuditInv, Holding
<1>6. MetInv'
  BY <1>0 DEF MetInv, Meeting
<1> QED BY <1>2, <1>3, <1>4, <1>5, <1>6

LEMMA ReceiveInv ==
  ASSUME PipeInv, Receive
  PROVE  PipeInv'
<1> USE DEF PipeInv
<1> DEFINE h == Head(slmQueue)
<1>0. /\ UNCHANGED <<rep, call, calls, closer, waiting, closed, queueClosed, sent, results, panic,
                     cancelled, audit, done, abandoned>>
      /\ worker.pc = "receive" /\ slmQueue # << >> /\ slmQueue' = Tail(slmQueue)
      /\ worker' = [pc |-> "arbitrate", inc |-> h, open |-> ~cancelled]
  BY DEF Receive, environment
<1>1. /\ h \in Incident /\ slmQueue' \in Seq(Incident) /\ Len(slmQueue') = Len(slmQueue) - 1
      /\ Ids(slmQueue) = Ids(slmQueue') \cup {h.id}
      /\ Distinct(slmQueue') /\ h.id \notin Ids(slmQueue')
  BY <1>0, TailIds DEF TypeInv, FlowInv
<1> HIDE DEF h
<1>a. /\ worker'.pc = "arbitrate" /\ worker'.inc = h /\ worker'.open = ~cancelled
      /\ worker' \in WorkerRecords /\ worker.pc \notin Holding
  BY <1>0, <1>1 DEF WorkerRecords, Holding
<1>2. TypeInv'
  BY <1>0, <1>1, <1>a DEF TypeInv
<1>3. LifeInv'
  BY <1>0, <1>a DEF LifeInv
<1>4. FlowInv'
  <2>1. Hand(worker) = {} /\ Hand(worker)' = {h.id} /\ Ids(slmQueue)' = Ids(slmQueue')
        /\ Delivered(done)' = Delivered(done)
    BY <1>0, <1>a DEF Hand, Holding, Ids, Delivered
  <2>2. Len(slmQueue') <= QueueCap /\ Distinct(slmQueue)'
    <3>1. Len(slmQueue) \in Nat /\ QueueCap \in Nat /\ Len(slmQueue) <= QueueCap
      BY PipelineAssumption DEF TypeInv, FlowInv
    <3> QED BY <1>1, <3>1 DEF Distinct
  <2> QED BY <1>0, <1>1, <2>1, <2>2 DEF FlowInv
<1>5. CaseInv'
  BY <1>0, <1>a DEF CaseInv, LateIsInsufficient, CaseComplete, TypeInv
<1>6. AuditInv'
  BY <1>0, <1>a DEF AuditInv
<1>7. MetInv'
  BY <1>0 DEF MetInv, Meeting
<1> QED BY <1>2, <1>3, <1>4, <1>5, <1>6, <1>7

(* The worker takes its case to the next step.                             *)
LEMMA CaseStep ==
  ASSUME PipeInv, worker.pc \in {"arbitrate", "veto"}, NEW st \in WorkerRecords, worker' = st,
         st.pc \in {"veto", "log"}, st.inc.id = worker.inc.id, st.open = worker.open,
         st.pc = "veto" => worker.open,
         st.pc = "log" =>
           /\ ~worker.open => st.verdict = Insufficient
           /\ \/ st.inc.action = RecommendedActionForVerdict(st.verdict)
              \/ closed /\ worker.open /\ st.verdict = Insufficient,
         UNCHANGED <<rep, call, calls, closer, waiting, closed, queueClosed, sent, results, panic,
                     slmQueue, cancelled, audit, done, abandoned>>
  PROVE  PipeInv'
<1> USE DEF PipeInv
<1>1. TypeInv' /\ LifeInv'
  BY DEF TypeInv, LifeInv
<1>2. FlowInv'
  <2>1. Hand(worker)' = Hand(worker) /\ Len(audit'.queue) <= AuditCap
    BY DEF Hand, FlowInv, Holding
  <2> QED BY <2>1, FlowFrame
<1>3. CaseInv'
  <2>1. ~worker.open => cancelled
    BY DEF CaseInv, Holding
  <2>2. worker'.pc \in Holding /\ ~worker'.open => cancelled' /\ worker'.pc # "veto"
    BY <2>1
  <2>3. worker'.pc \in {"log", "callback"} =>
          /\ ~worker'.open => worker'.verdict = Insufficient
          /\ \/ worker'.inc.action = RecommendedActionForVerdict(worker'.verdict)
             \/ closed' /\ worker'.open /\ worker'.verdict = Insufficient
    <3> HIDE DEF RecommendedActionForVerdict
    <3> QED OBVIOUS
  <2>4. LateIsInsufficient' /\ CaseComplete'
    BY DEF CaseInv, LateIsInsufficient, CaseComplete
  <2> QED BY <2>2, <2>3, <2>4 DEF CaseInv
<1>4. AuditInv' /\ MetInv'
  BY DEF AuditInv, MetInv, Meeting
<1> QED BY <1>1, <1>2, <1>3, <1>4

LEMMA ArbitrateInv ==
  ASSUME PipeInv, NEW given \in Answers, Arbitrate(given)
  PROVE  PipeInv'
<1> USE DEF PipeInv
<1>0. /\ worker.pc = "arbitrate"
      /\ UNCHANGED <<rep, call, calls, closer, waiting, closed, queueClosed, sent, results, panic,
                     slmQueue, cancelled, audit, done, abandoned>>
  BY DEF Arbitrate, environment
<1>1. worker \in [pc : {"arbitrate"}, inc : Incident, open : BOOLEAN]
  BY <1>0, WorkerShape
<1>i. Insufficient \in validSLMVerdict
  BY DEF validSLMVerdict
<1>2. CASE cancelled \/ given \notin validSLMVerdict
  <2> DEFINE e == Enriched(worker.inc, Insufficient)
             st == [pc |-> "log", inc |-> e, verdict |-> Insufficient, open |-> worker.open]
  <2>1. worker' = st
    BY <1>2 DEF Arbitrate
  <2>2. e \in Incident /\ e.id = worker.inc.id /\ e.action = RecommendedActionForVerdict(Insufficient)
    BY <1>1, <1>i, EnrichedFacts
  <2> HIDE DEF e
  <2>3. st \in WorkerRecords
    BY <1>1, <1>i, <2>2 DEF WorkerRecords
  <2>4. /\ st.pc = "log" /\ st.inc = e /\ st.verdict = Insufficient /\ st.open = worker.open
    OBVIOUS
  <2> HIDE DEF st
  <2> QED BY <1>0, <2>1, <2>2, <2>3, <2>4, CaseStep
<1>3. CASE ~ (cancelled \/ given \notin validSLMVerdict)
  <2> DEFINE st == [pc |-> "veto", inc |-> worker.inc, verdict |-> given, open |-> worker.open]
  <2>1. worker' = st
    BY <1>3 DEF Arbitrate
  <2>2. worker.open
    BY <1>0, <1>3 DEF CaseInv, Holding
  <2>3. st \in WorkerRecords
    BY <1>1, <1>3 DEF WorkerRecords
  <2>4. /\ st.pc = "veto" /\ st.inc = worker.inc /\ st.open = worker.open
    OBVIOUS
  <2> HIDE DEF st
  <2> QED BY <1>0, <2>1, <2>2, <2>3, <2>4, CaseStep
<1> QED BY <1>2, <1>3

LEMMA VetoInv ==
  ASSUME PipeInv, ApplyDeterministicVeto
  PROVE  PipeInv'
<1> USE DEF PipeInv
<1>0. /\ worker.pc = "veto"
      /\ UNCHANGED <<rep, call, calls, closer, waiting, closed, queueClosed, sent, results, panic,
                     slmQueue, cancelled, audit, done, abandoned>>
  BY DEF ApplyDeterministicVeto, environment
<1>1. worker \in [pc : {"veto", "log", "callback"}, inc : Incident, verdict : validSLMVerdict, open : BOOLEAN]
  BY <1>0, WorkerShape
<1>2. worker.open
  BY <1>0 DEF CaseInv, Holding
<1> DEFINE v == applyVetoRules(worker.inc, worker.verdict)
<1>3. v \in validSLMVerdict /\ Insufficient \in validSLMVerdict
  BY <1>1 DEF applyVetoRules, validSLMVerdict, Benign
<1>4. worker' = IF closed THEN [worker EXCEPT !.pc = "log", !.verdict = Insufficient]
                ELSE [worker EXCEPT !.pc = "log", !.inc = Enriched(worker.inc, v), !.verdict = v]
  BY DEF ApplyDeterministicVeto
<1> HIDE DEF v
<1>5. CASE closed
  <2>1. PICK st : st = [worker EXCEPT !.pc = "log", !.verdict = Insufficient]
    OBVIOUS
  <2>2. /\ worker' = st /\ st \in WorkerRecords /\ st.pc = "log" /\ st.inc = worker.inc
        /\ st.verdict = Insufficient /\ st.open = worker.open
    BY <1>1, <1>3, <1>4, <1>5, <2>1 DEF WorkerRecords
  <2> QED BY <1>0, <1>2, <1>5, <2>2, CaseStep
<1>6. CASE ~closed
  <2>1. PICK e : e = Enriched(worker.inc, v)
    OBVIOUS
  <2>2. e \in Incident /\ e.id = worker.inc.id /\ e.action = RecommendedActionForVerdict(v)
    BY <1>1, <1>3, <2>1, EnrichedFacts
  <2>3. PICK st : st = [worker EXCEPT !.pc = "log", !.inc = e, !.verdict = v]
    OBVIOUS
  <2>4. /\ worker' = st /\ st \in WorkerRecords /\ st.pc = "log" /\ st.inc = e
        /\ st.verdict = v /\ st.open = worker.open
    BY <1>1, <1>3, <1>4, <1>6, <2>1, <2>2, <2>3 DEF WorkerRecords
  <2> QED BY <1>0, <1>2, <2>2, <2>4, CaseStep
<1> QED BY <1>5, <1>6

LEMMA WorkerLogInv ==
  ASSUME PipeInv, WorkerLog
  PROVE  PipeInv'
<1> USE DEF PipeInv
<1> DEFINE x == <<"verdict", worker.inc.id>>
<1>0. /\ worker.pc = "log" /\ audit' = logEvent(x)
      /\ worker' = [worker EXCEPT !.pc = "callback"]
      /\ UNCHANGED <<rep, call, calls, closer, waiting, closed, queueClosed, sent, results, panic,
                     slmQueue, cancelled, done, abandoned>>
  BY DEF WorkerLog, environment
<1>1. worker \in [pc : {"veto", "log", "callback"}, inc : Incident, verdict : validSLMVerdict, open : BOOLEAN]
  BY <1>0, WorkerShape
<1>2. /\ worker' \in WorkerRecords /\ worker'.pc = "callback" /\ worker'.inc = worker.inc
      /\ worker'.verdict = worker.verdict /\ worker'.open = worker.open
  BY <1>0, <1>1 DEF WorkerRecords
<1>3. ~audit.closed /\ closer \notin {"audit", "flush", "done", "failed"}
  BY <1>0 DEF LifeInv
<1>4. x \in Record
  BY <1>1 DEF Record, Incident
<1>5. /\ audit' \in AuditRecords /\ Len(audit'.queue) <= AuditCap
      /\ audit'.closed = audit.closed /\ audit'.late = audit.late
      /\ audit'.lost # {} => audit'.error
      /\ Kept(audit', x)
      /\ \A r : Kept(audit, r) => Kept(audit', r)
  BY <1>0, <1>3, <1>4, LogFacts DEF TypeInv, FlowInv, AuditInv
<1>6. TypeInv'
  BY <1>0, <1>2, <1>5 DEF TypeInv
<1>7. LifeInv'
  BY <1>0, <1>3, <1>5 DEF LifeInv
<1>8. FlowInv'
  <2>1. Hand(worker)' = Hand(worker)
    BY <1>0, <1>2 DEF Hand, Holding
  <2> QED BY <1>0, <1>5, <2>1, FlowFrame
<1>9. CaseInv'
  <2> HIDE DEF RecommendedActionForVerdict
  <2> QED BY <1>0, <1>2 DEF CaseInv, LateIsInsufficient, CaseComplete, Holding
<1>10. AuditInv'
  BY <1>0, <1>2, <1>3, <1>5 DEF AuditInv
<1>11. MetInv'
  BY <1>0 DEF MetInv, Meeting
<1> QED BY <1>6, <1>7, <1>8, <1>9, <1>10, <1>11

LEMMA CallbackInv ==
  ASSUME PipeInv, Callback
  PROVE  PipeInv'
<1> USE DEF PipeInv
<1> DEFINE o == [id |-> worker.inc.id, verdict |-> worker.verdict, action |-> worker.inc.action,
                 open |-> worker.open]
<1>0. /\ worker.pc = "callback" /\ done' = done \cup {o} /\ worker' = [pc |-> "receive"]
      /\ UNCHANGED <<rep, call, calls, closer, waiting, closed, queueClosed, sent, results, panic,
                     slmQueue, cancelled, audit, abandoned>>
  BY DEF Callback, environment
<1>1. worker \in [pc : {"veto", "log", "callback"}, inc : Incident, verdict : validSLMVerdict, open : BOOLEAN]
  BY <1>0, WorkerShape
<1>2. /\ o \in Outcome /\ o.id = worker.inc.id /\ o.verdict = worker.verdict
      /\ o.action = worker.inc.action /\ o.open = worker.open
  BY <1>1 DEF Outcome, Incident
<1> HIDE DEF o
<1>3. worker' \in WorkerRecords /\ worker'.pc = "receive"
  BY <1>0 DEF WorkerRecords
<1>4. TypeInv'
  BY <1>0, <1>2, <1>3 DEF TypeInv
<1>5. LifeInv'
  BY <1>0, <1>3 DEF LifeInv
<1>6. FlowInv'
  <2>1. Hand(worker) = {o.id} /\ Hand(worker)' = {} /\ Delivered(done)' = Delivered(done) \cup {o.id}
    BY <1>0, <1>2, <1>3 DEF Hand, Holding, Delivered
  <2>2. Ids(slmQueue)' = Ids(slmQueue) /\ Distinct(slmQueue)'
    BY <1>0 DEF FlowInv, Ids, Distinct
  <2> QED BY <1>0, <2>1, <2>2 DEF FlowInv
<1>7. CaseInv'
  <2> HIDE DEF RecommendedActionForVerdict
  <2>1. /\ ~o.open => o.verdict = Insufficient
        /\ \/ o.action = RecommendedActionForVerdict(o.verdict)
           \/ closed /\ o.open /\ o.verdict = Insufficient
    BY <1>0, <1>2 DEF CaseInv
  <2>2. LateIsInsufficient'
    BY <1>0, <2>1 DEF CaseInv, LateIsInsufficient
  <2>3. CaseComplete'
    BY <1>0, <2>1 DEF CaseInv, CaseComplete
  <2> QED BY <1>3, <2>2, <2>3 DEF CaseInv, Holding
<1>8. AuditInv'
  BY <1>0, <1>2, <1>3 DEF AuditInv
<1>9. MetInv'
  BY <1>0 DEF MetInv, Meeting
<1> QED BY <1>4, <1>5, <1>6, <1>7, <1>8, <1>9

-----------------------------------------------------------------------------
(* The writer of the audit file, and Close.                                *)

LEMMA WriteInv ==
  ASSUME PipeInv, NEW ok \in BOOLEAN, WriteAudit(ok)
  PROVE  PipeInv'
<1> USE DEF PipeInv
<1>0. UNCHANGED <<rep, call, calls, closer, waiting, closed, queueClosed, sent, results, panic,
                  slmQueue, worker, cancelled, done, abandoned>>
  BY DEF WriteAudit, environment
<1>1. /\ audit' \in AuditRecords /\ Len(audit'.queue) <= AuditCap
      /\ audit'.closed = audit.closed /\ audit'.late = audit.late
      /\ audit'.lost # {} => audit'.error
      /\ audit.queue # << >>
      /\ \A r : Kept(audit, r) => Kept(audit', r)
  BY WriteFacts DEF FlowInv, AuditInv
<1>2. TypeInv'
  BY <1>0, <1>1 DEF TypeInv
<1>3. LifeInv'
  BY <1>0, <1>1 DEF LifeInv
<1>4. FlowInv'
  <2>1. Hand(worker)' = Hand(worker)
    BY <1>0 DEF Hand
  <2> QED BY <1>0, <1>1, <2>1, FlowFrame
<1>5. CaseInv'
  BY <1>0 DEF CaseInv, LateIsInsufficient, CaseComplete
<1>6. AuditInv'
  BY <1>0, <1>1 DEF AuditInv
<1>7. MetInv'
  BY <1>0 DEF MetInv, Meeting
<1> QED BY <1>2, <1>3, <1>4, <1>5, <1>6, <1>7

LEMMA CloseInv ==
  ASSUME PipeInv, Close
  PROVE  PipeInv'
<1> USE DEF PipeInv
<1>0. UNCHANGED <<rep, call, calls, sent, done, results, panic, worker>>
  BY DEF Close, CloseBegin, CloseLocked, CloseJoin, CloseAudit, CloseFlush, rest
<1>m. MetInv'
  BY <1>0 DEF MetInv, Meeting
<1>h. Hand(worker)' = Hand(worker)
  BY <1>0 DEF Hand
<1>1. CASE CloseBegin
  <2>1. /\ closer = "idle" /\ closer' = "lock" /\ waiting' = TRUE
        /\ UNCHANGED <<slmQueue, cancelled, closed, queueClosed, audit, abandoned>>
    BY <1>1 DEF CloseBegin
  <2>2. TypeInv' /\ LifeInv'
    BY <1>0, <2>1 DEF TypeInv, LifeInv
  <2>3. FlowInv'
    BY <1>0, <1>h, <2>1, FlowFrame DEF FlowInv
  <2>4. CaseInv' /\ AuditInv'
    BY <1>0, <2>1 DEF CaseInv, LateIsInsufficient, CaseComplete, AuditInv
  <2> QED BY <1>m, <2>2, <2>3, <2>4
<1>2. CASE CloseLocked
  <2>1. /\ closer = "lock" /\ Readers = {} /\ closer' = "join" /\ waiting' = FALSE
        /\ closed' = TRUE /\ queueClosed' = TRUE
        /\ cancelled' = (cancelled \/ worker.pc # "none")
        /\ UNCHANGED <<slmQueue, audit, abandoned>>
    BY <1>2 DEF CloseLocked
  <2>2. cancelled' \in BOOLEAN /\ (cancelled => cancelled')
    BY <2>1 DEF TypeInv
  <2>3. \A c \in Callers : call[c].pc = "idle"
    BY <2>1 DEF Readers
  <2>4. TypeInv'
    BY <1>0, <2>1, <2>2 DEF TypeInv
  <2>5. LifeInv'
    BY <1>0, <2>1, <2>3 DEF LifeInv
  <2>6. FlowInv'
    BY <1>0, <1>h, <2>1, FlowFrame DEF FlowInv
  <2>7. CaseInv'
    <3> HIDE DEF RecommendedActionForVerdict
    <3> QED BY <1>0, <2>1, <2>2 DEF CaseInv, LateIsInsufficient, CaseComplete
  <2>8. AuditInv'
    BY <1>0, <2>1 DEF AuditInv
  <2> QED BY <1>m, <2>4, <2>5, <2>6, <2>7, <2>8
<1>3. CASE CloseJoin
  <2>1. /\ closer = "join" /\ worker.pc \in {"none", "exited"} /\ closer' = "audit"
        /\ abandoned' = abandoned \cup Ids(slmQueue) /\ slmQueue' = << >>
        /\ UNCHANGED <<cancelled, waiting, closed, queueClosed, audit>>
    BY <1>3 DEF CloseJoin, Ids
  <2>2. abandoned' \subseteq Nat /\ slmQueue' \in Seq(Incident)
    BY <1>0, <2>1 DEF TypeInv, FlowInv
  <2>3. TypeInv'
    BY <1>0, <2>1, <2>2 DEF TypeInv
  <2>4. LifeInv'
    BY <1>0, <2>1 DEF LifeInv
  <2>5. FlowInv'
    <3>1. Len(slmQueue') = 0 /\ Ids(slmQueue)' = {} /\ Distinct(slmQueue)'
      BY <2>1 DEF Ids, Distinct
    <3>2. Delivered(done)' = Delivered(done)
      BY <1>0 DEF Delivered
    <3> QED BY <1>0, <1>h, <2>1, <3>1, <3>2, PipelineAssumption DEF FlowInv
  <2>6. CaseInv' /\ AuditInv'
    BY <1>0, <2>1 DEF CaseInv, LateIsInsufficient, CaseComplete, AuditInv
  <2> QED BY <1>m, <2>3, <2>4, <2>5, <2>6
<1>4. CASE CloseAudit
  <2>1. /\ closer = "audit" /\ closer' = "flush" /\ audit' = [audit EXCEPT !.closed = TRUE]
        /\ UNCHANGED <<slmQueue, cancelled, waiting, closed, queueClosed, abandoned>>
    BY <1>4 DEF CloseAudit
  <2>2. /\ audit' \in AuditRecords /\ audit'.queue = audit.queue /\ audit'.error = audit.error
        /\ audit'.written = audit.written /\ audit'.lost = audit.lost /\ audit'.late = audit.late
    BY <2>1 DEF TypeInv, AuditRecords
  <2>3. TypeInv'
    BY <1>0, <2>1, <2>2 DEF TypeInv
  <2>4. LifeInv'
    BY <1>0, <2>1, <2>2 DEF LifeInv
  <2>5. FlowInv'
    BY <1>0, <1>h, <2>1, <2>2, FlowFrame DEF FlowInv
  <2>6. CaseInv'
    BY <1>0, <2>1 DEF CaseInv, LateIsInsufficient, CaseComplete
  <2>7. AuditInv'
    <3>1. \A r : Kept(audit, r) => Kept(audit', r)
      BY <2>2 DEF Kept
    <3>2. closer' # "done"
      BY <2>1
    <3>3. worker' = worker /\ done' = done /\ results' = results
      BY <1>0
    <3> HIDE DEF PipeInv
    <3>4. AuditInv
      BY DEF PipeInv
    <3> QED
      BY <2>2, <3>1, <3>2, <3>3, <3>4 DEF AuditInv
  <2> QED BY <1>m, <2>3, <2>4, <2>5, <2>6, <2>7
<1>5. CASE CloseFlush
  <2>1. /\ closer = "flush" /\ closer' \in {"done", "failed"} /\ audit.queue = << >>
        /\ closer' = "done" => ~audit.error
        /\ UNCHANGED <<slmQueue, cancelled, waiting, closed, queueClosed, audit, abandoned>>
    BY <1>5 DEF CloseFlush
  <2>2. TypeInv' /\ LifeInv'
    BY <1>0, <2>1 DEF TypeInv, LifeInv
  <2>3. FlowInv'
    BY <1>0, <1>h, <2>1, FlowFrame DEF FlowInv
  <2>4. CaseInv' /\ AuditInv'
    BY <1>0, <2>1 DEF CaseInv, LateIsInsufficient, CaseComplete, AuditInv
  <2> QED BY <1>m, <2>2, <2>3, <2>4
<1> QED BY <1>1, <1>2, <1>3, <1>4, <1>5 DEF Close

LEMMA StutterInv ==
  ASSUME PipeInv, UNCHANGED vars
  PROVE  PipeInv'
<1>1. UNCHANGED <<rep, call, calls, slmQueue, worker, cancelled, closer, waiting, closed, queueClosed,
                  audit, sent, done, abandoned, results, panic>>
  BY DEF vars, lifeVars
<1>2. TypeInv' /\ LifeInv'
  BY <1>1 DEF PipeInv, TypeInv, LifeInv
<1>3. FlowInv'
  BY <1>1, FlowFrame DEF PipeInv, FlowInv, Hand
<1>4. CaseInv' /\ AuditInv' /\ MetInv'
  BY <1>1 DEF PipeInv, CaseInv, LateIsInsufficient, CaseComplete, AuditInv, MetInv, Meeting
<1> QED BY <1>2, <1>3, <1>4 DEF PipeInv

LEMMA PipeInvariance == Spec => []PipeInv
<1>1. PipeInv /\ [Next]_vars => PipeInv'
  <2> SUFFICES ASSUME PipeInv, [Next]_vars PROVE PipeInv'
    OBVIOUS
  <2>1. ASSUME NEW c \in Callers, NEW p \in Packets, EvaluatePacket(c, p) PROVE PipeInv'
    BY <2>1, EvaluateInv
  <2>2. ASSUME NEW c \in Callers, Drop(c) PROVE PipeInv'
    BY <2>2, DropInv
  <2>3. ASSUME NEW c \in Callers, NEW track \in Tracked, Decide(c, track) PROVE PipeInv'
    BY <2>3, DecideInv
  <2>4. CASE Reload
    BY <2>4, ReloadInv
  <2>5. CASE StartArbitratorWorker \/ CancelContext \/ WorkerExit
    BY <2>5, WorkerLifeInv
  <2>6. CASE Receive
    BY <2>6, ReceiveInv
  <2>7. CASE ApplyDeterministicVeto
    BY <2>7, VetoInv
  <2>8. CASE WorkerLog
    BY <2>8, WorkerLogInv
  <2>9. CASE Callback
    BY <2>9, CallbackInv
  <2>10. ASSUME NEW a \in Answers, Arbitrate(a) PROVE PipeInv'
    BY <2>10, ArbitrateInv
  <2>11. ASSUME NEW ok \in BOOLEAN, WriteAudit(ok) PROVE PipeInv'
    BY <2>11, WriteInv
  <2>12. CASE Close
    BY <2>12, CloseInv
  <2>13. CASE UNCHANGED vars
    BY <2>13, StutterInv
  <2> QED
    BY <2>1, <2>2, <2>3, <2>4, <2>5, <2>6, <2>7, <2>8, <2>9, <2>10, <2>11, <2>12, <2>13
    DEF Next, Worker, Closed
<1> QED BY <1>1, InitInv, PTL DEF Spec

-----------------------------------------------------------------------------
(* The parts of the invariant are what the properties ask.                 *)
LEMMA HandoverHolds == PipeInv => Handover
<1> SUFFICES ASSUME PipeInv PROVE Handover
  OBVIOUS
<1> USE DEF PipeInv
<1>1. TypeOK
  BY WorkerShape DEF TypeOK, TypeInv, FlowInv, Holding
<1>2. NoPanic
  BY DEF NoPanic, LifeInv
<1>3. Conserved
  <2> DEFINE places == <<Ids(slmQueue), Hand(worker), Delivered(done), abandoned>>
  <2>1. \A i, j \in 1 .. 4 : i # j => places[i] \cap places[j] = {}
    <3>1. /\ places[1] = Ids(slmQueue) /\ places[2] = Hand(worker)
          /\ places[3] = Delivered(done) /\ places[4] = abandoned
      OBVIOUS
    <3>2. /\ places[1] \cap places[2] = {} /\ places[1] \cap places[3] = {}
          /\ places[1] \cap places[4] = {} /\ places[2] \cap places[3] = {}
          /\ places[2] \cap places[4] = {} /\ places[3] \cap places[4] = {}
      BY <3>1 DEF FlowInv
    <3>3. \A i \in 1 .. 4 : i = 1 \/ i = 2 \/ i = 3 \/ i = 4
      OBVIOUS
    <3> HIDE DEF places
    <3> QED BY <3>2, <3>3
  <2>2. sent = Ids(slmQueue) \cup Hand(worker) \cup Delivered(done) \cup abandoned
    BY DEF FlowInv
  <2> QED BY <2>1, <2>2 DEF Conserved, Ids, Hand, Holding, Delivered
<1> QED BY <1>1, <1>2, <1>3 DEF Handover

LEMMA EvidenceHolds == PipeInv => EvidenceTrue
<1> SUFFICES ASSUME PipeInv PROVE EvidenceTrue
  OBVIOUS
<1> USE DEF PipeInv
<1>1. ASSUME closer = "done", NEW r, Kept(audit, r) PROVE r \in audit.written
  <2>1. audit.queue = << >> /\ audit.lost = {}
    BY <1>1 DEF AuditInv
  <2> QED BY <1>1, <2>1 DEF Kept
<1>2. AuditComplete
  BY <1>1 DEF AuditComplete, AuditInv, LifeInv
<1> QED BY <1>2 DEF EvidenceTrue, CaseInv

(* A call that ends is justified by the tables it met.                     *)
LEMMA EndJustified ==
  ASSUME PipeInv, [Next]_vars, NEW c \in Callers, call[c].pc # "idle", call'[c].pc = "idle",
         NEW r \in results' \ results
  PROVE  Justified(call[c].packet, call[c].met, r.decision)
<1> USE DEF PipeInv
<1>0. call[c] \in CallRecords /\ Meeting(call[c]) /\ call \in [Callers -> {Idle} \cup CallRecords]
  BY DEF TypeInv, Idle, MetInv
<1>1. ASSUME NEW b \in Callers, Drop(b) PROVE Justified(call[c].packet, call[c].met, r.decision)
  <2>1. b = c
    BY <1>0, <1>1 DEF Drop
  <2>2. call[c].pc = "drop" /\ r.decision = "FastDrop"
    BY <1>1, <2>1 DEF Drop, Result
  <2> QED BY <1>0, <2>2 DEF Justified, Meeting
<1>2. ASSUME NEW b \in Callers, NEW track \in Tracked, Decide(b, track)
      PROVE  Justified(call[c].packet, call[c].met, r.decision)
  <2>1. b = c
    BY <1>0, <1>2 DEF Decide
  <2>2. /\ call[c].pc = "decide" /\ r.decision \in {"FastPass", "EscalateSLM", "QueueFull"}
        /\ r.decision = "FastPass" => ~Escalates(call[c].packet, track, rep)
    BY <1>2, <2>1 DEF Decide, Result
  <2>3. /\ rep \in call[c].met /\ \E t \in call[c].met : call[c].packet \notin t.blocks
    BY <1>0, <2>2 DEF Meeting
  <2>4. r.decision = "FastPass" /\ call[c].packet.dense => call[c].packet \in rep.allows
    BY <2>2 DEF Escalates, Exempt
  <2> QED BY <2>2, <2>3, <2>4 DEF Justified
<1>3. ASSUME NEW b \in Callers, NEW p \in Packets, EvaluatePacket(b, p) PROVE FALSE
  <2>1. call'[c] = call[c] \/ (b = c /\ call[b].pc = "idle")
    BY <1>0, <1>3, EvaluateEffect
  <2> QED BY <2>1
<1>4. CASE ~ (\E b \in Callers : \/ \E p \in Packets : EvaluatePacket(b, p)
                                 \/ Drop(b)
                                 \/ \E track \in Tracked : Decide(b, track))
  <2>1. results' = results
    BY <1>4 DEF Next, Reload, StartArbitratorWorker, CancelContext, Worker, Receive, WorkerExit,
                ApplyDeterministicVeto, WorkerLog, Callback, Arbitrate, WriteAudit, Close, CloseBegin,
                CloseLocked, CloseJoin, CloseAudit, CloseFlush, Closed, vars, environment, rest
  <2> QED BY <2>1
<1> QED BY <1>1, <1>2, <1>3, <1>4

(* EvaluatePacket, the worker, the audit and Close of pipeline.go, in every*)
(* order and for queues of any size: no send on a closed channel, no       *)
(* incident lost or doubled, no decision missing from an audit that closed *)
(* without an error, and no decision without a table that was in service.  *)
THEOREM PipelineIsSound == Spec => PipelineSound
<1>1. PipeInv => Handover /\ EvidenceTrue
  BY HandoverHolds, EvidenceHolds
<1>2. PipeInv /\ [Next]_vars =>
        [\A c \in Callers : call[c].pc # "idle" /\ call'[c].pc = "idle" =>
           \A r \in results' \ results : Justified(call[c].packet, call[c].met, r.decision)]_vars
  BY EndJustified
<1> QED BY <1>1, <1>2, PipeInvariance, PTL DEF Spec, PipelineSound, TablesMet

-----------------------------------------------------------------------------
(* The reputation table.                                                   *)

(* A non-empty set of numbers has a least one.                             *)
LEMMA NatMinimum ==
  ASSUME NEW T \in SUBSET Nat, T # {}
  PROVE  \E x \in T : \A y \in T : x <= y
<1> DEFINE R == {ss \in Nat \X Nat : ss[1] < ss[2]}
<1>1. IsWellFoundedOn(R, Nat)
  <2>1. OpToRel(<, Nat) = R
    BY DEF OpToRel
  <2> QED
    BY <2>1, NatLessThanWellFounded
<1>2. PICK x \in T : \A y \in T : ~(<<y, x>> \in R)
  BY <1>1, WFMin
<1>3. \A y \in T : x <= y
  <2> SUFFICES ASSUME NEW y \in T, ~(x <= y) PROVE FALSE
    OBVIOUS
  <2>1. x \in Nat /\ y \in Nat /\ y < x
    OBVIOUS
  <2>2. <<y, x>> \in R
    BY <2>1
  <2> QED
    BY <2>2, <1>2
<1> QED
  BY <1>3

Entries == [domain : Domains, class : 1 .. 4, kind : {Exact, Subtree}]
OneEach(table) == \A e, f \in table : e.domain = f.domain /\ e.kind = f.kind => e = f

(* The front of a sequence.                                                *)
LEMMA FrontAt ==
  ASSUME NEW S, NEW s \in Seq(S), NEW k \in Nat, k <= Len(s)
  PROVE  \A i \in 1 .. k : SubSeq(s, 1, k)[i] = s[i]
  OBVIOUS

(* A suffix is read from the end of the name.                              *)
LEMMA SuffixAt ==
  ASSUME NEW d, NEW n, d \in Seq(Range(d)), n \in Seq(Range(n)), IsSuffix(d, n)
  PROVE  Len(d) <= Len(n) /\ \A j \in 1 .. Len(d) : d[j] = n[Len(n) - Len(d) + j]
<1>1. PICK a \in Nat, b \in Nat : a = Len(d) /\ b = Len(n)
  OBVIOUS
<1> DEFINE rd == [i \in 1 .. a |-> d[(a - i) + 1]]
           rn == [i \in 1 .. b |-> n[(b - i) + 1]]
<1>2. Reverse(d) = rd /\ Reverse(n) = rn
  BY <1>1 DEF Reverse
<1>3. rd \in Seq(Range(d)) /\ Len(rd) = a /\ rn \in Seq(Range(n)) /\ Len(rn) = b
  <2>1. \A i \in 1 .. a : (a - i) + 1 \in 1 .. a
    OBVIOUS
  <2>2. \A i \in 1 .. b : (b - i) + 1 \in 1 .. b
    OBVIOUS
  <2>3. rd \in [1 .. a -> Range(d)] /\ rn \in [1 .. b -> Range(n)]
    BY <1>1, <2>1, <2>2
  <2> QED
    BY <2>3
<1>4. a <= b /\ SubSeq(rd, 1, a) = SubSeq(rn, 1, a)
  BY <1>1, <1>2, <1>3 DEF IsSuffix, IsPrefix
<1>5. \A i \in 1 .. a : rd[i] = rn[i]
  <2>1. \A i \in 1 .. a : SubSeq(rd, 1, a)[i] = rd[i] /\ SubSeq(rn, 1, a)[i] = rn[i]
    <3> HIDE DEF rd, rn
    <3> QED
      BY <1>3, <1>4, FrontAt
  <2> QED
    BY ZenonT(30), <1>4, <2>1
<1>6. ASSUME NEW j \in 1 .. a PROVE d[j] = n[b - a + j]
  <2>1. a - j + 1 \in 1 .. a /\ a - j + 1 \in 1 .. b /\ (a - (a - j + 1)) + 1 = j /\ (b - (a - j + 1)) + 1 = b - a + j
    BY <1>4
  <2>2. rd[a - j + 1] = d[j] /\ rn[a - j + 1] = n[b - a + j]
    BY <2>1
  <2> QED
    BY <1>5, <2>1, <2>2
<1> QED
  BY <1>1, <1>4, <1>6

(* Two suffixes of the same length are the same.                           *)
LEMMA SuffixUnique ==
  ASSUME NEW d, NEW e, NEW n, d \in Seq(Range(d)), e \in Seq(Range(e)), n \in Seq(Range(n)),
         IsSuffix(d, n) \/ d = n, IsSuffix(e, n) \/ e = n, Len(d) = Len(e)
  PROVE  d = e
<1>1. \A x : x \in Seq(Range(x)) /\ (IsSuffix(x, n) \/ x = n) =>
        Len(x) <= Len(n) /\ \A j \in 1 .. Len(x) : x[j] = n[Len(n) - Len(x) + j]
  <2> SUFFICES ASSUME NEW x, x \in Seq(Range(x)), IsSuffix(x, n) \/ x = n
               PROVE  Len(x) <= Len(n) /\ \A j \in 1 .. Len(x) : x[j] = n[Len(n) - Len(x) + j]
    OBVIOUS
  <2>1. CASE IsSuffix(x, n)
    BY <2>1, SuffixAt
  <2>2. CASE x = n
    <3>1. PICK b \in Nat : b = Len(n)
      OBVIOUS
    <3>2. \A j \in 1 .. b : b - b + j = j
      OBVIOUS
    <3> QED
      BY <2>2, <3>1, <3>2
  <2> QED
    BY <2>1, <2>2
<1>2. PICK a \in Nat : a = Len(d) /\ a = Len(e)
  OBVIOUS
<1>3. \A j \in 1 .. a : d[j] = e[j]
  BY <1>1, <1>2
<1>4. d \in [1 .. a -> Range(d)] /\ e \in [1 .. a -> Range(e)]
  BY <1>2, LenProperties
<1> QED
  BY <1>3, <1>4

(* The candidates for a name are entries whose domains are suffixes of it. *)
LEMMA CandidateShape ==
  ASSUME NEW table \in SUBSET Entries, NEW n \in Domains, NEW e \in Candidates(table, n)
  PROVE  /\ e \in table /\ e.domain \in Seq(Range(e.domain)) /\ n \in Seq(Range(n)) /\ e.class \in 1 .. 4 /\ e.kind \in {1, 2}
         /\ IsSuffix(e.domain, n) \/ e.domain = n
         /\ Len(e.domain) \in Nat /\ Len(e.domain) <= Len(n)
<1>1. e \in table /\ (IsSuffix(e.domain, n) \/ e.domain = n)
  BY DEF Candidates
<1>2. e.domain \in Domains /\ e.class \in 1 .. 4 /\ e.kind \in {1, 2}
  BY <1>1 DEF Entries, Exact, Subtree
<1>3. e.domain \in Seq(Range(e.domain)) /\ n \in Seq(Range(n))
  BY <1>2, ReputationAssumption
<1>4. Len(e.domain) \in Nat /\ Len(n) \in Nat
  BY <1>3
<1>5. Len(e.domain) <= Len(n)
  BY <1>1, <1>3, <1>4, SuffixAt
<1> QED
  BY <1>1, <1>2, <1>3, <1>4, <1>5

(* Among the candidates of one class the longest one, exact if it can be,  *)
(* beats every other.                                                      *)
LEMMA BestOfClass ==
  ASSUME NEW table \in SUBSET Entries, OneEach(table), NEW n \in Domains, NEW class,
         \E e \in Candidates(table, n) : e.class = class
  PROVE  \E e \in Candidates(table, n) : e.class = class
           /\ \A f \in Candidates(table, n) \ {e} : f.class = class => Beats(e, f)
<1> DEFINE C == {e \in Candidates(table, n) : e.class = class}
           T == {Len(n) - Len(e.domain) : e \in C}
<1>1. Len(n) \in Nat /\ \A e \in C : Len(e.domain) \in Nat /\ Len(e.domain) <= Len(n)
  BY CandidateShape, ReputationAssumption
<1>2. T \in SUBSET Nat /\ T # {}
  BY <1>1
<1>3. PICK x \in T : \A y \in T : x <= y
  BY <1>2, NatMinimum
<1>4. PICK e \in C : x = Len(n) - Len(e.domain)
  BY <1>3
<1>5. \A f \in C : Len(f.domain) <= Len(e.domain)
  <2> SUFFICES ASSUME NEW f \in C PROVE Len(f.domain) <= Len(e.domain)
    OBVIOUS
  <2>1. Len(n) - Len(f.domain) \in T
    OBVIOUS
  <2>2. Len(n) - Len(e.domain) <= Len(n) - Len(f.domain)
    BY <1>3, <1>4, <2>1
  <2>3. \A a, b, c \in Nat : a - b <= a - c => c <= b
    OBVIOUS
  <2> QED
    BY <1>1, <2>2, <2>3
<1>6. \A f \in C : Len(f.domain) = Len(e.domain) => f.domain = e.domain
  <2> SUFFICES ASSUME NEW f \in C, Len(f.domain) = Len(e.domain) PROVE f.domain = e.domain
    OBVIOUS
  <2>1. /\ e.domain \in Seq(Range(e.domain)) /\ n \in Seq(Range(n)) /\ (IsSuffix(e.domain, n) \/ e.domain = n)
        /\ f.domain \in Seq(Range(f.domain)) /\ (IsSuffix(f.domain, n) \/ f.domain = n)
    BY CandidateShape
  <2> QED
    BY <2>1, SuffixUnique
<1>7. PICK g \in C : g.domain = e.domain /\ \A f \in C : f.domain = e.domain => g.kind <= f.kind
  <2>1. \A f \in C : f.kind \in {1, 2}
    BY CandidateShape
  <2>2. CASE \E f \in C : f.domain = e.domain /\ f.kind = 1
    BY <2>1, <2>2
  <2>3. CASE ~\E f \in C : f.domain = e.domain /\ f.kind = 1
    BY <2>1, <2>3
  <2> QED
    BY <2>2, <2>3
<1>8. ASSUME NEW f \in Candidates(table, n) \ {g}, f.class = class PROVE Beats(g, f)
  <2>1. f \in C /\ f.class = g.class
    BY <1>8
  <2>2. CASE Len(f.domain) # Len(e.domain)
    <3>1. Len(g.domain) > Len(f.domain)
      BY <1>1, <1>5, <1>7, <2>1, <2>2
    <3> QED
      BY <2>1, <3>1 DEF Beats
  <2>3. CASE Len(f.domain) = Len(e.domain)
    <3>1. f.domain = g.domain /\ g.kind <= f.kind /\ g.kind \in {1, 2} /\ f.kind \in {1, 2}
      BY <1>6, <1>7, <2>1, <2>3, CandidateShape
    <3>2. f.kind # g.kind
      BY <1>8, <2>1, <3>1, CandidateShape DEF OneEach
    <3> QED
      BY <2>1, <3>1, <3>2 DEF Beats
  <2> QED
    BY <2>2, <2>3
<1> QED
  BY <1>8

(* Match answers with the class of a candidate that beats all others.      *)
LEMMA BestCandidate ==
  ASSUME NEW table \in SUBSET Entries, OneEach(table), NEW n \in Domains, Candidates(table, n) # {}
  PROVE  \E e \in Candidates(table, n) : /\ Match(table, n) = e.class
                                         /\ \A f \in Candidates(table, n) \ {e} : Beats(e, f)
<1> DEFINE C == Candidates(table, n)
           Has(k) == \E e \in C : e.class = k
<1>1. \A e \in C : e.class \in 1 .. 4
  BY CandidateShape
<1>2. PICK k \in 1 .. 4 : Has(k) /\ \A e \in C : e.class # k => reputationRank(e.class) < reputationRank(k)
  <2>1. CASE Has(3)
    BY <1>1, <2>1 DEF reputationRank, Block
  <2>2. CASE ~Has(3) /\ Has(4)
    BY <1>1, <2>2 DEF reputationRank, Block
  <2>3. CASE ~Has(3) /\ ~Has(4) /\ Has(2)
    BY <1>1, <2>3 DEF reputationRank, Block
  <2>4. CASE ~Has(3) /\ ~Has(4) /\ ~Has(2)
    BY <1>1, <2>4 DEF reputationRank, Block
  <2> QED
    BY <2>1, <2>2, <2>3, <2>4
<1>3. PICK e \in C : e.class = k /\ \A f \in C \ {e} : f.class = k => Beats(e, f)
  BY SMTT(30), <1>2, BestOfClass
<1>4. \A f \in C \ {e} : Beats(e, f)
  BY <1>2, <1>3 DEF Beats
<1> DEFINE best == CHOOSE x \in C : \A f \in C \ {x} : Beats(x, f)
<1>5. best \in C /\ \A f \in C \ {best} : Beats(best, f)
  BY <1>4
<1>6. Match(table, n) = best.class
  BY DEF Match
<1> QED
  BY <1>5, <1>6

(* A name is blocked exactly when a candidate blocks it.                   *)
LEMMA BlockPrevails ==
  ASSUME NEW table \in SUBSET Entries, OneEach(table), NEW n \in Domains
  PROVE  Match(table, n) = Block <=> \E e \in Candidates(table, n) : e.class = Block
<1>1. CASE Candidates(table, n) = {}
  BY <1>1 DEF Match, Block
<1>2. CASE Candidates(table, n) # {}
  <2>1. PICK e \in Candidates(table, n) : /\ Match(table, n) = e.class
                                          /\ \A f \in Candidates(table, n) \ {e} : Beats(e, f)
    BY <1>2, BestCandidate
  <2>2. \A f \in Candidates(table, n) : f.class \in 1 .. 4
    BY CandidateShape
  <2>3. ASSUME NEW f \in Candidates(table, n), f.class = Block PROVE e.class = Block
    <3>1. e = f \/ Beats(e, f)
      BY <2>1
    <3>2. e.class \in 1 .. 4
      BY <2>2
    <3> QED
      BY <2>3, <3>1, <3>2 DEF Beats, reputationRank, Block
  <2> QED
    BY <2>1, <2>3
<1> QED
  BY <1>1, <1>2

(* A compilation of entries is a table with one entry for each domain and  *)
(* kind, and it keeps every block.                                         *)
Forced(e) == [e EXCEPT !.kind = IF e.domain \in Shared /\ e.class # Block THEN Exact ELSE @]

LEMMA ForcedEntry ==
  ASSUME NEW e \in Entries
  PROVE  Forced(e) \in Entries /\ Forced(e).class = e.class /\ Forced(e).domain = e.domain
         /\ (e.class = Block => Forced(e) = e)
  BY DEF Forced, Entries, Exact, Subtree

LEMMA Compiled ==
  ASSUME NEW entries \in SUBSET Entries
  PROVE  /\ CompileReputationSnapshot(entries) \in SUBSET Entries
         /\ OneEach(CompileReputationSnapshot(entries))
         /\ \A e \in entries : e.class = Block => e \in CompileReputationSnapshot(entries)
<1> DEFINE forced == {Forced(e) : e \in entries}
           table == {e \in forced : \A f \in forced : f.domain = e.domain /\ f.kind = e.kind
                       => reputationRank(f.class) <= reputationRank(e.class)}
<1>1. CompileReputationSnapshot(entries) = table
  BY DEF CompileReputationSnapshot, Forced
<1>2. forced \in SUBSET Entries
  BY ForcedEntry
<1>3. \A e \in forced : e.class \in 1 .. 4
  BY <1>2 DEF Entries
<1>4. OneEach(table)
  <2> SUFFICES ASSUME NEW e \in table, NEW f \in table, e.domain = f.domain, e.kind = f.kind PROVE e = f
    BY DEF OneEach
  <2>1. reputationRank(f.class) <= reputationRank(e.class) /\ reputationRank(e.class) <= reputationRank(f.class)
    OBVIOUS
  <2>2. e.class = f.class
    BY <1>3, <2>1 DEF reputationRank, Block
  <2>3. e \in Entries /\ f \in Entries
    BY <1>2
  <2> QED
    BY <2>2, <2>3 DEF Entries
<1>5. ASSUME NEW e \in entries, e.class = Block PROVE e \in table
  <2>1. e \in forced
    BY <1>5, ForcedEntry
  <2>2. \A f \in forced : reputationRank(f.class) <= reputationRank(e.class)
    BY <1>3, <1>5 DEF reputationRank, Block
  <2> QED
    BY <2>1, <2>2
<1> QED
  BY <1>1, <1>2, <1>4, <1>5

(* The inductive invariant.  A pass holds the mutex from its beginning to  *)
(* its end, so the table it replaces is the one it found: what it has read *)
(* of a source is at least as recent as what that table holds.             *)
Passes ==
  [pc : {"idle", "fetch"}, todo : Seq(SourceSet), got : SUBSET Entries, at : [SourceSet -> Nat],
   failed : SUBSET SourceSet, cancelled : BOOLEAN]

SyncTypeInv ==
  /\ active \in SUBSET Entries /\ OneEach(active)
  /\ activeAt \in [SourceSet -> Nat] /\ changes \in Nat
  /\ published \in [SourceSet -> UNION {Lists[s] : s \in SourceSet}]
  /\ \A s \in SourceSet : published[s] \in Lists[s]
  /\ lock \in Syncers \cup {"free"}
  /\ pass \in [Syncers -> Passes]

PassInv ==
  /\ \A s \in SourceSet : activeAt[s] <= changes /\ \A g \in Syncers : pass[g].at[s] <= changes
  /\ \A g \in Syncers : pass[g].pc = "fetch" => lock = g
  /\ \A g \in Syncers : pass[g].pc = "fetch" =>
       \A s \in SourceSet : s \in Range(pass[g].todo) \/ s \in pass[g].failed \/ pass[g].at[s] >= activeAt[s]

SyncInv == SyncTypeInv /\ PassInv

LEMMA IdleTyped == IdlePass \in Passes
  BY DEF IdlePass, Passes

LEMMA DefaultEntries == Default \in SUBSET Entries /\ Sources \in Seq(SourceSet)
  BY ReputationAssumption DEF Entries

LEMMA SyncInitially == ReputationInit => SyncInv
<1> SUFFICES ASSUME ReputationInit PROVE SyncInv
  OBVIOUS
<1>1. SyncTypeInv
  BY DefaultEntries, Compiled, IdleTyped DEF ReputationInit, SyncTypeInv
<1>2. PassInv
  BY DEF ReputationInit, PassInv, IdlePass
<1> QED
  BY <1>1, <1>2 DEF SyncInv

(* A list that a source publishes becomes entries.                         *)
LEMMA ListEntries ==
  ASSUME SyncTypeInv, NEW s \in SourceSet
  PROVE  ParseDomainList(published[s], s) \in SUBSET Entries
<1>1. published[s] \in Lists[s]
  BY DEF SyncTypeInv
<1>2. \A d \in published[s] : d \in Domains
  BY <1>1 DEF Domains
<1>3. ClassOf[s] \in 1 .. 4 /\ KindOf[s] \in {Exact, Subtree}
  BY ReputationAssumption
<1> QED
  BY <1>2, <1>3 DEF ParseDomainList, Entry, Entries

(* The mutex admits one pass.                                              *)
LEMMA BeginInv ==
  ASSUME SyncInv, NEW g \in Syncers, SyncOnce(g) PROVE SyncInv'
<1> USE DEF SyncInv
<1> DEFINE p == [IdlePass EXCEPT !.pc = "fetch", !.todo = Sources, !.got = Default]
<1>1. pass' = [pass EXCEPT ![g] = p] /\ lock = "free" /\ lock' = g
      /\ UNCHANGED <<active, activeAt, published, healthy, changes>>
  BY DEF SyncOnce, Begin, service, env
<1>2. p \in Passes /\ p.pc = "fetch" /\ p.todo = Sources /\ p.at = IdlePass.at
  BY IdleTyped, DefaultEntries DEF Passes, IdlePass
<1> HIDE DEF p
<1>3. SyncTypeInv'
  BY <1>1, <1>2 DEF SyncTypeInv
<1>4. pass' \in [Syncers -> Passes] /\ pass'[g] = p /\ \A h \in Syncers : h # g => pass'[h] = pass[h]
  BY <1>1, <1>2 DEF SyncTypeInv
<1>5. \A h \in Syncers : pass[h].pc # "fetch"
  BY <1>1, ReputationAssumption DEF PassInv
<1>6. \A s \in SourceSet : p.at[s] <= changes
  BY <1>2 DEF IdlePass, SyncTypeInv
<1>7. PassInv'
  BY <1>1, <1>2, <1>4, <1>5, <1>6 DEF PassInv, SourceSet
<1> QED
  BY <1>3, <1>7

LEMMA CancelInv ==
  ASSUME SyncInv, NEW g \in Syncers, Cancel(g) PROVE SyncInv'
<1> USE DEF SyncInv
<1> DEFINE p == [pass[g] EXCEPT !.cancelled = TRUE]
<1>1. pass' = [pass EXCEPT ![g] = p] /\ UNCHANGED <<active, activeAt, published, healthy, changes, lock>>
  BY DEF Cancel, service, env
<1>2. pass[g] \in Passes
  BY DEF SyncTypeInv
<1>3. p \in Passes /\ p.pc = pass[g].pc /\ p.todo = pass[g].todo /\ p.failed = pass[g].failed /\ p.at = pass[g].at
  BY <1>2 DEF Passes
<1> HIDE DEF p
<1>4. SyncTypeInv'
  BY <1>1, <1>3 DEF SyncTypeInv
<1>5. pass'[g] = p /\ \A h \in Syncers : h # g => pass'[h] = pass[h]
  BY <1>1, <1>3 DEF SyncTypeInv
<1>6. PassInv'
  BY <1>1, <1>3, <1>5 DEF PassInv
<1> QED
  BY <1>4, <1>6

(* What a source gives is as recent as the clock.                          *)
LEMMA FetchInv ==
  ASSUME SyncInv, NEW g \in Syncers, fetchSource(g) PROVE SyncInv'
<1> USE DEF SyncInv
<1> DEFINE s == Head(pass[g].todo)
           got == [pass[g] EXCEPT !.got = @ \cup ParseDomainList(published[s], s), !.at[s] = changes]
           missed == [pass[g] EXCEPT !.failed = @ \cup {s}]
           good == [got EXCEPT !.todo = Tail(@)]
           bad == [missed EXCEPT !.todo = Tail(@)]
           p == IF healthy[s] /\ ~pass[g].cancelled THEN good ELSE bad
<1>1. pass[g].pc = "fetch" /\ pass[g].todo # <<>> /\ pass' = [pass EXCEPT ![g] = p]
      /\ UNCHANGED <<active, activeAt, published, healthy, changes, lock>>
  BY DEF fetchSource, service, env
<1>2. pass[g] \in Passes /\ changes \in Nat
  BY DEF SyncTypeInv
<1>3. s \in SourceSet /\ Tail(pass[g].todo) \in Seq(SourceSet)
      /\ \A x \in Range(pass[g].todo) : x = s \/ x \in Range(Tail(pass[g].todo))
  <2>1. pass[g].todo \in Seq(SourceSet)
    BY <1>2 DEF Passes
  <2> HIDE DEF s
  <2> DEFINE q == pass[g].todo
  <2>2. q \in Seq(SourceSet) /\ q # <<>>
    BY <1>1, <2>1
  <2> HIDE DEF q
  <2>3. Head(q) \in SourceSet /\ Tail(q) \in Seq(SourceSet)
    BY <2>2
  <2>4. \A x \in Range(q) : x = Head(q) \/ x \in Range(Tail(q))
    <3> SUFFICES ASSUME NEW i \in DOMAIN q, i # 1 PROVE q[i] \in Range(Tail(q))
      BY <2>2 DEF Range
    <3>1. i \in 1 .. Len(q) /\ Len(q) \in Nat /\ Len(Tail(q)) = Len(q) - 1
      BY <2>2
    <3>2. i - 1 \in 1 .. Len(Tail(q)) /\ Tail(q)[i - 1] = q[i]
      BY <2>2, <3>1
    <3> QED
      BY <2>3, <3>2 DEF Range
  <2> QED
    BY <2>3, <2>4 DEF q, s
<1>4. ParseDomainList(published[s], s) \in SUBSET Entries
  BY <1>3, ListEntries
<1> HIDE DEF s
<1>5. good \in Passes /\ good.pc = "fetch" /\ good.todo = Tail(pass[g].todo) /\ good.failed = pass[g].failed
      /\ good.at[s] = changes /\ \A x \in SourceSet : x # s => good.at[x] = pass[g].at[x]
  BY <1>1, <1>2, <1>3, <1>4 DEF Passes
<1>6. bad \in Passes /\ bad.pc = "fetch" /\ bad.todo = Tail(pass[g].todo) /\ bad.failed = pass[g].failed \cup {s}
      /\ bad.at = pass[g].at
  BY <1>1, <1>2, <1>3 DEF Passes
<1> HIDE DEF good, bad
<1>7. p \in Passes /\ p.pc = "fetch"
  BY <1>5, <1>6
<1>8. ASSUME NEW x \in SourceSet
      PROVE  (x \in Range(p.todo) \/ x \in p.failed \/ p.at[x] >= activeAt[x]) /\ p.at[x] <= changes
  <2>1. x \in Range(pass[g].todo) \/ x \in pass[g].failed \/ pass[g].at[x] >= activeAt[x]
    BY <1>1 DEF PassInv
  <2>2. changes >= activeAt[x] /\ pass[g].at[x] <= changes /\ changes <= changes
    BY <1>2 DEF PassInv, SyncTypeInv
  <2> QED
    BY <1>3, <1>5, <1>6, <2>1, <2>2
<1> HIDE DEF p
<1>9. SyncTypeInv'
  BY <1>1, <1>7 DEF SyncTypeInv
<1>10. pass'[g] = p /\ \A h \in Syncers : h # g => pass'[h] = pass[h]
  BY <1>1 DEF SyncTypeInv
<1>11. PassInv'
  BY <1>1, <1>7, <1>8, <1>10 DEF PassInv
<1> QED
  BY <1>9, <1>11

(* The table that a pass puts in service.                                  *)
LEMMA EndPassEffect ==
  ASSUME SyncInv, NEW g \in Syncers, EndPass(g)
  PROVE  /\ active' \in SUBSET Entries /\ OneEach(active')
         /\ activeAt' \in [SourceSet -> Nat]
         /\ \A s \in SourceSet : activeAt[s] <= activeAt'[s]
         /\ pass[g].failed # {} => \A e \in active : e.class = Block => e \in active'
<1> USE DEF SyncInv
<1>1. pass[g] \in Passes
  BY DEF SyncTypeInv
<1>2. CASE pass[g].cancelled
  BY <1>2 DEF EndPass, service, SyncTypeInv
<1>3. CASE ~pass[g].cancelled
  <2>1. /\ active' = CompileReputationSnapshot(Merged(g))
        /\ activeAt' = [s \in SourceSet |-> IF s \in pass[g].failed THEN activeAt[s] ELSE pass[g].at[s]]
        /\ pass[g].pc = "fetch" /\ pass[g].todo = <<>>
    BY <1>3 DEF EndPass
  <2>2. Merged(g) \in SUBSET Entries /\ (pass[g].failed # {} => active \subseteq Merged(g))
    BY <1>1 DEF Merged, Passes, SyncTypeInv
  <2> HIDE DEF SyncInv
  <2>3. active' \in SUBSET Entries /\ OneEach(active') /\ \A e \in Merged(g) : e.class = Block => e \in active'
    BY <2>1, <2>2, Compiled
  <2>4. activeAt' \in [SourceSet -> Nat]
    BY <1>1, <2>1 DEF SyncInv, SyncTypeInv, Passes
  <2>5. \A s \in SourceSet : s \in pass[g].failed \/ pass[g].at[s] >= activeAt[s]
    <3>1. Range(pass[g].todo) = {}
      BY <2>1 DEF Range
    <3> QED
      BY <2>1, <3>1 DEF SyncInv, PassInv
  <2>6. \A s \in SourceSet : activeAt[s] <= activeAt'[s]
    <3>1. \A s \in SourceSet : activeAt[s] \in Nat /\ pass[g].at[s] \in Nat
      BY <1>1 DEF SyncInv, SyncTypeInv, Passes
    <3>2. \A s \in SourceSet : activeAt'[s] = IF s \in pass[g].failed THEN activeAt[s] ELSE pass[g].at[s]
      BY <2>1
    <3> QED
      BY <2>5, <3>1, <3>2
  <2> QED
    BY <2>2, <2>3, <2>4, <2>6
<1> QED
  BY <1>2, <1>3

LEMMA EndPassInv ==
  ASSUME SyncInv, NEW g \in Syncers, EndPass(g) PROVE SyncInv'
<1>1. /\ active' \in SUBSET Entries /\ OneEach(active')
      /\ activeAt' \in [SourceSet -> Nat]
  BY EndPassEffect
<1>2. pass[g].pc = "fetch" /\ pass' = [pass EXCEPT ![g] = IdlePass] /\ lock' = "free"
      /\ published' = published /\ changes' = changes
  BY DEF EndPass, env
<1>3. SyncTypeInv'
  BY <1>1, <1>2, IdleTyped DEF SyncInv, SyncTypeInv
<1>4. \A h \in Syncers : pass'[h].pc # "fetch"
  <2>1. lock = g /\ \A h \in Syncers : h # g => pass[h].pc # "fetch"
    BY <1>2 DEF SyncInv, PassInv
  <2> QED
    BY <1>2, <2>1 DEF SyncInv, SyncTypeInv, IdlePass
<1>5. \A s \in SourceSet : activeAt'[s] <= changes
  <2>1. CASE pass[g].cancelled
    BY <2>1 DEF EndPass, service, SyncInv, PassInv
  <2>2. CASE ~pass[g].cancelled
    <3>1. \A s \in SourceSet : activeAt'[s] = IF s \in pass[g].failed THEN activeAt[s] ELSE pass[g].at[s]
      BY <2>2 DEF EndPass
    <3>2. \A s \in SourceSet : activeAt[s] <= changes /\ pass[g].at[s] <= changes
      BY DEF SyncInv, PassInv
    <3> QED
      BY <3>1, <3>2
  <2> QED
    BY <2>1, <2>2
<1>6. \A s \in SourceSet, h \in Syncers : pass'[h].at[s] <= changes
  <2>1. \A s \in SourceSet : IdlePass.at[s] <= changes
    BY DEF IdlePass, SyncInv, SyncTypeInv
  <2>2. \A h \in Syncers : pass'[h] = IdlePass \/ pass'[h] = pass[h]
    BY <1>2 DEF SyncInv, SyncTypeInv
  <2> QED
    BY <2>1, <2>2 DEF SyncInv, PassInv
<1>7. PassInv'
  BY <1>2, <1>4, <1>5, <1>6 DEF PassInv
<1> QED
  BY <1>3, <1>7 DEF SyncInv

LEMMA ChangeInv ==
  ASSUME SyncInv, NEW s \in SourceSet, Change(s) PROVE SyncInv'
<1>1. changes' = changes + 1 /\ UNCHANGED <<active, activeAt, lock, pass>>
  BY DEF Change, service
<1>2. published' = published \/ \E l \in Lists[s] : published' = [published EXCEPT ![s] = l]
  BY DEF Change
<1>3. published' \in [SourceSet -> UNION {Lists[x] : x \in SourceSet}] /\ \A x \in SourceSet : published'[x] \in Lists[x]
  BY <1>2 DEF SyncInv, SyncTypeInv
<1>4. SyncTypeInv'
  BY <1>1, <1>3 DEF SyncInv, SyncTypeInv
<1>5. \A x \in SourceSet : activeAt[x] <= changes' /\ \A g \in Syncers : pass[g].at[x] <= changes'
  <2>1. \A x \in SourceSet : activeAt[x] \in Nat /\ \A g \in Syncers : pass[g].at[x] \in Nat
    BY DEF SyncInv, SyncTypeInv, Passes
  <2>2. changes \in Nat /\ \A x \in SourceSet : activeAt[x] <= changes /\ \A g \in Syncers : pass[g].at[x] <= changes
    BY DEF SyncInv, SyncTypeInv, PassInv
  <2>3. \A a, b \in Nat : a <= b => a <= b + 1
    OBVIOUS
  <2> QED
    BY <1>1, <2>1, <2>2, <2>3
<1>6. PassInv'
  BY <1>1, <1>5 DEF SyncInv, PassInv
<1> QED
  BY <1>4, <1>6 DEF SyncInv

LEMMA SyncInvariance == ReputationSpec => []SyncInv
<1>1. ASSUME SyncInv, [ReputationNext]_reputationVars PROVE SyncInv'
  <2>1. CASE UNCHANGED reputationVars
    BY <1>1, <2>1 DEF reputationVars, SyncInv, SyncTypeInv, PassInv
  <2>2. ASSUME NEW g \in Syncers, Sync(g) \/ Cancel(g) PROVE SyncInv'
    BY <1>1, <2>2, BeginInv, CancelInv, FetchInv, EndPassInv DEF Sync
  <2>3. ASSUME NEW s \in SourceSet, Change(s) PROVE SyncInv'
    BY <1>1, <2>3, ChangeInv
  <2> QED
    BY <1>1, <2>1, <2>2, <2>3 DEF ReputationNext
<1> QED
  BY <1>1, SyncInitially, PTL DEF ReputationSpec

(* A block in the table answers for its domain and, as a subtree, for      *)
(* every name under it.                                                    *)
LEMMA TableHolds == SyncInv => TableSound
<1> SUFFICES ASSUME SyncInv PROVE TableSound
  OBVIOUS
<1>1. active \in SUBSET Entries /\ OneEach(active) /\ lock \in Syncers \cup {"free"}
  BY DEF SyncInv, SyncTypeInv
<1>2. TableTypeOK
  BY <1>1 DEF TableTypeOK, OneEach, Entries
<1>3. ASSUME NEW e \in active, e.class = Block PROVE Match(active, e.domain) = Block
  <2>1. e.domain \in Domains /\ e \in Candidates(active, e.domain)
    BY <1>1, <1>3 DEF Entries, Candidates
  <2> QED
    BY <1>1, <1>3, <2>1, BlockPrevails
<1>4. ASSUME NEW e \in active, e.class = Block, e.kind = Subtree, NEW n \in Names, IsSuffix(e.domain, n)
      PROVE  Match(active, n) = Block
  <2>1. n \in Domains /\ e \in Candidates(active, n)
    BY <1>1, <1>4 DEF Domains, Candidates
  <2> QED
    BY <1>1, <1>4, <2>1, BlockPrevails
<1>5. BlockWins
  BY <1>3, <1>4 DEF BlockWins
<1> QED
  BY <1>2, <1>5 DEF TableSound

(* The table in service is well formed at every moment, and a block in it  *)
(* answers for its domain and its subtree whatever allowances the table    *)
(* holds: the classification that Match returns is that of the block.      *)
THEOREM TableIsSound == ReputationSpec => []TableSound
  BY SyncInvariance, TableHolds, PTL

(* A table that keeps the blocks of another one blocks what it blocks.     *)
LEMMA BlocksKept ==
  ASSUME NEW old \in SUBSET Entries, OneEach(old), NEW new \in SUBSET Entries, OneEach(new),
         \A e \in old : e.class = Block => e \in new,
         NEW n \in Names, Match(old, n) = Block
  PROVE  Match(new, n) = Block
<1>1. n \in Domains
  BY DEF Domains
<1>2. PICK e \in Candidates(old, n) : e.class = Block
  BY <1>1, BlockPrevails
<1>3. e \in Candidates(new, n)
  BY <1>2 DEF Candidates
<1> QED
  BY <1>1, <1>2, <1>3, BlockPrevails

(* Only the end of a pass changes the table.                               *)
LEMMA TableStep ==
  ASSUME SyncInv, [ReputationNext]_reputationVars
  PROVE  \/ UNCHANGED <<active, activeAt>>
         \/ \E g \in Syncers : EndPass(g)
  BY DEF ReputationNext, Sync, SyncOnce, Begin, Cancel, fetchSource, Change, service, reputationVars

LEMMA BlocksStep ==
  ASSUME SyncInv, [ReputationNext]_reputationVars, active' # active,
         NEW g \in Syncers, pass[g].pc = "fetch", pass'[g].pc = "idle", pass[g].failed # {},
         NEW n \in Names, Match(active, n) = Block
  PROVE  Match(active', n) = Block
<1>1. PICK h \in Syncers : EndPass(h)
  BY TableStep
<1>2. h = g
  BY <1>1 DEF EndPass, SyncInv, PassInv
<1>3. /\ active' \in SUBSET Entries /\ OneEach(active')
      /\ \A e \in active : e.class = Block => e \in active'
  BY <1>1, <1>2, EndPassEffect
<1>4. active \in SUBSET Entries /\ OneEach(active)
  BY DEF SyncInv, SyncTypeInv
<1> QED
  BY <1>3, <1>4, BlocksKept

LEMMA RecentStep ==
  ASSUME SyncInv, [ReputationNext]_reputationVars, NEW s \in SourceSet
  PROVE  activeAt'[s] >= activeAt[s]
<1>1. activeAt[s] \in Nat
  BY DEF SyncInv, SyncTypeInv
<1>2. CASE UNCHANGED <<active, activeAt>>
  BY <1>1, <1>2
<1>3. ASSUME NEW g \in Syncers, EndPass(g) PROVE activeAt'[s] >= activeAt[s]
  <2>1. activeAt'[s] \in Nat /\ activeAt[s] <= activeAt'[s]
    BY <1>3, EndPassEffect
  <2> QED
    BY <1>1, <2>1
<1> QED
  BY <1>2, <1>3, TableStep

(* However many goroutines call SyncOnce and whatever the sources do, a    *)
(* pass in which a source failed unblocks no name, and no pass puts in     *)
(* service a reading of a source older than the one it replaces.           *)
THEOREM TableIsKept == ReputationSpec => TableKept
<1>1. ReputationSpec => FailureKeepsBlocks
  <2>1. ASSUME SyncInv, [ReputationNext]_reputationVars
        PROVE  [active' # active /\ (\E g \in Syncers : pass[g].pc = "fetch" /\ pass'[g].pc = "idle" /\ pass[g].failed # {})
                  => \A n \in Names : Match(active, n) = Block => Match(active', n) = Block]_reputationVars
    BY <2>1, BlocksStep
  <2> QED
    BY <2>1, SyncInvariance, PTL DEF ReputationSpec, FailureKeepsBlocks
<1>2. ReputationSpec => NeverOlder
  <2>1. ASSUME SyncInv, [ReputationNext]_reputationVars
        PROVE  [\A s \in SourceSet : activeAt'[s] >= activeAt[s]]_reputationVars
    BY <2>1, RecentStep
  <2> QED
    BY <2>1, SyncInvariance, PTL DEF ReputationSpec, NeverOlder
<1> QED
  BY <1>1, <1>2 DEF TableKept

-----------------------------------------------------------------------------
(* The temporal tracker.                                                   *)

(* A non-empty set of numbers has a minimum; one that is bounded has a     *)
(* maximum.                                                                *)
LEMMA MinOf ==
  ASSUME NEW T \in SUBSET Nat, T # {}
  PROVE  Min(T) \in T /\ \A y \in T : Min(T) <= y
  BY NatMinimum DEF Min

LEMMA MaxOf ==
  ASSUME NEW T \in SUBSET Nat, T # {}, NEW n \in Nat, \A x \in T : x <= n
  PROVE  Max(T) \in T /\ \A y \in T : y <= Max(T)
<1> DEFINE U == {n - x : x \in T}
<1>1. U \in SUBSET Nat /\ U # {}
  <2>1. \A x \in T : n - x \in Nat
    OBVIOUS
  <2> QED
    BY <2>1
<1>2. PICK u \in U : \A v \in U : u <= v
  BY <1>1, NatMinimum
<1>3. PICK x \in T : u = n - x
  BY <1>2
<1>4. \A y \in T : x >= y
  <2> SUFFICES ASSUME NEW y \in T PROVE x >= y
    OBVIOUS
  <2>1. n - y \in U
    OBVIOUS
  <2>2. n - x <= n - y /\ x \in Nat /\ y \in Nat
    BY <1>2, <1>3, <2>1
  <2> QED
    BY <2>2
<1>5. Max(T) \in T /\ \A y \in T : Max(T) >= y
  BY <1>4 DEF Max
<1> QED
  BY <1>5

Places == 0 .. MaxTrackedDomains - 1
AllBits == UNION {Bits[x] : x \in Subs}
SlotRecord ==
  [domain : ParentDomains \cup {Free}, times : [0 .. Window - 1 -> Nat], head : 0 .. Window - 1,
   count : 0 .. Window, last : Nat, bloom : SUBSET AllBits, unique : Nat]
Queried == [time : Times, sub : Subs \cup {NoSub}]

(* The place of the ring after a place.                                    *)
Ahead(a) == IF a + 1 < Window THEN a + 1 ELSE 0

(* The place of the ring where the query is that came j before the last.   *)
Back(head, j) == IF head - 1 - j >= 0 THEN head - 1 - j ELSE head - 1 - j + Window

(* Whether a filter counts the members of a set.                           *)
Counts(s, R) ==
  /\ IsFiniteSet(R) /\ s.bloom = UNION {Bits[x] : x \in R}
  /\ s.unique <= Cardinality(R) /\ (R # {} => s.unique > 0)

(* The times and the subdomains of a slot are those of the current run.    *)
RunLength(h) == Len(h) - RunStart(h) + 1
RunSubs(h) == {h[i].sub : i \in RunStart(h) .. Len(h)} \ {NoSub}
RingMatches(s, h) ==
  /\ Len(h) >= 1 /\ s.last = h[Len(h)].time
  /\ s.count = IF RunLength(h) < Window THEN RunLength(h) ELSE Window
  /\ \A j \in 0 .. s.count - 1 : s.times[Back(s.head, j)] = h[Len(h) - j].time
Matches(s, h) == RingMatches(s, h) /\ Counts(s, RunSubs(h))

TrackerTypeInv ==
  /\ slot \in [Places -> SlotRecord] /\ hist \in [ParentDomains -> Seq(Queried)]
  /\ evictions \in Nat
SlotInv ==
  \A i \in Places : slot[i].domain # Free =>
    Matches(slot[i], hist[slot[i].domain])
TrackerInv == TrackerTypeInv /\ OneSlot /\ SlotInv /\ AnswerFromRun /\ NeverOvercounts

-----------------------------------------------------------------------------
(* A run begins within its history, at the last break.                     *)
LEMMA RunStartIn ==
  ASSUME NEW h \in Seq(Queried), Len(h) >= 1
  PROVE  /\ RunStart(h) \in 1 .. Len(h) /\ RunStart(h) \in Breaks(h) \cup {1}
         /\ \A b \in Breaks(h) \cup {1} : b <= RunStart(h)
<1> DEFINE T == Breaks(h) \cup {1}
<1>1. T \in SUBSET Nat /\ T # {} /\ Len(h) \in Nat /\ \A x \in T : x <= Len(h) /\ x >= 1
  BY DEF Breaks
<1>2. Max(T) \in T /\ \A y \in T : y <= Max(T)
  BY <1>1, MaxOf
<1>3. RunStart(h) = Max(T)
  BY DEF RunStart
<1> HIDE DEF T
<1>4. RunStart(h) \in T /\ \A b \in T : b <= RunStart(h)
  BY <1>2, <1>3, Zenon
<1>5. RunStart(h) \in 1 .. Len(h)
  <2>1. PICK m \in T : m = RunStart(h)
    BY <1>4, Zenon
  <2>2. m \in Nat /\ m <= Len(h) /\ m >= 1
    BY <1>1
  <2>3. m \in 1 .. Len(h)
    BY <1>1, <2>2
  <2> QED
    BY <2>1, <2>3
<1> QED
  BY <1>4, <1>5 DEF T

(* Whether a query begins a new run.                                       *)
Broken(h, q) == q.time < h[Len(h)].time \/ q.time - h[Len(h)].time >= Inactivity

LEMMA RunStartNext ==
  ASSUME NEW h \in Seq(Queried), NEW q \in Queried
  PROVE  /\ Len(h) = 0 => RunStart(Append(h, q)) = 1
         /\ Len(h) >= 1 /\ Broken(h, q) => RunStart(Append(h, q)) = Len(h) + 1
         /\ Len(h) >= 1 /\ ~Broken(h, q) => RunStart(Append(h, q)) = RunStart(h)
<1> DEFINE g == Append(h, q)
<1>1. /\ g \in Seq(Queried) /\ Len(g) = Len(h) + 1 /\ Len(h) \in Nat /\ g[Len(h) + 1] = q
      /\ \A i \in 1 .. Len(h) : g[i] = h[i]
  OBVIOUS
<1> HIDE DEF g
<1>2. Len(g) >= 1
  BY <1>1
<1>3. /\ RunStart(g) \in 1 .. Len(g) /\ RunStart(g) \in Breaks(g) \cup {1}
      /\ \A b \in Breaks(g) \cup {1} : b <= RunStart(g)
  BY <1>1, <1>2, RunStartIn
<1>4. Len(h) = 0 => RunStart(g) = 1
  BY <1>1, <1>3
<1>5. ASSUME Len(h) >= 1, Broken(h, q) PROVE RunStart(g) = Len(h) + 1
  <2>1. Len(h) + 1 \in Breaks(g)
    BY <1>1, <1>5 DEF Breaks, Broken
  <2> QED
    BY <1>1, <1>3, <2>1
<1>6. ASSUME Len(h) >= 1, ~Broken(h, q) PROVE RunStart(g) = RunStart(h)
  <2>1. Len(h) + 1 \notin Breaks(g)
    BY <1>1, <1>6 DEF Breaks, Broken
  <2>2. \A i \in 2 .. Len(h) : g[i] = h[i] /\ g[i - 1] = h[i - 1]
    BY <1>1
  <2>3. Breaks(g) = Breaks(h)
    <3>1. \A i \in Breaks(h) : i \in Breaks(g)
      BY <1>1, <2>2 DEF Breaks
    <3>2. \A i \in Breaks(g) : i \in 2 .. Len(h)
      BY <1>1, <2>1 DEF Breaks
    <3>3. \A i \in Breaks(g) : i \in Breaks(h)
      BY <1>1, <2>2, <3>2 DEF Breaks
    <3> QED
      BY <3>1, <3>3
  <2> QED
    BY <2>3 DEF RunStart
<1> QED
  BY <1>4, <1>5, <1>6 DEF g

(* The remainder of a number below twice the divisor.                      *)
LEMMA ModOnce ==
  ASSUME NEW n \in Nat \ {0}, NEW x \in 0 .. 2 * n - 1
  PROVE  x % n = IF x < n THEN x ELSE x - n
  OBVIOUS

-----------------------------------------------------------------------------
(* The fields of a slot after a query is entered.                          *)
LEMMA TimedFields ==
  ASSUME NEW s \in SlotRecord, NEW now \in Nat
  PROVE  /\ Timed(s, now) \in SlotRecord
         /\ Timed(s, now).domain = s.domain /\ Timed(s, now).last = now
         /\ Timed(s, now).bloom = s.bloom /\ Timed(s, now).unique = s.unique
         /\ Timed(s, now).head = Ahead(s.head)
         /\ Timed(s, now).count = IF s.count < Window THEN s.count + 1 ELSE s.count
         /\ Timed(s, now).times = [s.times EXCEPT ![s.head] = now]
<1>1. Window \in Nat \ {0}
  BY TrackerAssumption
<1>2. s.head \in 0 .. Window - 1 /\ s.count \in 0 .. Window /\ s.times \in [0 .. Window - 1 -> Nat]
  BY DEF SlotRecord
<1>3. (s.head + 1) % Window = IF s.head + 1 < Window THEN s.head + 1 ELSE 0
  <2>1. PICK x : x = s.head + 1
    OBVIOUS
  <2>2. x \in 0 .. 2 * Window - 1 /\ x <= Window
    BY <1>1, <1>2, <2>1
  <2>3. x % Window = IF x < Window THEN x ELSE x - Window
    BY <1>1, <2>2, ModOnce
  <2>4. x % Window = IF x < Window THEN x ELSE 0
    BY <1>1, <2>2, <2>3
  <2> QED
    BY <2>1, <2>4
<1>4. PICK hd : hd = (s.head + 1) % Window
  OBVIOUS
<1>5. hd \in 0 .. Window - 1
  <2>1. hd = IF s.head + 1 < Window THEN s.head + 1 ELSE 0
    BY <1>3, <1>4
  <2> QED
    BY <1>1, <1>2, <2>1
<1>6. PICK tm : tm = [s.times EXCEPT ![s.head] = now]
  OBVIOUS
<1>7. PICK ct : ct = IF s.count < Window THEN s.count + 1 ELSE s.count
  OBVIOUS
<1>8. tm \in [0 .. Window - 1 -> Nat] /\ ct \in 0 .. Window
  BY SMTT(30), <1>1, <1>2, <1>6, <1>7
<1>9. Timed(s, now) = [s EXCEPT !.times = tm, !.head = hd, !.count = ct, !.last = now]
  BY <1>4, <1>6, <1>7 DEF Timed
<1>10. Timed(s, now) \in SlotRecord
  BY <1>5, <1>8, <1>9 DEF SlotRecord
<1>11. /\ Timed(s, now).domain = s.domain /\ Timed(s, now).last = now
       /\ Timed(s, now).bloom = s.bloom /\ Timed(s, now).unique = s.unique
       /\ Timed(s, now).head = hd /\ Timed(s, now).count = ct /\ Timed(s, now).times = tm
  BY <1>9 DEF SlotRecord
<1>12. hd = Ahead(s.head)
  BY <1>3, <1>4 DEF Ahead
<1> QED
  BY <1>6, <1>7, <1>10, <1>11, <1>12


(* When the head moves on, each place of the ring is one step further      *)
(* back, and the last of Window places is the one that is written.         *)
LEMMA BackMoves ==
  ASSUME NEW a \in 0 .. Window - 1
  PROVE  /\ Back(Ahead(a), 0) = a
         /\ \A j \in 1 .. Window - 1 :
              Back(Ahead(a), j) = Back(a, j - 1) /\ Back(a, j - 1) # a /\ Back(a, j - 1) \in 0 .. Window - 1
<1>1. Window \in Nat \ {0}
  BY TrackerAssumption
<1> QED
  BY <1>1 DEF Back, Ahead

(* The ring of an empty slot, or of one whose run goes on, after a query.  *)
LEMMA RingBegins ==
  ASSUME NEW s \in SlotRecord, s.count = 0, NEW h \in Seq(Queried), NEW now \in Nat,
         Len(h) >= 1, h[Len(h)].time = now, RunStart(h) = Len(h)
  PROVE  RingMatches(Timed(s, now), h)
<1>1. Window \in Nat \ {0} /\ s.head \in 0 .. Window - 1 /\ s.times \in [0 .. Window - 1 -> Nat]
  BY TrackerAssumption DEF SlotRecord
<1>2. PICK n \in SlotRecord : n = Timed(s, now)
  BY TimedFields
<1>3. /\ n.last = now /\ n.head = Ahead(s.head) /\ n.count = 1
      /\ n.times = [s.times EXCEPT ![s.head] = now]
  BY <1>1, <1>2, TimedFields
<1>4. Back(n.head, 0) = s.head
  BY <1>1, <1>3, BackMoves
<1>5. n.times[Back(n.head, 0)] = h[Len(h) - 0].time
  BY <1>1, <1>3, <1>4
<1>6. RunLength(h) = 1
  BY DEF RunLength
<1>7. n.count = IF RunLength(h) < Window THEN RunLength(h) ELSE Window
  BY <1>1, <1>3, <1>6
<1>8. \A j \in 0 .. n.count - 1 : j = 0
  BY <1>3
<1> QED
  BY <1>2, <1>3, <1>5, <1>7, <1>8 DEF RingMatches

LEMMA RingGoesOn ==
  ASSUME NEW s \in SlotRecord, NEW h \in Seq(Queried), NEW q \in Queried,
         RingMatches(s, h), ~Broken(h, q)
  PROVE  RingMatches(Timed(s, q.time), Append(h, q))
<1>1. Window \in Nat \ {0} /\ s.head \in 0 .. Window - 1 /\ s.times \in [0 .. Window - 1 -> Nat]
      /\ s.count \in 0 .. Window /\ q.time \in Nat
  BY TrackerAssumption DEF SlotRecord, Queried
<1>2. PICK n \in SlotRecord : n = Timed(s, q.time)
  BY <1>1, TimedFields
<1>3. /\ n.last = q.time /\ n.head = Ahead(s.head)
      /\ n.count = (IF s.count < Window THEN s.count + 1 ELSE s.count)
      /\ n.times = [s.times EXCEPT ![s.head] = q.time]
  BY <1>1, <1>2, TimedFields
<1>4. PICK g : g = Append(h, q)
  OBVIOUS
<1>5. /\ g \in Seq(Queried) /\ Len(h) \in Nat /\ Len(h) >= 1 /\ Len(g) = Len(h) + 1 /\ g[Len(g)] = q
      /\ \A i \in 1 .. Len(h) : g[i] = h[i]
  BY <1>4 DEF RingMatches
<1>6. RunStart(g) = RunStart(h) /\ RunStart(h) \in 1 .. Len(h)
  BY <1>4, <1>5, RunStartNext, RunStartIn
<1>7. RunLength(h) \in 1 .. Len(h) /\ RunLength(g) = RunLength(h) + 1
  BY <1>5, <1>6 DEF RunLength
<1>12. s.count = IF RunLength(h) < Window THEN RunLength(h) ELSE Window
  BY DEF RingMatches
<1>8. n.count = IF RunLength(g) < Window THEN RunLength(g) ELSE Window
  BY <1>1, <1>3, <1>5, <1>7, <1>12
<1>9. s.count <= Len(h)
  BY <1>1, <1>5, <1>7, <1>12
<1>10. Back(n.head, 0) = s.head
  BY <1>1, <1>3, BackMoves
<1>11. ASSUME NEW j \in 0 .. n.count - 1 PROVE n.times[Back(n.head, j)] = g[Len(g) - j].time
  <2>1. CASE j = 0
    BY <2>1, <1>1, <1>3, <1>5, <1>10
  <2>2. CASE j # 0
    <3>1. j \in 1 .. Window - 1 /\ j - 1 \in 0 .. s.count - 1
      <4>1. PICK c \in 0 .. Window : c = s.count
        BY <1>1
      <4>2. PICK m : m = n.count
        OBVIOUS
      <4>3. m = (IF c < Window THEN c + 1 ELSE c) /\ j \in 0 .. m - 1
        BY <1>3, <4>1, <4>2
      <4>4. j \in 1 .. Window - 1 /\ j - 1 \in 0 .. c - 1
        BY <2>2, <1>1, <4>3
      <4> QED
        BY <4>1, <4>4
    <3>2. Back(n.head, j) = Back(s.head, j - 1) /\ Back(s.head, j - 1) # s.head /\ Back(s.head, j - 1) \in 0 .. Window - 1
      <4>1. \A k \in 1 .. Window - 1 :
              Back(Ahead(s.head), k) = Back(s.head, k - 1) /\ Back(s.head, k - 1) # s.head /\ Back(s.head, k - 1) \in 0 .. Window - 1
        BY <1>1, BackMoves
      <4> QED
        BY <3>1, <1>3, <4>1
    <3>3. n.times[Back(n.head, j)] = s.times[Back(s.head, j - 1)]
      BY <3>2, <1>1, <1>3
    <3>4. s.times[Back(s.head, j - 1)] = h[Len(h) - (j - 1)].time
      BY <3>1 DEF RingMatches
    <3>5. Len(h) - (j - 1) = Len(g) - j /\ Len(g) - j \in 1 .. Len(h)
      BY <3>1, <1>1, <1>5, <1>9
    <3> QED
      BY <3>3, <3>4, <3>5, <1>5
  <2> QED
    BY <2>1, <2>2
<1>13. Len(g) >= 1 /\ n.last = g[Len(g)].time
  BY <1>3, <1>5
<1>14. RingMatches(n, g)
  BY <1>8, <1>11, <1>13 DEF RingMatches
<1> QED
  BY <1>2, <1>4, <1>14


-----------------------------------------------------------------------------
(* The filter: what a subdomain changes.                                   *)
LEMMA FilteredFields ==
  ASSUME NEW s \in SlotRecord, NEW sub \in Subs \cup {NoSub}
  PROVE  /\ Filtered(s, sub) \in SlotRecord
         /\ Filtered(s, sub).domain = s.domain /\ Filtered(s, sub).last = s.last
         /\ Filtered(s, sub).head = s.head /\ Filtered(s, sub).count = s.count
         /\ Filtered(s, sub).times = s.times
<1>1. CASE sub = NoSub \/ Bits[sub] \subseteq s.bloom
  BY <1>1 DEF Filtered
<1>2. CASE ~(sub = NoSub \/ Bits[sub] \subseteq s.bloom)
  <2>1. PICK bl : bl = s.bloom \cup Bits[sub]
    OBVIOUS
  <2>2. PICK un : un = s.unique + 1
    OBVIOUS
  <2>3. bl \in SUBSET AllBits /\ un \in Nat
    BY <1>2, <2>1, <2>2 DEF SlotRecord, AllBits
  <2>4. Filtered(s, sub) = [s EXCEPT !.bloom = bl, !.unique = un]
    BY <1>2, <2>1, <2>2 DEF Filtered
  <2> QED
    BY <2>3, <2>4 DEF SlotRecord
<1> QED
  BY <1>1, <1>2

LEMMA RingFiltered ==
  ASSUME NEW s \in SlotRecord, NEW sub \in Subs \cup {NoSub}, NEW h, RingMatches(s, h)
  PROVE  RingMatches(Filtered(s, sub), h)
<1>1. PICK n : n = Filtered(s, sub)
  OBVIOUS
<1>2. n.last = s.last /\ n.head = s.head /\ n.count = s.count /\ n.times = s.times
  BY <1>1, FilteredFields
<1>3. RingMatches(n, h)
  BY <1>2 DEF RingMatches
<1> QED
  BY <1>1, <1>3

LEMMA FilterCounts ==
  ASSUME NEW s \in SlotRecord, NEW sub \in Subs \cup {NoSub}, NEW R \in SUBSET Subs, Counts(s, R)
  PROVE  Counts(Filtered(s, sub), R \cup ({sub} \ {NoSub}))
<1>1. s.unique \in Nat /\ Cardinality(R) \in Nat
  BY FS_CardinalityType DEF SlotRecord, Counts
<1>2. CASE sub = NoSub
  <2>1. R \cup ({sub} \ {NoSub}) = R /\ Filtered(s, sub) = s
    BY <1>2 DEF Filtered
  <2> QED
    BY <2>1
<1>3. CASE sub # NoSub
  <2>1. PICK R2 : R2 = R \cup {sub}
    OBVIOUS
  <2>2. R \cup ({sub} \ {NoSub}) = R2
    BY <1>3, <2>1
  <2>3. IsFiniteSet(R2) /\ (sub \notin R => Cardinality(R2) = Cardinality(R) + 1)
    BY <2>1, FS_AddElement DEF Counts
  <2>4. Cardinality(R) <= Cardinality(R2)
    BY <1>1, <2>1, <2>3
  <2>5. UNION {Bits[x] : x \in R2} = s.bloom \cup Bits[sub]
    BY <2>1 DEF Counts
  <2>6. CASE Bits[sub] \subseteq s.bloom
    <3>1. Filtered(s, sub) = s
      BY <2>6 DEF Filtered
    <3>2. s.bloom = UNION {Bits[x] : x \in R2}
      BY <2>5, <2>6
    <3>3. PICK b : b \in Bits[sub]
      BY <1>3, TrackerAssumption
    <3>4. R # {}
      BY <2>6, <3>3 DEF Counts
    <3>5. s.unique > 0 /\ s.unique <= Cardinality(R2)
      <4>1. s.unique > 0 /\ s.unique <= Cardinality(R)
        BY <3>4 DEF Counts
      <4>2. Cardinality(R2) \in Nat
        BY <2>3, FS_CardinalityType
      <4> QED
        BY <1>1, <2>4, <4>1, <4>2
    <3> QED
      BY <2>2, <2>3, <3>1, <3>2, <3>5 DEF Counts
  <2>7. CASE ~(Bits[sub] \subseteq s.bloom)
    <3>1. PICK n : n = Filtered(s, sub)
      OBVIOUS
    <3>2. n.bloom = s.bloom \cup Bits[sub] /\ n.unique = s.unique + 1
      BY <1>3, <2>7, <3>1 DEF Filtered, SlotRecord
    <3>3. sub \notin R
      <4> SUFFICES ASSUME sub \in R PROVE FALSE
        OBVIOUS
      <4>1. Bits[sub] \subseteq UNION {Bits[x] : x \in R}
        OBVIOUS
      <4> QED
        BY <4>1, <2>7 DEF Counts
    <3>4. s.unique <= Cardinality(R)
      BY DEF Counts
    <3>5. n.unique <= Cardinality(R2) /\ n.unique > 0
      BY <1>1, <2>3, <3>2, <3>3, <3>4
    <3>6. Counts(n, R2)
      BY <2>3, <2>5, <3>2, <3>5 DEF Counts
    <3> QED
      BY <2>2, <3>1, <3>6
  <2> QED
    BY <2>6, <2>7
<1> QED
  BY <1>2, <1>3


-----------------------------------------------------------------------------
(* The subdomains of a run that begins, and of one that goes on.           *)
LEMMA RunSubsNext ==
  ASSUME NEW g \in Seq(Queried), Len(g) >= 1
  PROVE  /\ RunStart(g) = Len(g) => RunSubs(g) = {g[Len(g)].sub} \ {NoSub}
         /\ RunSubs(g) \subseteq Subs
<1>1. Len(g) \in Nat /\ RunStart(g) \in 1 .. Len(g)
  BY RunStartIn
<1>2. ASSUME RunStart(g) = Len(g) PROVE RunSubs(g) = {g[Len(g)].sub} \ {NoSub}
  <2>1. RunStart(g) .. Len(g) = {Len(g)}
    BY <1>1, <1>2
  <2> QED
    BY <2>1 DEF RunSubs
<1>3. RunSubs(g) \subseteq Subs
  <2> SUFFICES ASSUME NEW i \in RunStart(g) .. Len(g), g[i].sub # NoSub PROVE g[i].sub \in Subs
    BY DEF RunSubs
  <2>1. i \in 1 .. Len(g)
    BY <1>1
  <2>2. g[i] \in Queried
    BY <2>1
  <2> QED
    BY <2>2 DEF Queried
<1> QED
  BY <1>2, <1>3

LEMMA RunSubsGrow ==
  ASSUME NEW h \in Seq(Queried), NEW q \in Queried, Len(h) >= 1, ~Broken(h, q)
  PROVE  RunSubs(Append(h, q)) = RunSubs(h) \cup ({q.sub} \ {NoSub})
<1>1. PICK g : g = Append(h, q)
  OBVIOUS
<1>2. /\ Len(h) \in Nat /\ Len(g) = Len(h) + 1 /\ g[Len(h) + 1] = q
      /\ \A i \in 1 .. Len(h) : g[i] = h[i]
  BY <1>1
<1>3. RunStart(g) = RunStart(h) /\ RunStart(h) \in 1 .. Len(h)
  BY <1>1, RunStartNext, RunStartIn
<1>4. PICK a \in 1 .. Len(h) : a = RunStart(h)
  BY <1>3
<1>5. {g[i].sub : i \in a .. Len(h) + 1} = {h[i].sub : i \in a .. Len(h)} \cup {q.sub}
  <2>1. a .. Len(h) + 1 = (a .. Len(h)) \cup {Len(h) + 1}
    BY <1>2
  <2>2. \A i \in a .. Len(h) : i \in 1 .. Len(h)
    BY <1>2
  <2> QED
    BY <1>2, <2>1, <2>2
<1>6. RunSubs(g) = RunSubs(h) \cup ({q.sub} \ {NoSub})
  BY <1>2, <1>3, <1>4, <1>5 DEF RunSubs
<1> QED
  BY <1>1, <1>6

(* A slot that holds nothing of a run.                                     *)
Blank(s) == s.count = 0 /\ s.bloom = {} /\ s.unique = 0

LEMMA QueryBegins ==
  ASSUME NEW s \in SlotRecord, Blank(s), NEW g \in Seq(Queried), NEW q \in Queried,
         Len(g) >= 1, g[Len(g)] = q, RunStart(g) = Len(g)
  PROVE  Matches(Filtered(Timed(s, q.time), q.sub), g)
<1>1. q.time \in Nat /\ q.sub \in Subs \cup {NoSub}
  BY TrackerAssumption DEF Queried
<1>2. PICK t \in SlotRecord : t = Timed(s, q.time)
  BY <1>1, TimedFields
<1>3. RingMatches(t, g)
  BY <1>1, <1>2, RingBegins DEF Blank
<1>4. RingMatches(Filtered(t, q.sub), g)
  BY <1>1, <1>3, RingFiltered
<1>5. t.bloom = {} /\ t.unique = 0
  BY <1>1, <1>2, TimedFields DEF Blank
<1>6. Counts(t, {})
  BY <1>5, FS_EmptySet DEF Counts
<1>7. Counts(Filtered(t, q.sub), {} \cup ({q.sub} \ {NoSub}))
  BY <1>1, <1>6, FilterCounts
<1>8. RunSubs(g) = {} \cup ({q.sub} \ {NoSub})
  BY RunSubsNext
<1> QED
  BY <1>2, <1>4, <1>7, <1>8 DEF Matches

LEMMA QueryGoesOn ==
  ASSUME NEW s \in SlotRecord, NEW h \in Seq(Queried), NEW q \in Queried, Matches(s, h), ~Broken(h, q)
  PROVE  Matches(Filtered(Timed(s, q.time), q.sub), Append(h, q))
<1>1. q.time \in Nat /\ q.sub \in Subs \cup {NoSub} /\ Len(h) >= 1
  BY TrackerAssumption DEF Queried, Matches, RingMatches
<1>2. PICK t \in SlotRecord : t = Timed(s, q.time)
  BY <1>1, TimedFields
<1>3. RingMatches(t, Append(h, q))
  BY <1>2, RingGoesOn DEF Matches
<1>4. RingMatches(Filtered(t, q.sub), Append(h, q))
  BY <1>1, <1>3, RingFiltered
<1>5. t.bloom = s.bloom /\ t.unique = s.unique
  BY <1>1, <1>2, TimedFields
<1>6. Counts(t, RunSubs(h))
  BY <1>5 DEF Counts, Matches
<1>7. RunSubs(h) \in SUBSET Subs
  BY <1>1, RunSubsNext
<1>8. Counts(Filtered(t, q.sub), RunSubs(h) \cup ({q.sub} \ {NoSub}))
  BY <1>1, <1>6, <1>7, FilterCounts
<1>9. RunSubs(Append(h, q)) = RunSubs(h) \cup ({q.sub} \ {NoSub})
  BY <1>1, RunSubsGrow
<1> QED
  BY <1>2, <1>4, <1>8, <1>9 DEF Matches

(* The slot that a query finds: the domain's own while its run goes on,    *)
(* and a blank one otherwise.                                              *)
LEMMA EmptyBlank ==
  ASSUME NEW d \in ParentDomains \cup {Free}
  PROVE  Empty(d) \in SlotRecord /\ Blank(Empty(d)) /\ Empty(d).domain = d
<1>1. Window \in Nat \ {0} /\ {} \in SUBSET AllBits
  BY TrackerAssumption
<1> QED
  BY <1>1 DEF Empty, SlotRecord, Blank

LEMMA LiveSlot ==
  ASSUME NEW old \in SlotRecord, NEW d \in ParentDomains, NEW q \in Queried, NEW h,
         old.domain = d => Matches(old, h), h \in Seq(Queried)
  PROVE  /\ Live(old, d, q.time) \in SlotRecord /\ Live(old, d, q.time).domain = d
         /\ old.domain = d /\ ~Broken(h, q) => Live(old, d, q.time) = old
         /\ old.domain # d \/ Broken(h, q) => Blank(Live(old, d, q.time))
<1>1. CASE old.domain # d
  <2>1. Empty(d).count = 0 /\ Empty(d) \in SlotRecord /\ Blank(Empty(d)) /\ Empty(d).domain = d
    BY EmptyBlank DEF Blank
  <2>2. Live(old, d, q.time) = Empty(d)
    BY <1>1, <2>1 DEF Live
  <2> QED
    BY <1>1, <2>1, <2>2
<1>2. CASE old.domain = d
  <2>1. Len(h) >= 1 /\ old.last = h[Len(h)].time
    BY <1>2 DEF Matches, RingMatches
  <2>2. old.count > 0
    <3>1. RunStart(h) \in 1 .. Len(h) /\ Len(h) \in Nat /\ Window \in Nat \ {0}
      BY <2>1, RunStartIn, TrackerAssumption
    <3>2. RunLength(h) > 0
      BY <3>1 DEF RunLength
    <3>3. old.count = IF RunLength(h) < Window THEN RunLength(h) ELSE Window
      BY <1>2 DEF Matches, RingMatches
    <3> QED
      BY <3>1, <3>2, <3>3
  <2>3. Broken(h, q) <=> q.time < old.last \/ q.time - old.last >= Inactivity
    BY <2>1 DEF Broken
  <2>4. Live(old, d, q.time) = IF Broken(h, q) THEN resetWindow(old) ELSE old
    BY <1>2, <2>2, <2>3 DEF Live
  <2>5. resetWindow(old) \in SlotRecord /\ Blank(resetWindow(old)) /\ resetWindow(old).domain = old.domain
    <3>1. Window \in Nat \ {0} /\ {} \in SUBSET AllBits
      BY TrackerAssumption
    <3> QED
      BY <3>1 DEF resetWindow, SlotRecord, Blank
  <2> QED
    BY <1>2, <2>4, <2>5
<1> QED
  BY <1>1, <1>2


-----------------------------------------------------------------------------
(* What is answered: the ring from its oldest time to its newest is the    *)
(* end of the run.                                                         *)
LEMMA RingBack ==
  ASSUME NEW s \in SlotRecord, NEW i \in 1 .. s.count
  PROVE  (s.head - s.count + i - 1 + Window) % Window = Back(s.head, s.count - i)
<1>1. Window \in Nat \ {0} /\ s.head \in 0 .. Window - 1 /\ s.count \in 0 .. Window
  BY TrackerAssumption DEF SlotRecord
<1>2. PICK x : x = s.head - s.count + i - 1 + Window
  OBVIOUS
<1>3. x \in 0 .. 2 * Window - 1
  BY <1>1, <1>2
<1>4. x % Window = IF x < Window THEN x ELSE x - Window
  BY <1>1, <1>3, ModOnce
<1>5. Back(s.head, s.count - i) = IF x < Window THEN x ELSE x - Window
  BY <1>1, <1>2 DEF Back
<1> QED
  BY <1>2, <1>4, <1>5

LEMMA RunFacts ==
  ASSUME NEW h \in Seq(Queried), Len(h) >= 1
  PROVE  /\ Run(h) \in Seq(Queried) /\ Len(Run(h)) = RunLength(h)
         /\ \A i \in 1 .. RunLength(h) : Run(h)[i] = h[RunStart(h) + i - 1]
<1>1. PICK a \in 1 .. Len(h) : a = RunStart(h)
  BY RunStartIn
<1>2. Len(h) \in Nat
  OBVIOUS
<1>3. PICK r : r = SubSeq(h, a, Len(h))
  OBVIOUS
<1>4. r \in Seq(Queried) /\ Len(r) = Len(h) - a + 1 /\ \A i \in 1 .. Len(h) - a + 1 : r[i] = h[a + i - 1]
  <2>1. \A i \in a .. Len(h) : h[i] \in Queried
    BY <1>2
  <2>2. a <= Len(h) + 1
    BY <1>2
  <2> QED
    BY <1>2, <1>3, <2>1, <2>2, SubSeqProperties
<1> QED
  BY <1>1, <1>3, <1>4 DEF Run, RunLength

LEMMA AnswerMatches ==
  ASSUME NEW s \in SlotRecord, NEW h \in Seq(Queried), RingMatches(s, h)
  PROVE  LastTimes(Run(h)) = Chronological(s) /\ Len(LastTimes(Run(h))) = s.count
<1>1. Window \in Nat \ {0} /\ s.head \in 0 .. Window - 1 /\ s.count \in 0 .. Window
  BY TrackerAssumption DEF SlotRecord
<1>2. Len(h) \in Nat /\ Len(h) >= 1 /\ RunStart(h) \in 1 .. Len(h)
  BY RunStartIn DEF RingMatches
<1>3. PICK L \in Nat : L = RunLength(h)
  BY <1>2 DEF RunLength
<1>4. s.count = IF L < Window THEN L ELSE Window
  BY <1>3 DEF RingMatches
<1>5. PICK r : r = Run(h)
  OBVIOUS
<1>6. r \in Seq(Queried) /\ Len(r) = L /\ \A i \in 1 .. L : r[i] = h[RunStart(h) + i - 1]
  BY <1>2, <1>3, <1>5, RunFacts
<1>7. PICK ts : ts = [i \in 1 .. L |-> r[i].time]
  OBVIOUS
<1>8. ts \in Seq(Nat) /\ Len(ts) = L /\ \A i \in 1 .. L : ts[i] = r[i].time
  <2>1. \A i \in 1 .. L : r[i] \in Queried
    BY <1>6
  <2>2. \A i \in 1 .. L : r[i].time \in Nat
    BY <2>1, TrackerAssumption DEF Queried
  <2> QED
    BY <1>7, <2>2
<1>9. PICK b \in Nat : b = IF L > Window THEN L - Window + 1 ELSE 1
  <2>1. (IF L > Window THEN L - Window + 1 ELSE 1) \in Nat
    BY <1>1
  <2> QED
    BY <2>1
<1>10. b >= 1 /\ b = L - s.count + 1 /\ b <= L + 1
  BY <1>1, <1>4, <1>9
<1>11. PICK w : w = SubSeq(ts, b, L)
  OBVIOUS
<1>12. /\ Len(w) = s.count /\ DOMAIN w = 1 .. s.count /\ w = [i \in DOMAIN w |-> w[i]]
       /\ \A i \in 1 .. s.count : w[i] = ts[b + i - 1]
  <2>1. \A i \in b .. L : ts[i] \in Nat
    BY <1>8, <1>10
  <2>2. w \in Seq(Nat) /\ Len(w) = L - b + 1 /\ \A i \in 1 .. L - b + 1 : w[i] = ts[b + i - 1]
    BY <1>10, <1>11, <2>1, SubSeqProperties
  <2>3. L - b + 1 = s.count
    BY SMTT(30), <1>1, <1>10
  <2> QED
    BY <2>2, <2>3
<1>13. \A i \in 1 .. s.count : w[i] = s.times[(s.head - s.count + i - 1 + Window) % Window]
  <2> SUFFICES ASSUME NEW i \in 1 .. s.count
               PROVE  w[i] = s.times[(s.head - s.count + i - 1 + Window) % Window]
    OBVIOUS
  <2>1. b + i - 1 \in 1 .. L /\ RunStart(h) + (b + i - 1) - 1 = Len(h) - (s.count - i)
    <3>1. PICK a \in 1 .. Len(h) : a = RunStart(h)
      BY <1>2
    <3>2. PICK c \in Nat : c = s.count
      BY <1>1
    <3>3. L = Len(h) - a + 1 /\ b = L - c + 1 /\ i \in 1 .. c /\ c <= L
      BY <1>1, <1>3, <1>4, <1>10, <3>1, <3>2 DEF RunLength
    <3>4. b + i - 1 \in 1 .. L /\ a + (b + i - 1) - 1 = Len(h) - (c - i)
      BY <1>2, <3>3
    <3> QED
      BY <3>1, <3>2, <3>4
  <2>2. w[i] = h[Len(h) - (s.count - i)].time
    BY SMTT(30), <1>6, <1>8, <1>12, <2>1
  <2>3. s.count - i \in 0 .. s.count - 1
    BY <1>1
  <2>4. s.times[Back(s.head, s.count - i)] = h[Len(h) - (s.count - i)].time
    BY <2>3 DEF RingMatches
  <2> QED
    BY <2>2, <2>4, RingBack
<1>14. w = Chronological(s)
  BY <1>12, <1>13 DEF Chronological
<1>15. LastTimes(r) = w
  BY <1>6, <1>7, <1>9, <1>11 DEF LastTimes
<1> QED
  BY <1>5, <1>12, <1>14, <1>15

LEMMA SubsOfRun ==
  ASSUME NEW h \in Seq(Queried), Len(h) >= 1
  PROVE  {Run(h)[i].sub : i \in DOMAIN Run(h)} \ {NoSub} = RunSubs(h)
<1>1. Len(h) \in Nat /\ RunStart(h) \in 1 .. Len(h)
  BY RunStartIn
<1>2. PICK a \in 1 .. Len(h) : a = RunStart(h)
  BY <1>1
<1>3. PICK r : r = Run(h)
  OBVIOUS
<1>4. DOMAIN r = 1 .. Len(h) - a + 1 /\ \A i \in 1 .. Len(h) - a + 1 : r[i] = h[a + i - 1]
  BY <1>2, <1>3, RunFacts DEF RunLength
<1>5. {r[i].sub : i \in DOMAIN r} = {h[i].sub : i \in a .. Len(h)}
  <2>1. \A i \in 1 .. Len(h) - a + 1 : a + i - 1 \in a .. Len(h)
    BY <1>1
  <2>2. \A i \in a .. Len(h) : i - a + 1 \in 1 .. Len(h) - a + 1 /\ r[i - a + 1] = h[i]
    <3> SUFFICES ASSUME NEW i \in a .. Len(h) PROVE i - a + 1 \in 1 .. Len(h) - a + 1 /\ r[i - a + 1] = h[i]
      OBVIOUS
    <3>1. i - a + 1 \in 1 .. Len(h) - a + 1 /\ a + (i - a + 1) - 1 = i
      BY <1>1
    <3> QED
      BY <1>4, <3>1
  <2>3. \A i \in DOMAIN r : \E k \in a .. Len(h) : r[i].sub = h[k].sub
    BY <1>4, <2>1
  <2>4. \A k \in a .. Len(h) : \E i \in DOMAIN r : r[i].sub = h[k].sub
    <3> SUFFICES ASSUME NEW k \in a .. Len(h) PROVE \E i \in DOMAIN r : r[i].sub = h[k].sub
      OBVIOUS
    <3>1. k - a + 1 \in DOMAIN r /\ r[k - a + 1] = h[k]
      BY <1>4, <2>2
    <3> QED
      BY <3>1
  <2>5. \A x \in {r[i].sub : i \in DOMAIN r} : x \in {h[k].sub : k \in a .. Len(h)}
    BY <2>3, ZenonT(30)
  <2>6. \A x \in {h[k].sub : k \in a .. Len(h)} : x \in {r[i].sub : i \in DOMAIN r}
    BY <2>4, Zenon
  <2> QED
    BY <2>5, <2>6, Zenon
<1> QED
  BY <1>2, <1>3, <1>5 DEF RunSubs


-----------------------------------------------------------------------------
(* The slot that a query of a domain takes.                                *)
LEMMA ProbePlace ==
  ASSUME NEW d \in ParentDomains, NEW i \in 1 .. Probes
  PROVE  ProbeOf(d, i) \in Places /\ ProbeOf(d, i) \in Path(d)
<1>1. /\ Home[d] \in Nat /\ Stride[d] \in Nat /\ i - 1 \in Nat /\ MaxTrackedDomains \in Nat \ {0}
      /\ Probes \in Nat \ {0}
  BY TrackerAssumption
<1>2. (i - 1) * Stride[d] \in Nat
  BY <1>1
<1>3. PICK x \in Nat : x = Home[d] + (i - 1) * Stride[d]
  BY <1>1, <1>2
<1>4. x % MaxTrackedDomains \in 0 .. MaxTrackedDomains - 1
  BY <1>1, <1>3
<1> QED
  BY <1>3, <1>4 DEF ProbeOf, Places, Path

(* The place taken is on the path of the domain; it is the domain's own    *)
(* if it has one; another's is stale, or the least recently seen.          *)
Taken(d, now, c, i) ==
  /\ i \in Places /\ i \in Path(d)
  /\ slot[i].domain # d => \A j \in Places : slot[j].domain # d
  /\ slot[i].domain \notin {Free, d} =>
       \/ Stale(slot[i], now)
       \/ c = 0 /\ \A j \in Path(d) : slot[i].last <= slot[j].last

LEMMA ChosenTaken ==
  ASSUME TrackerTypeInv, OneSlot, NEW d \in ParentDomains, NEW now \in Nat
  PROVE  Taken(d, now, Chosen(d, now), ProbeOf(d, IF Chosen(d, now) # 0 THEN Chosen(d, now) ELSE Victim(d)))
<1> DEFINE held == {i \in 1 .. Probes : slot[ProbeOf(d, i)].domain = d}
           free == {i \in 1 .. Probes : Recyclable(ProbeOf(d, i), now)}
<1>1. Probes \in Nat \ {0} /\ held \in SUBSET Nat /\ free \in SUBSET Nat /\ 1 \in 1 .. Probes
  BY TrackerAssumption
<1>2. held = {} => \A j \in Places : slot[j].domain # d
  <2> SUFFICES ASSUME held = {}, NEW j \in Places, slot[j].domain = d PROVE FALSE
    OBVIOUS
  <2>1. DOMAIN slot = Places /\ d # Free
    BY TrackerAssumption DEF TrackerTypeInv
  <2>2. j \in Path(d)
    BY <2>1 DEF OneSlot
  <2>3. PICK i \in 1 .. Probes : j = ProbeOf(d, i)
    BY <2>2 DEF Path
  <2>4. i \in held
    BY <2>3
  <2> QED
    BY <2>4
<1>3. CASE held # {}
  <2>1. Chosen(d, now) = Min(held)
    BY <1>3 DEF Chosen
  <2>2. Min(held) \in held
    BY <1>1, <1>3, MinOf
  <2>3. PICK m \in 1 .. Probes : m = Chosen(d, now) /\ m # 0 /\ slot[ProbeOf(d, m)].domain = d
    BY <1>1, <2>1, <2>2
  <2>4. ProbeOf(d, m) \in Places /\ ProbeOf(d, m) \in Path(d)
    BY <2>3, ProbePlace
  <2>5. ProbeOf(d, IF Chosen(d, now) # 0 THEN Chosen(d, now) ELSE Victim(d)) = ProbeOf(d, m)
    BY <2>3
  <2> QED
    BY <2>3, <2>4, <2>5 DEF Taken
<1>4. CASE held = {} /\ free # {}
  <2>1. Chosen(d, now) = Min(free)
    BY <1>4 DEF Chosen
  <2>2. Min(free) \in free
    BY <1>1, <1>4, MinOf
  <2>3. PICK m \in 1 .. Probes : m = Chosen(d, now) /\ m # 0 /\ Recyclable(ProbeOf(d, m), now)
    BY <1>1, <2>1, <2>2
  <2>4. ProbeOf(d, m) \in Places /\ ProbeOf(d, m) \in Path(d)
    BY <2>3, ProbePlace
  <2>5. ProbeOf(d, IF Chosen(d, now) # 0 THEN Chosen(d, now) ELSE Victim(d)) = ProbeOf(d, m)
    BY <2>3
  <2>6. slot[ProbeOf(d, m)].domain # Free => Stale(slot[ProbeOf(d, m)], now)
    BY <2>3 DEF Recyclable
  <2> QED
    BY <1>2, <1>4, <2>4, <2>5, <2>6 DEF Taken
<1>5. CASE held = {} /\ free = {}
  <2>1. Chosen(d, now) = Min({0})
    BY <1>5 DEF Chosen
  <2>2. Chosen(d, now) = 0
    BY <2>1, MinOf
  <2> DEFINE LastSeen(i) == slot[ProbeOf(d, i)].last
             T == {LastSeen(i) : i \in 1 .. Probes}
             V == {i \in 1 .. Probes : \A j \in 1 .. Probes : LastSeen(i) <= LastSeen(j)}
  <2>3. \A i \in 1 .. Probes : LastSeen(i) \in Nat
    BY ProbePlace DEF TrackerTypeInv, SlotRecord
  <2>4. T \in SUBSET Nat /\ T # {}
    BY <1>1, <2>3
  <2>5. PICK x \in T : \A y \in T : x <= y
    BY <2>4, NatMinimum
  <2>6. PICK a \in 1 .. Probes : x = LastSeen(a)
    BY <2>5
  <2>7. a \in V
    BY <2>5, <2>6
  <2>8. V \in SUBSET Nat /\ V # {}
    BY <1>1, <2>7
  <2>9. Victim(d) = Min(V)
    BY DEF Victim
  <2>10. PICK m \in V : m = Victim(d)
    BY <2>8, <2>9, MinOf
  <2>11. m \in 1 .. Probes /\ \A j \in 1 .. Probes : slot[ProbeOf(d, m)].last <= slot[ProbeOf(d, j)].last
    BY <2>10
  <2>12. ProbeOf(d, m) \in Places /\ ProbeOf(d, m) \in Path(d)
    BY <2>11, ProbePlace
  <2>13. \A j \in Path(d) : slot[ProbeOf(d, m)].last <= slot[j].last
    BY <2>11 DEF Path
  <2>14. ProbeOf(d, IF Chosen(d, now) # 0 THEN Chosen(d, now) ELSE Victim(d)) = ProbeOf(d, m)
    BY <2>2, <2>10
  <2> QED
    BY <1>2, <1>5, <2>2, <2>12, <2>13, <2>14 DEF Taken
<1> QED
  BY <1>3, <1>4, <1>5

(* The effect of a query: the slot it takes describes the history of the   *)
(* domain, and what is answered is that slot's.                            *)
HistoryOf(i, d, q) == Append(IF slot[i].domain = d THEN hist[d] ELSE <<>>, q)

Entered(d, q, i, new) ==
  /\ Taken(d, q.time, IF evictions' = evictions THEN 1 ELSE 0, i) /\ evictions' \in {evictions, evictions + 1}
  /\ new \in SlotRecord /\ new.domain = d /\ new.last = q.time
  /\ HistoryOf(i, d, q) \in Seq(Queried) /\ Matches(new, HistoryOf(i, d, q))
  /\ slot' = [slot EXCEPT ![i] = new]
  /\ answer' = [domain |-> d, jitter |-> calculateJitter(new), unique |-> new.unique, count |-> new.count]
  /\ hist' = [x \in ParentDomains |->
                IF x = d THEN HistoryOf(i, d, q) ELSE IF x = slot[i].domain THEN <<>> ELSE hist[x]]

LEMMA QueryEffect ==
  ASSUME TrackerInv, NEW d \in ParentDomains, NEW sub \in Subs \cup {NoSub}, NEW now \in Times,
         RecordQuery(d, sub, now)
  PROVE  \E i, new : Entered(d, [time |-> now, sub |-> sub], i, new)
<1>1. now \in Nat /\ d # Free
  BY TrackerAssumption
<1>2. PICK q \in Queried : q = [time |-> now, sub |-> sub]
  BY DEF Queried
<1>3. q.time = now /\ q.sub = sub
  BY <1>2
<1>4. PICK c : c = Chosen(d, now)
  OBVIOUS
<1>5. PICK i : i = ProbeOf(d, IF c # 0 THEN c ELSE Victim(d))
  OBVIOUS
<1>6. Taken(d, now, c, i)
  BY <1>1, <1>4, <1>5, ChosenTaken DEF TrackerInv
<1>7. PICK old : old = slot[i]
  OBVIOUS
<1>8. PICK live : live = Live(old, d, now)
  OBVIOUS
<1>9. PICK new : new = Filtered(Timed(live, now), sub)
  OBVIOUS
<1>10. /\ evictions' = evictions + (IF c = 0 THEN 1 ELSE 0)
       /\ slot' = [slot EXCEPT ![i] = new]
       /\ answer' = [domain |-> d, jitter |-> calculateJitter(new), unique |-> new.unique, count |-> new.count]
       /\ hist' = [x \in ParentDomains |->
            IF x = d THEN HistoryOf(i, d, q) ELSE IF x = slot[i].domain THEN <<>> ELSE hist[x]]
  BY <1>2, <1>4, <1>5, <1>7, <1>8, <1>9 DEF RecordQuery, HistoryOf
<1>11. old \in SlotRecord /\ i \in Places
  BY <1>6, <1>7 DEF Taken, TrackerInv, TrackerTypeInv
<1>12. PICK h : h = hist[d]
  OBVIOUS
<1>13. h \in Seq(Queried) /\ (old.domain = d => Matches(old, h))
  BY <1>1, <1>7, <1>11, <1>12 DEF TrackerInv, TrackerTypeInv, SlotInv
<1>14. /\ live \in SlotRecord /\ live.domain = d
       /\ old.domain = d /\ ~Broken(h, q) => live = old
       /\ old.domain # d \/ Broken(h, q) => Blank(live)
  BY <1>3, <1>8, <1>11, <1>13, LiveSlot
<1>15. Timed(live, now) \in SlotRecord /\ Timed(live, now).domain = d /\ Timed(live, now).last = now
  BY <1>1, <1>14, TimedFields
<1>16. new \in SlotRecord /\ new.domain = d /\ new.last = now
  BY <1>9, <1>15, FilteredFields
<1>17. PICK g : g = HistoryOf(i, d, q)
  OBVIOUS
<1>18. g \in Seq(Queried) /\ Matches(new, g)
  <2>1. CASE old.domain # d
    <3>1. g = Append(<<>>, q)
      BY <2>1, <1>7, <1>17 DEF HistoryOf
    <3>2. <<>> \in Seq(Queried) /\ Len(<<>>) = 0
      OBVIOUS
    <3>3. g \in Seq(Queried) /\ Len(g) = 1 /\ g[1] = q
      BY <3>1
    <3>4. RunStart(g) = 1
      BY <3>1, <3>2, RunStartNext
    <3>5. Len(g) >= 1 /\ g[Len(g)] = q /\ RunStart(g) = Len(g)
      BY <3>3, <3>4
    <3> QED
      BY <2>1, <3>3, <3>5, <1>3, <1>9, <1>14, QueryBegins
  <2>2. CASE old.domain = d /\ Broken(h, q)
    <3>1. g = Append(h, q)
      BY <2>2, <1>7, <1>12, <1>17 DEF HistoryOf
    <3>2. Len(h) >= 1
      BY <2>2, <1>13 DEF Matches, RingMatches
    <3>3. g \in Seq(Queried) /\ Len(g) = Len(h) + 1 /\ g[Len(g)] = q /\ Len(g) >= 1
      BY <1>13, <3>1
    <3>4. RunStart(g) = Len(g)
      BY <1>13, <2>2, <3>1, <3>2, <3>3, RunStartNext
    <3> QED
      BY <2>2, <3>3, <3>4, <1>3, <1>9, <1>14, QueryBegins
  <2>3. CASE old.domain = d /\ ~Broken(h, q)
    <3>1. g = Append(h, q)
      BY <2>3, <1>7, <1>12, <1>17 DEF HistoryOf
    <3>2. g \in Seq(Queried)
      BY <1>13, <3>1
    <3> QED
      BY <2>3, <3>1, <3>2, <1>3, <1>9, <1>11, <1>13, <1>14, QueryGoesOn
  <2> QED
    BY <2>1, <2>2, <2>3
<1>19. evictions \in Nat
  BY DEF TrackerInv, TrackerTypeInv
<1>20. Taken(d, q.time, IF evictions' = evictions THEN 1 ELSE 0, i) /\ evictions' \in {evictions, evictions + 1}
  <2>1. CASE c = 0
    <3>1. evictions' = evictions + 1 /\ (IF evictions' = evictions THEN 1 ELSE 0) = 0
      BY <2>1, <1>10, <1>19
    <3> QED
      BY <2>1, <3>1, <1>3, <1>6
  <2>2. CASE c # 0
    <3>1. evictions' = evictions /\ (IF evictions' = evictions THEN 1 ELSE 0) = 1
      BY <2>2, <1>10, <1>19
    <3> QED
      BY <2>2, <3>1, <1>3, <1>6 DEF Taken
  <2> QED
    BY <2>1, <2>2
<1>21. Entered(d, q, i, new)
  BY <1>3, <1>10, <1>16, <1>17, <1>18, <1>20 DEF Entered
<1> QED
  BY <1>2, <1>21


LEMMA EnteredKeeps ==
  ASSUME TrackerInv, NEW d \in ParentDomains, NEW q, NEW i, NEW new, Entered(d, q, i, new)
  PROVE  TrackerInv'
<1>1. d # Free /\ i \in Places /\ i \in Path(d) /\ slot \in [Places -> SlotRecord]
      /\ hist \in [ParentDomains -> Seq(Queried)]
  BY TrackerAssumption DEF Entered, Taken, TrackerInv, TrackerTypeInv
<1>2. PICK g \in Seq(Queried) : g = HistoryOf(i, d, q)
  BY DEF Entered
<1>3. new \in SlotRecord /\ new.domain = d /\ Matches(new, g)
  BY <1>2 DEF Entered
<1>4. slot'[i] = new /\ \A j \in Places : j # i => slot'[j] = slot[j]
  BY <1>1 DEF Entered
<1>5. /\ hist'[d] = g
      /\ \A x \in ParentDomains : x # d => hist'[x] = IF x = slot[i].domain THEN <<>> ELSE hist[x]
  BY <1>2 DEF Entered
<1>6. slot' \in [Places -> SlotRecord]
  BY <1>1, <1>3 DEF Entered
<1>7. TrackerTypeInv'
  <2>1. <<>> \in Seq(Queried)
    OBVIOUS
  <2>2. \A x \in ParentDomains : hist'[x] \in Seq(Queried)
    BY <1>1, <1>2, <1>5, <2>1
  <2>3. hist' \in [ParentDomains -> Seq(Queried)]
    BY <2>2 DEF Entered
  <2>4. evictions' \in Nat
    BY DEF Entered, TrackerInv, TrackerTypeInv
  <2> QED
    BY <1>6, <2>3, <2>4 DEF TrackerTypeInv, Places, SlotRecord, AllBits, Queried
<1>8. DOMAIN slot = Places /\ DOMAIN slot' = Places
  BY <1>1, <1>6
<1>9. \A j \in Places : j # i => slot[j].domain # d
  <2> SUFFICES ASSUME NEW j \in Places, j # i, slot[j].domain = d PROVE FALSE
    OBVIOUS
  <2>1. slot[i].domain = d
    BY DEF Entered, Taken
  <2> QED
    BY <1>1, <1>8, <2>1 DEF TrackerInv, OneSlot
<1>10. OneSlot'
  <2> SUFFICES ASSUME NEW a \in Places, slot'[a].domain # Free
               PROVE  /\ a \in Path(slot'[a].domain)
                      /\ \A j \in Places : slot'[j].domain = slot'[a].domain => a = j
    BY <1>8 DEF OneSlot, Path, ProbeOf
  <2>1. CASE a = i
    BY <2>1, <1>1, <1>3, <1>4, <1>9
  <2>2. CASE a # i
    <3>1. slot'[a] = slot[a] /\ slot[a].domain # d /\ slot[a].domain # Free
      BY <2>2, <1>4, <1>9
    <3>2. a \in Path(slot[a].domain) /\ \A j \in Places : slot[j].domain = slot[a].domain => a = j
      BY <1>8, <3>1 DEF TrackerInv, OneSlot
    <3> QED
      BY <3>1, <3>2, <1>3, <1>4
  <2> QED
    BY <2>1, <2>2
<1>11. SlotInv'
  <2> SUFFICES ASSUME NEW a \in Places, slot'[a].domain # Free PROVE Matches(slot'[a], hist'[slot'[a].domain])
    BY DEF SlotInv, Places
  <2>1. CASE a = i
    BY <2>1, <1>3, <1>4, <1>5
  <2>2. CASE a # i
    <3>1. slot'[a] = slot[a] /\ slot[a].domain # d /\ slot[a].domain # Free
      BY <2>2, <1>4, <1>9
    <3>2. slot[a].domain \in ParentDomains
      BY <1>1, <3>1 DEF SlotRecord
    <3>3. slot[i].domain # slot[a].domain
      BY <1>1, <1>8, <2>2, <3>1 DEF TrackerInv, OneSlot
    <3>4. hist'[slot[a].domain] = hist[slot[a].domain]
      BY <1>5, <3>1, <3>2, <3>3
    <3>5. Matches(slot[a], hist[slot[a].domain])
      BY <3>1 DEF TrackerInv, SlotInv
    <3> QED
      BY <3>1, <3>4, <3>5
  <2> QED
    BY <2>1, <2>2
<1>12. /\ answer'.domain = d /\ answer'.jitter = calculateJitter(new)
       /\ answer'.unique = new.unique /\ answer'.count = new.count
  BY DEF Entered
<1>13. RingMatches(new, g) /\ Counts(new, RunSubs(g)) /\ Len(g) >= 1
  BY <1>3 DEF Matches, RingMatches
<1>14. AnswerFromRun'
  <2>1. PICK w : w = LastTimes(Run(g))
    OBVIOUS
  <2>2. w = Chronological(new) /\ Len(w) = new.count
    BY <1>3, <1>13, <2>1, AnswerMatches
  <2>3. answer'.count = Len(w) /\ answer'.jitter = IF Len(w) < 4 THEN 100 ELSE Variation(w)
    BY <1>12, <2>2 DEF calculateJitter
  <2>4. LastTimes(Run(hist'[answer'.domain])) = w
    BY <1>5, <1>12, <2>1
  <2> QED
    BY <2>3, <2>4 DEF AnswerFromRun
<1>15. NeverOvercounts'
  <2>1. {Run(g)[j].sub : j \in DOMAIN Run(g)} \ {NoSub} = RunSubs(g)
    BY <1>13, SubsOfRun
  <2>2. hist'[answer'.domain] = g
    BY <1>5, <1>12
  <2>3. answer'.unique <= Cardinality(RunSubs(g)) /\ (RunSubs(g) # {} => answer'.unique > 0)
    BY <1>12, <1>13 DEF Counts
  <2> QED
    BY <2>1, <2>2, <2>3 DEF NeverOvercounts
<1> QED
  BY <1>7, <1>10, <1>11, <1>14, <1>15 DEF TrackerInv

LEMMA TrackerStart == TrackerInit => TrackerInv
<1> SUFFICES ASSUME TrackerInit PROVE TrackerInv
  OBVIOUS
<1>1. Empty(Free) \in SlotRecord /\ Empty(Free).domain = Free
  BY EmptyBlank
<1>2. slot \in [Places -> SlotRecord] /\ \A i \in Places : slot[i].domain = Free
  BY <1>1 DEF TrackerInit, Places
<1>3. DOMAIN slot = Places
  BY <1>2
<1>4. hist \in [ParentDomains -> Seq(Queried)] /\ evictions \in Nat
  BY DEF TrackerInit
<1>5. OneSlot /\ SlotInv
  BY <1>2, <1>3 DEF OneSlot, SlotInv
<1>6. answer.domain = Free
  BY DEF TrackerInit
<1> QED
  BY <1>2, <1>4, <1>5, <1>6 DEF TrackerInv, TrackerTypeInv, AnswerFromRun, NeverOvercounts

LEMMA TrackerStep == TrackerInv /\ [TrackerNext]_trackerVars => TrackerInv'
<1> SUFFICES ASSUME TrackerInv, [TrackerNext]_trackerVars PROVE TrackerInv'
  OBVIOUS
<1>1. CASE NotFollowed
  <2>1. slot' = slot /\ hist' = hist /\ evictions' = evictions /\ answer'.domain = Free
    BY <1>1 DEF NotFollowed
  <2>2. AnswerFromRun' /\ NeverOvercounts'
    BY <2>1 DEF AnswerFromRun, NeverOvercounts
  <2>3. TrackerTypeInv' /\ OneSlot' /\ SlotInv'
    BY <2>1 DEF TrackerInv, TrackerTypeInv, OneSlot, SlotInv
  <2> QED
    BY <2>2, <2>3 DEF TrackerInv
<1>2. ASSUME NEW d \in ParentDomains, NEW sub \in Subs \cup {NoSub}, NEW now \in Times, RecordQuery(d, sub, now)
      PROVE  TrackerInv'
  BY <1>2, QueryEffect, EnteredKeeps
<1>3. CASE UNCHANGED trackerVars
  BY ZenonT(30), <1>3 DEF trackerVars, TrackerInv, TrackerTypeInv, OneSlot, SlotInv, AnswerFromRun, NeverOvercounts
<1> QED
  BY <1>1, <1>2, <1>3 DEF TrackerNext, Queries

(* For any number of domains, slots and probes, any window, any hash       *)
(* functions and clocks that go anywhere: what RecordQuery answers is      *)
(* about the current run of the domain alone, its history is in one slot,  *)
(* and an active one that is lost was counted and the least recently seen. *)
THEOREM HistoryIsTrue == TrackerSpec => HistoryTrue
<1>1. TrackerInv => RingsTyped /\ AnswerFromRun /\ NeverOvercounts /\ OneSlot
  <2> SUFFICES ASSUME TrackerInv PROVE RingsTyped
    BY DEF TrackerInv
  <2>1. slot \in [Places -> SlotRecord]
    BY DEF TrackerInv, TrackerTypeInv
  <2> QED
    BY <2>1 DEF RingsTyped, SlotRecord
<1>2. TrackerInv /\ [TrackerNext]_trackerVars =>
        [\A i \in DOMAIN slot :
           LET d == slot'[i].domain IN
           slot[i].domain \notin {Free, d} =>
             \/ Stale(slot[i], slot'[i].last)
             \/ evictions' = evictions + 1 /\ \A j \in Path(d) : slot[i].last <= slot[j].last]_trackerVars
  <2> SUFFICES ASSUME TrackerInv, [TrackerNext]_trackerVars, NEW a \in DOMAIN slot,
                      slot[a].domain # Free, slot[a].domain # slot'[a].domain
               PROVE  \/ Stale(slot[a], slot'[a].last)
                      \/ evictions' = evictions + 1 /\ \A j \in Path(slot'[a].domain) : slot[a].last <= slot[j].last
    OBVIOUS
  <2>1. slot' # slot
    OBVIOUS
  <2>2. PICK d \in ParentDomains, sub \in Subs \cup {NoSub}, now \in Times : RecordQuery(d, sub, now)
    BY <2>1 DEF TrackerNext, Queries, NotFollowed, trackerVars
  <2>3. PICK q : q = [time |-> now, sub |-> sub]
    OBVIOUS
  <2>4. PICK i, new : Entered(d, q, i, new)
    BY <2>2, <2>3, QueryEffect
  <2>5. slot \in [Places -> SlotRecord] /\ evictions \in Nat
    BY DEF TrackerInv, TrackerTypeInv
  <2>6. /\ i \in Places /\ slot' = [slot EXCEPT ![i] = new] /\ new.domain = d /\ new.last = q.time
        /\ Taken(d, q.time, IF evictions' = evictions THEN 1 ELSE 0, i)
        /\ evictions' \in {evictions, evictions + 1}
    BY <2>4 DEF Entered, Taken
  <2>7. a = i /\ slot'[a].domain = d /\ slot'[a].last = q.time
    BY <2>5, <2>6
  <2>8. \/ Stale(slot[a], q.time)
        \/ (IF evictions' = evictions THEN 1 ELSE 0) = 0 /\ \A j \in Path(d) : slot[a].last <= slot[j].last
    BY <2>6, <2>7 DEF Taken
  <2>9. (IF evictions' = evictions THEN 1 ELSE 0) = 0 => evictions' = evictions + 1
    BY <2>6
  <2> QED
    BY <2>7, <2>8, <2>9
<1> QED
  BY <1>1, <1>2, TrackerStart, TrackerStep, PTL DEF TrackerSpec, HistoryTrue, LossCounted

-----------------------------------------------------------------------------
(* The codebook.                                                           *)

BookRecord == [kind : {"header", "entry", "hole"}, n : Nat]
PromoterRecord ==
  [pc : {"idle", "approved", "create", "write", "read", "swap"}, approved : Seq(DOMAIN Case),
   merged : Seq(Nat), pos : Nat, got : Seq(BookRecord)]
Learnable == {e \in DOMAIN Case : Earned(e)}

(* Records that are the beginning of the file of a book.                   *)
Beginning(f, b) ==
  /\ f \in Seq(BookRecord) /\ Len(f) <= Len(b) + 1
  /\ \A k \in 1 .. Len(f) : f[k] = IF k = 1 THEN HeaderRecord(Len(b)) ELSE EntryRecord(b[k - 1])

(* The parts of the invariant.  The file is the beginning of a book that   *)
(* was composed, and a promoter at work knows of which, and how far.       *)
BookTypeInv ==
  /\ chamber \in Seq(DOMAIN Case) /\ Len(chamber) <= Capacity
  /\ promoter \in [Promoters -> PromoterRecord]
  /\ up \in BOOLEAN
LearntInv ==
  /\ \A i \in Promoters : Range(promoter[i].approved) \subseteq Learnable
  /\ \A b \in books : b \in Seq(Nat) /\ Range(b) \subseteq Range(Base) \cup Learnable
  /\ current \in books \cup {<<>>} /\ (up => current \in books)
FileInv == \E b \in books : Beginning(file, b)
Knows(q) ==
  /\ q.approved = <<>> <=> q.pc = "idle"
  /\ ~up => q.pc = "idle"
  /\ q.pc \in {"idle", "approved", "create", "write"} => q.got = <<>>
  /\ q.pc \in {"create", "write", "read", "swap"} => q.merged \in books /\ q.merged = current \o q.approved
  /\ q.pc = "write" => Beginning(file, q.merged) /\ q.pos = Len(file) /\ q.pos <= Len(q.merged)
  /\ q.pc = "read" => Beginning(file, q.merged) /\ Beginning(q.got, q.merged) /\ q.pos = Len(q.got) /\ q.pos <= Len(file)
  /\ q.pc = "swap" => Beginning(q.got, q.merged) /\ Complete(q.got)
PromoterInv == \A i \in Promoters : Knows(promoter[i])
BookInv == BookTypeInv /\ LearntInv /\ FileInv /\ PromoterInv

-----------------------------------------------------------------------------
(* What Selected returns is in the set.                                    *)
LEMMA SelectedMembers ==
  ASSUME NEW C, NEW s \in Seq(C), NEW S
  PROVE  Selected(s, S) \in Seq(C \cap S)
<1> DEFINE Step(f, k) == IF k = 0 THEN <<>> ELSE IF s[k] \in S THEN Append(f[k - 1], s[k]) ELSE f[k - 1]
           Fits(f, n) == f = [k \in 0 .. n |-> Step(f, k)]
           Bad == {n \in Nat : n <= Len(s) /\ ~\E f : Fits(f, n)}
           F == CHOOSE f : Fits(f, Len(s))
<1>1. Bad = {}
  <2> SUFFICES ASSUME Bad # {} PROVE FALSE
    OBVIOUS
  <2>1. PICK n \in Bad : \A m \in Bad : n <= m
    BY NatMinimum
  <2>2. n # 0
    <3>1. Fits([k \in 0 .. 0 |-> <<>>], 0)
      OBVIOUS
    <3> QED
      BY <2>1, <3>1
  <2>3. n - 1 \in Nat /\ n - 1 <= Len(s) /\ n - 1 \notin Bad
    <3>1. n \in Nat /\ n <= Len(s)
      BY <2>1
    <3>2. ~(n <= n - 1) /\ n - 1 \in Nat /\ n - 1 <= Len(s)
      BY <3>1, <2>2
    <3> QED
      BY <2>1, <3>2, Zenon
  <2>4. PICK f : Fits(f, n - 1)
    BY <2>3
  <2> DEFINE h == [k \in 0 .. n |-> IF k = n THEN Step(f, n) ELSE f[k]]
  <2>5. \A k \in 0 .. n : h[k] = Step(h, k)
    <3> SUFFICES ASSUME NEW k \in 0 .. n PROVE h[k] = Step(h, k)
      OBVIOUS
    <3>1. k # 0 => k - 1 \in 0 .. n /\ k - 1 # n /\ h[k - 1] = f[k - 1]
      BY <2>1
    <3>2. CASE k = n
      BY <3>1, <3>2, <2>1, <2>2
    <3>3. CASE k # n
      <4>1. k \in 0 .. n - 1
        BY <3>3, <2>1, <2>2
      <4>2. f[k] = Step(f, k)
        BY <4>1, <2>4
      <4> QED
        BY <3>1, <3>3, <4>2
    <3> QED
      BY <3>2, <3>3
  <2>6. Fits(h, n)
    BY <2>5
  <2> QED
    BY <2>1, <2>6
<1>2. Fits(F, Len(s))
  <2>1. \E f : Fits(f, Len(s))
    BY <1>1
  <2> QED
    BY <2>1
<1> HIDE DEF F
<1>3. ASSUME NEW k \in 0 .. Len(s) PROVE F[k] = Step(F, k)
  BY <1>2
<1> DEFINE Wrong == {n \in Nat : n <= Len(s) /\ F[n] \notin Seq(C \cap S)}
<1>4. Wrong = {}
  <2> SUFFICES ASSUME Wrong # {} PROVE FALSE
    OBVIOUS
  <2>1. PICK n \in Wrong : \A m \in Wrong : n <= m
    BY NatMinimum
  <2>2. n \in 0 .. Len(s) /\ F[n] \notin Seq(C \cap S)
    BY <2>1
  <2>3. F[n] = Step(F, n)
    BY <1>3, <2>2
  <2>4. n # 0
    BY <2>2, <2>3
  <2>5. F[n - 1] \in Seq(C \cap S)
    BY <2>1, <2>4
  <2>6. s[n] \in C
    BY <2>1, <2>4
  <2>7. F[n] \in Seq(C \cap S)
    <3> HIDE DEF Wrong
    <3> QED
      BY <2>3, <2>4, <2>5, <2>6
  <2> QED
    BY <2>1, <2>7
<1>5. F[Len(s)] \in Seq(C \cap S)
  BY <1>4
<1>6. Selected(s, S) = F[Len(s)]
  BY DEF Selected, F
<1> QED
  BY <1>5, <1>6

-----------------------------------------------------------------------------
(* The file of a book.                                                     *)
LEMMA RecordsOf ==
  ASSUME NEW b \in Seq(Nat)
  PROVE  Records(b) \in Seq(BookRecord) /\ Len(Records(b)) = Len(b) + 1 /\ Beginning(Records(b), b)
<1> DEFINE e == [i \in 1 .. Len(b) |-> EntryRecord(b[i])]
           h == <<HeaderRecord(Len(b))>>
<1>1. e \in Seq(BookRecord) /\ Len(e) = Len(b) /\ \A k \in 1 .. Len(b) : e[k] = EntryRecord(b[k])
  BY DEF BookRecord, EntryRecord
<1>2. h \in Seq(BookRecord) /\ Len(h) = 1 /\ h[1] = HeaderRecord(Len(b))
  BY DEF BookRecord, HeaderRecord
<1> HIDE DEF e, h
<1>3. PICK r : r = h \o e
  OBVIOUS
<1>4. /\ r \in Seq(BookRecord) /\ Len(r) = Len(b) + 1
      /\ \A k \in 1 .. Len(b) + 1 : r[k] = IF k <= 1 THEN h[k] ELSE e[k - 1]
  <2>1. /\ r \in Seq(BookRecord) /\ Len(r) = Len(h) + Len(e)
        /\ \A k \in 1 .. Len(h) + Len(e) : r[k] = IF k <= Len(h) THEN h[k] ELSE e[k - Len(h)]
    BY <1>1, <1>2, <1>3, ConcatProperties, ZenonT(30)
  <2>2. Len(b) \in Nat /\ Len(h) + Len(e) = Len(b) + 1
    BY <1>1, <1>2
  <2> QED
    BY <1>2, <2>1, <2>2
<1>5. ASSUME NEW k \in 1 .. Len(r) PROVE r[k] = IF k = 1 THEN HeaderRecord(Len(b)) ELSE EntryRecord(b[k - 1])
  <2>1. CASE k = 1
    BY <1>2, <1>4, <2>1
  <2>2. CASE k # 1
    <3>1. k - 1 \in 1 .. Len(b) /\ r[k] = e[k - 1]
      BY <1>4, <2>2
    <3> QED
      BY <1>1, <2>2, <3>1
  <2> QED
    BY <2>1, <2>2
<1>6. Records(b) = r
  BY <1>3 DEF Records, e, h
<1> QED
  BY <1>4, <1>5, <1>6 DEF Beginning

(* A block of it, from a position on.                                      *)
LEMMA BlockOf ==
  ASSUME NEW recs \in Seq(BookRecord), NEW pos \in 0 .. Len(recs), NEW d, d = NextBlock(recs, pos)
  PROVE  /\ d \in Seq(BookRecord) /\ pos + Len(d) <= Len(recs)
         /\ \A k \in 1 .. Len(d) : d[k] = recs[pos + k]
<1> DEFINE n == IF pos + BlockRecords < Len(recs) THEN pos + BlockRecords ELSE Len(recs)
<1>1. n \in Nat /\ pos <= n /\ n <= Len(recs)
  BY PromotionAssumption
<1>2. d = SubSeq(recs, pos + 1, n)
  BY DEF NextBlock
<1> HIDE DEF n
<1>3. Len(d) = n - pos
  BY <1>1, <1>2
<1>4. \A k \in 1 .. Len(d) : d[k] = recs[pos + k]
  BY <1>1, <1>2, <1>3
<1>5. d \in Seq(BookRecord)
  BY <1>1, <1>2
<1> QED
  BY <1>1, <1>3, <1>4, <1>5

(* r is the file f with the block d that follows it in g.                  *)
Continues(r, f, d, g) ==
  /\ r \in Seq(BookRecord) /\ Len(r) = Len(f) + Len(d)
  /\ Len(f) <= Len(g) /\ d = NextBlock(g, Len(f))
  /\ \A k \in 1 .. Len(f) : r[k] = f[k]
  /\ \A k \in 1 .. Len(d) : r[Len(f) + k] = d[k]

(* A beginning followed by a block of the same file is a beginning.        *)
LEMMA Continued ==
  ASSUME NEW b \in Seq(Nat), NEW f, Beginning(f, b), NEW g, Beginning(g, b),
         NEW d, NEW r, Continues(r, f, d, g)
  PROVE  Beginning(r, b) /\ Len(r) <= Len(g)
<1> USE DEF Continues
<1>1. /\ f \in Seq(BookRecord) /\ g \in Seq(BookRecord) /\ Len(g) <= Len(b) + 1
      /\ Len(f) \in 0 .. Len(g)
  BY DEF Beginning
<1>2. /\ d \in Seq(BookRecord) /\ Len(f) + Len(d) <= Len(g)
      /\ \A k \in 1 .. Len(d) : d[k] = g[Len(f) + k]
  BY <1>1, BlockOf
<1>3. ASSUME NEW k \in 1 .. Len(r) PROVE r[k] = IF k = 1 THEN HeaderRecord(Len(b)) ELSE EntryRecord(b[k - 1])
  <2>1. CASE k <= Len(f)
    <3>1. k \in 1 .. Len(f)
      BY <1>1, <2>1
    <3> QED
      BY <3>1 DEF Beginning
  <2>2. CASE ~(k <= Len(f))
    <3>1. k - Len(f) \in 1 .. Len(d) /\ k = Len(f) + (k - Len(f)) /\ k \in 1 .. Len(g)
      BY <1>1, <1>2, <2>2
    <3>2. r[k] = g[k]
      BY <1>2, <3>1
    <3> QED
      BY <3>1, <3>2 DEF Beginning
  <2> QED
    BY <2>1, <2>2
<1> QED
  BY <1>1, <1>2, <1>3 DEF Beginning

(* A write at the end of the file, and a read of what follows.             *)
LEMMA Written ==
  ASSUME NEW b \in Seq(Nat), NEW f, Beginning(f, b), NEW d, d = NextBlock(Records(b), Len(f))
  PROVE  /\ Beginning(WriteAt(f, Len(f), d), b)
         /\ Len(WriteAt(f, Len(f), d)) = Len(f) + Len(d) /\ Len(f) + Len(d) <= Len(b) + 1
<1>1. Records(b) \in Seq(BookRecord) /\ Len(Records(b)) = Len(b) + 1 /\ Beginning(Records(b), b)
  BY RecordsOf
<1>2. f \in Seq(BookRecord) /\ Len(f) \in 0 .. Len(Records(b))
  BY <1>1 DEF Beginning
<1>3. d \in Seq(BookRecord) /\ Len(f) + Len(d) <= Len(b) + 1
  BY <1>1, <1>2, BlockOf
<1>4. PICK l, m \in Nat : l = Len(f) /\ m = Len(d)
  BY <1>2, <1>3
<1>5. PICK r : r = [k \in 1 .. l + m |-> IF k <= l THEN f[k] ELSE d[k - l]]
  OBVIOUS
<1>6. WriteAt(f, Len(f), d) = r
  <2>1. (IF Len(f) > l + m THEN Len(f) ELSE l + m) = l + m
    BY <1>4
  <2>2. \A k \in 1 .. l + m :
          (IF k > l /\ k <= l + m THEN d[k - l] ELSE IF k <= l THEN f[k] ELSE Hole) = IF k <= l THEN f[k] ELSE d[k - l]
    OBVIOUS
  <2> QED
    BY <1>4, <1>5, <2>1, <2>2 DEF WriteAt
<1>7. r \in Seq(BookRecord) /\ Len(r) = l + m
  <2>1. ASSUME NEW k \in 1 .. l + m PROVE (IF k <= l THEN f[k] ELSE d[k - l]) \in BookRecord
    <3>1. CASE k <= l
      BY <1>2, <1>4, <3>1
    <3>2. CASE ~(k <= l)
      <4>1. k - l \in 1 .. m
        BY <3>2
      <4> QED
        BY <1>3, <1>4, <3>2, <4>1
    <3> QED
      BY <3>1, <3>2
  <2> QED
    BY <1>5, <2>1
<1>8. /\ \A k \in 1 .. l : r[k] = f[k]
      /\ \A k \in 1 .. m : r[l + k] = d[k]
  BY <1>5
<1>9. Beginning(r, b)
  <2>1. /\ Len(r) = Len(f) + Len(d) /\ Len(f) <= Len(Records(b))
        /\ \A k \in 1 .. Len(f) : r[k] = f[k]
        /\ \A k \in 1 .. Len(d) : r[Len(f) + k] = d[k]
    BY <1>2, <1>4, <1>7, <1>8
  <2>2. PICK g : g = Records(b)
    OBVIOUS
  <2>3. Beginning(g, b) /\ Continues(r, f, d, g)
    BY <1>1, <1>7, <2>1, <2>2 DEF Continues
  <2> QED
    BY <2>3, Continued
<1> QED
  BY <1>3, <1>4, <1>6, <1>7, <1>9

LEMMA ReadOn ==
  ASSUME NEW b \in Seq(Nat), NEW f, Beginning(f, b), NEW g, Beginning(g, b), Len(f) <= Len(g),
         NEW d, d = NextBlock(g, Len(f))
  PROVE  Beginning(f \o d, b) /\ Len(f \o d) = Len(f) + Len(d) /\ Len(f \o d) <= Len(g)
<1>1. f \in Seq(BookRecord) /\ g \in Seq(BookRecord) /\ Len(f) \in 0 .. Len(g)
  BY DEF Beginning
<1>2. d \in Seq(BookRecord)
  BY <1>1, BlockOf
<1>3. PICK r : r = f \o d
  OBVIOUS
<1>4. /\ r \in Seq(BookRecord) /\ Len(r) = Len(f) + Len(d)
      /\ \A k \in 1 .. Len(f) : r[k] = f[k]
      /\ \A k \in 1 .. Len(d) : r[Len(f) + k] = d[k]
  BY <1>1, <1>2, <1>3
<1>5. Continues(r, f, d, g)
  BY <1>4 DEF Continues
<1>6. Beginning(r, b) /\ Len(r) <= Len(g)
  BY <1>5, Continued
<1> QED
  BY <1>3, <1>4, <1>6

(* A beginning that LoadCodebook takes is the whole book.                  *)
LEMMA LoadsWhole ==
  ASSUME NEW b \in Seq(Nat), NEW f, Beginning(f, b), Complete(f)
  PROVE  Loaded(f) = b
<1>1. f \in Seq(BookRecord) /\ f # <<>> /\ Len(f) > f[1].n /\ Len(f) <= Len(b) + 1
  BY DEF Complete, HeaderOK, Beginning
<1>2. Len(f) >= 1
  BY <1>1
<1>3. f[1] = HeaderRecord(Len(b))
  BY <1>2 DEF Beginning
<1>4. f[1].n = Len(b)
  BY <1>3 DEF HeaderRecord
<1>5. Len(f) = Len(b) + 1
  BY <1>1, <1>4
<1>6. ASSUME NEW k \in 1 .. Len(b) PROVE f[k + 1].n = b[k]
  <2>1. k + 1 \in 1 .. Len(f) /\ k + 1 # 1 /\ (k + 1) - 1 = k
    BY <1>5
  <2>2. f[k + 1] = EntryRecord(b[k])
    BY <2>1 DEF Beginning
  <2> QED
    BY <2>2 DEF EntryRecord
<1>7. (IF Len(f) - 1 < f[1].n THEN Len(f) - 1 ELSE f[1].n) = Len(b)
  BY <1>4, <1>5
<1>8. Loaded(f) = [k \in 1 .. Len(b) |-> f[k + 1].n]
  BY <1>7 DEF Loaded
<1>9. Loaded(f) = [k \in 1 .. Len(b) |-> b[k]]
  BY <1>6, <1>8
<1> QED
  BY <1>9

-----------------------------------------------------------------------------
LEMMA RangeOfConcat ==
  ASSUME NEW a \in Seq(Nat), NEW b \in Seq(Nat)
  PROVE  a \o b \in Seq(Nat) /\ Range(a \o b) = Range(a) \cup Range(b)
<1>1. PICK r : r = a \o b
  OBVIOUS
<1>2. PICK l, m \in Nat : l = Len(a) /\ m = Len(b)
  OBVIOUS
<1>3. r \in Seq(Nat) /\ Len(r) = l + m /\ \A k \in 1 .. l + m : r[k] = IF k <= l THEN a[k] ELSE b[k - l]
  BY <1>1, <1>2, ConcatProperties
<1>4. DOMAIN r = 1 .. l + m /\ DOMAIN a = 1 .. l /\ DOMAIN b = 1 .. m
  BY <1>2, <1>3
<1>5. Range(r) \subseteq Range(a) \cup Range(b)
  <2> SUFFICES ASSUME NEW k \in 1 .. l + m PROVE r[k] \in Range(a) \cup Range(b)
    BY <1>4 DEF Range
  <2>1. k <= l => k \in 1 .. l
    OBVIOUS
  <2>2. ~(k <= l) => k - l \in 1 .. m
    OBVIOUS
  <2> QED
    BY <1>3, <1>4, <2>1, <2>2 DEF Range
<1>6. ASSUME NEW k \in 1 .. l PROVE a[k] \in Range(r)
  <2>1. k \in 1 .. l + m /\ k <= l
    OBVIOUS
  <2> QED
    BY <1>3, <1>4, <2>1 DEF Range
<1>7. ASSUME NEW k \in 1 .. m PROVE b[k] \in Range(r)
  <2>1. l + k \in 1 .. l + m /\ ~(l + k <= l) /\ (l + k) - l = k
    OBVIOUS
  <2>2. r[l + k] = b[k]
    BY <1>3, <2>1
  <2> QED
    BY <1>4, <2>1, <2>2 DEF Range
<1>8. Range(a) \cup Range(b) \subseteq Range(r)
  BY <1>4, <1>6, <1>7 DEF Range
<1> QED
  BY <1>1, <1>3, <1>5, <1>8

(* Incidents are entries.                                                  *)
LEMMA IncidentsAreEntries ==
  ASSUME NEW a \in Seq(DOMAIN Case)
  PROVE  a \in Seq(Nat)
<1>1. DOMAIN Case \subseteq Nat
  BY PromotionAssumption
<1>2. \A k \in 1 .. Len(a) : a[k] \in DOMAIN Case
  OBVIOUS
<1> QED
  BY <1>1, <1>2

LEMMA IdlePromoterTyped == IdleP \in PromoterRecord
  BY DEF IdleP, PromoterRecord

(* A promoter that holds approved entries and nothing else.                *)
LEMMA ApprovedRecord ==
  ASSUME NEW a \in Seq(DOMAIN Case), NEW q,
         q = [pc |-> "approved", approved |-> a, merged |-> <<>>, pos |-> 0, got |-> <<>>]
  PROVE  q \in PromoterRecord /\ q.pc = "approved" /\ q.approved = a /\ q.got = <<>>
<1>1. <<>> \in Seq(Nat) /\ <<>> \in Seq(BookRecord)
  OBVIOUS
<1>2. q.pc = "approved" /\ q.approved = a /\ q.got = <<>>
  OBVIOUS
<1>3. PICK S : S = Seq(DOMAIN Case)
  OBVIOUS
<1>4. q \in [pc : {"approved"}, approved : S, merged : Seq(Nat), pos : Nat, got : Seq(BookRecord)]
  BY <1>1, <1>3
<1> QED
  BY <1>2, <1>3, <1>4 DEF PromoterRecord

LEMMA WithApproved ==
  ASSUME NEW a \in Seq(DOMAIN Case), NEW q, q = [IdleP EXCEPT !.pc = "approved", !.approved = a]
  PROVE  q \in PromoterRecord /\ q.pc = "approved" /\ q.approved = a /\ q.got = <<>>
<1>1. q = [pc |-> "approved", approved |-> a, merged |-> <<>>, pos |-> 0, got |-> <<>>]
  BY DEF IdleP
<1> QED
  BY <1>1, ApprovedRecord

LEMMA NothingBegins == \A b \in Seq(Nat) : Beginning(<<>>, b)
  BY DEF Beginning

LEMMA BookBegins == BookInit => BookInv
<1> SUFFICES ASSUME BookInit PROVE BookInv
  OBVIOUS
<1>1. Base \in Seq(Nat)
  BY PromotionAssumption
<1>2. BookTypeInv
  BY IdlePromoterTyped, PromotionAssumption DEF BookInit, BookTypeInv
<1>3. Range(<<>>) = {}
  BY DEF Range
<1>4. LearntInv
  BY <1>1, <1>3 DEF BookInit, LearntInv, IdleP
<1>5. FileInv
  BY <1>1, RecordsOf DEF BookInit, FileInv
<1>6. PromoterInv
  BY DEF BookInit, PromoterInv, Knows, IdleP
<1> QED
  BY <1>2, <1>4, <1>5, <1>6 DEF BookInv

(* A promoter that takes a step from a known state to another leaves the   *)
(* others as they are: what they know of the file or of the book in        *)
(* service changes only when it is its turn.                               *)
LEMMA OneSteps ==
  ASSUME BookInv, Turns, NEW i \in Promoters, NEW q \in PromoterRecord,
         promoter' = [promoter EXCEPT ![i] = q], up' = up, books \subseteq books', Knows(q)',
         Promoting(i) \/ (file' = file /\ current' = current), Range(q.approved) \subseteq Learnable
  PROVE  /\ promoter' \in [Promoters -> PromoterRecord] /\ PromoterInv'
         /\ \A j \in Promoters : Range(promoter'[j].approved) \subseteq Learnable
<1>1. promoter \in [Promoters -> PromoterRecord]
  BY DEF BookInv, BookTypeInv
<1>2. promoter'[i] = q /\ \A j \in Promoters : j # i => promoter'[j] = promoter[j]
  BY <1>1
<1>3. ASSUME NEW j \in Promoters, j # i PROVE Knows(promoter[j])'
  <2>1. Knows(promoter[j])
    BY DEF BookInv, PromoterInv
  <2>2. Promoting(j) => file' = file /\ current' = current
    BY <1>3 DEF Turns
  <2>3. PICK r : r = promoter[j]
    OBVIOUS
  <2>4. Knows(r) /\ (r.pc \in {"create", "write", "read", "swap"} => file' = file /\ current' = current)
    BY <2>1, <2>2, <2>3 DEF Promoting
  <2>5. Knows(r)'
    <3>1. \/ r.pc \notin {"create", "write", "read", "swap"}
          \/ file' = file /\ current' = current
      BY <2>4
    <3>2. CASE r.pc \notin {"create", "write", "read", "swap"}
      BY <2>4, <3>2 DEF Knows
    <3>3. CASE file' = file /\ current' = current
      BY <2>4, <3>3 DEF Knows
    <3> QED
      BY <3>1, <3>2, <3>3
  <2> QED
    BY <1>2, <1>3, <2>3, <2>5
<1>4. PromoterInv'
  BY <1>2, <1>3 DEF PromoterInv
<1>5. \A j \in Promoters : Range(promoter'[j].approved) \subseteq Learnable
  BY <1>2 DEF BookInv, LearntInv
<1> QED
  BY <1>1, <1>4, <1>5

LEMMA PromoterFacts ==
  ASSUME BookInv, NEW i \in Promoters
  PROVE  /\ promoter[i] \in PromoterRecord /\ Knows(promoter[i])
         /\ Range(promoter[i].approved) \subseteq Learnable
         /\ promoter[i].approved \in Seq(DOMAIN Case) /\ promoter[i].merged \in Seq(Nat) /\ promoter[i].pos \in Nat
  BY DEF BookInv, BookTypeInv, PromoterInv, LearntInv, PromoterRecord

(* The other parts of the invariant when the books stay.                   *)
LEMMA SameBooks ==
  ASSUME BookInv, books' = books, up' = up, chamber' \in Seq(DOMAIN Case), Len(chamber') <= Capacity,
         promoter' \in [Promoters -> PromoterRecord], PromoterInv',
         \A j \in Promoters : Range(promoter'[j].approved) \subseteq Learnable,
         file' = file \/ (\E b \in books : Beginning(file', b)), current' = current \/ current' \in books
  PROVE  BookInv'
<1>1. BookTypeInv'
  BY DEF BookInv, BookTypeInv
<1>2. LearntInv'
  BY DEF BookInv, LearntInv
<1>3. FileInv'
  BY DEF BookInv, FileInv
<1> QED
  BY <1>1, <1>2, <1>3 DEF BookInv

LEMMA ChamberTyped == BookInv => chamber \in Seq(DOMAIN Case) /\ Len(chamber) <= Capacity /\ <<>> \in Seq(DOMAIN Case)
                                 /\ Len(<<>>) <= Capacity
  BY PromotionAssumption DEF BookInv, BookTypeInv

LEMMA EnqueueKeeps ==
  ASSUME BookInv, NEW c \in DOMAIN Case, EnqueueIncident(c)
  PROVE  BookInv'
<1>1. chamber \in Seq(DOMAIN Case) /\ Len(chamber) < Capacity /\ chamber' = Append(chamber, c) /\ Capacity \in Nat
  BY ChamberTyped, PromotionAssumption DEF EnqueueIncident
<1>2. chamber' \in Seq(DOMAIN Case) /\ Len(chamber') <= Capacity
  BY <1>1
<1>3. UNCHANGED <<promoter, file, current, up, books>>
  BY DEF EnqueueIncident
<1>4. PromoterInv'
  BY <1>3 DEF BookInv, PromoterInv, Knows, Beginning, Complete, HeaderOK
<1>5. promoter' \in [Promoters -> PromoterRecord] /\ \A j \in Promoters : Range(promoter'[j].approved) \subseteq Learnable
  BY <1>3 DEF BookInv, BookTypeInv, LearntInv
<1> QED
  BY <1>2, <1>3, <1>4, <1>5, SameBooks

LEMMA ApprovedEarned ==
  ASSUME NEW args \in Calls, Usable(args), NEW c \in DOMAIN Case, Approved(c, Holdouts[args.holdout], args)
  PROVE  c \in Learnable
<1>1. PICK h : h = IF args.seal THEN "genuine" ELSE args.holdout
  OBVIOUS
<1>2. Holdouts[h] = Holdouts[args.holdout] /\ h # "nil"
  BY <1>1 DEF Usable
<1>3. Holdouts[h] # <<>> /\ args.pct >= 0
  BY <1>2 DEF Usable
<1>4. /\ Case[c].verdict \in HostileVerdict
      /\ Collisions(c, Holdouts[h], args.seal) * 100 <= args.pct * Len(Holdouts[h])
  BY <1>2 DEF Approved
<1> QED
  BY <1>1, <1>2, <1>3, <1>4 DEF Learnable, Earned

LEMMA ValidateKeeps ==
  ASSUME BookInv, Turns, NEW i \in Promoters, NEW args \in Calls, ValidateAgainstSealedHoldout(i, args)
  PROVE  BookInv'
<1>1. PICK S : S = {c \in DOMAIN Case : Approved(c, Holdouts[args.holdout], args)}
  OBVIOUS
<1>2. PICK ok : ok = Selected(chamber, S)
  OBVIOUS
<1>3. ok \in Seq(DOMAIN Case \cap S)
  BY <1>2, ChamberTyped, SelectedMembers
<1>4. S \subseteq Learnable
  BY <1>1, ApprovedEarned DEF ValidateAgainstSealedHoldout
<1>5. ok \in Seq(DOMAIN Case) /\ Range(ok) \subseteq Learnable
  <2>1. \A k \in 1 .. Len(ok) : ok[k] \in DOMAIN Case /\ ok[k] \in Learnable
    BY <1>3, <1>4
  <2>2. ok \in Seq(DOMAIN Case) /\ DOMAIN ok = 1 .. Len(ok)
    BY <1>3, <2>1
  <2> QED
    BY <2>1, <2>2 DEF Range
<1>6. PICK q : q = IF ok = <<>> THEN IdleP ELSE [IdleP EXCEPT !.pc = "approved", !.approved = ok]
  OBVIOUS
<1>7. /\ promoter' = [promoter EXCEPT ![i] = q] /\ chamber' = <<>> /\ up
      /\ UNCHANGED <<file, current, up, books>>
  BY <1>1, <1>2, <1>6 DEF ValidateAgainstSealedHoldout
<1>8. q \in PromoterRecord /\ q.approved = ok /\ q.got = <<>> /\ q.pc = IF ok = <<>> THEN "idle" ELSE "approved"
  <2>1. CASE ok = <<>>
    BY <1>6, <2>1, IdlePromoterTyped DEF IdleP
  <2>2. CASE ok # <<>>
    BY <1>5, <1>6, <2>2, WithApproved
  <2> QED
    BY <2>1, <2>2
<1>9. Knows(q)'
  BY <1>7, <1>8 DEF Knows
<1>10. /\ promoter' \in [Promoters -> PromoterRecord] /\ PromoterInv'
       /\ \A j \in Promoters : Range(promoter'[j].approved) \subseteq Learnable
  BY <1>5, <1>7, <1>8, <1>9, OneSteps
<1> QED
  BY <1>7, <1>10, SameBooks, ChamberTyped

LEMMA MergeKeeps ==
  ASSUME BookInv, Turns, NEW i \in Promoters, Merge(i)
  PROVE  BookInv'
<1>1. PICK r \in PromoterRecord : r = promoter[i]
  BY PromoterFacts
<1>2. /\ r.pc = "approved" /\ r.got = <<>> /\ r.approved # <<>> /\ up
      /\ Range(r.approved) \subseteq Learnable /\ r.approved \in Seq(DOMAIN Case)
  BY <1>1, PromoterFacts DEF Merge, Knows
<1>3. current \in books /\ current \in Seq(Nat) /\ Range(current) \subseteq Range(Base) \cup Learnable
  BY <1>2 DEF BookInv, LearntInv
<1>4. PICK m : m = current \o r.approved
  OBVIOUS
<1>5. m \in Seq(Nat) /\ Range(m) \subseteq Range(Base) \cup Learnable
  BY <1>2, <1>3, <1>4, RangeOfConcat, IncidentsAreEntries
<1>6. PICK q : q = [r EXCEPT !.pc = "create", !.merged = m]
  OBVIOUS
<1>7. promoter' = [promoter EXCEPT ![i] = q] /\ books' = books \cup {m} /\ UNCHANGED <<chamber, file, current, up>>
  BY <1>1, <1>4, <1>6 DEF Merge, MergedBook
<1>8. /\ q \in PromoterRecord /\ q.pc = "create" /\ q.merged = m /\ q.approved = r.approved
      /\ q.got = <<>>
  BY <1>2, <1>5, <1>6 DEF PromoterRecord
<1>9. Knows(q)'
  BY <1>2, <1>4, <1>7, <1>8 DEF Knows
<1>10. /\ promoter' \in [Promoters -> PromoterRecord] /\ PromoterInv'
       /\ \A j \in Promoters : Range(promoter'[j].approved) \subseteq Learnable
  BY <1>2, <1>7, <1>8, <1>9, OneSteps
<1>11. BookTypeInv'
  BY <1>7, <1>10 DEF BookInv, BookTypeInv
<1>12. LearntInv'
  BY <1>3, <1>5, <1>7, <1>10 DEF BookInv, LearntInv
<1>13. FileInv'
  BY <1>7 DEF BookInv, FileInv
<1> QED
  BY <1>10, <1>11, <1>12, <1>13 DEF BookInv

(* A promoter that gives up, with its approved entries or without.         *)
LEMMA GivesUp ==
  ASSUME BookInv, Turns, NEW i \in Promoters, up, NEW q,
         \/ q = IdleP
         \/ promoter[i].approved # <<>> /\ q = [IdleP EXCEPT !.pc = "approved", !.approved = promoter[i].approved],
         promoter' = [promoter EXCEPT ![i] = q], UNCHANGED <<chamber, file, current, up, books>>
  PROVE  BookInv'
<1>1. Range(<<>>) = {}
  BY DEF Range
<1>2. /\ q \in PromoterRecord /\ Range(q.approved) \subseteq Learnable /\ q.got = <<>>
      /\ q.pc = IF q.approved = <<>> THEN "idle" ELSE "approved"
  <2>1. CASE q = IdleP
    BY <1>1, <2>1, IdlePromoterTyped DEF IdleP
  <2>2. CASE promoter[i].approved # <<>> /\ q = [IdleP EXCEPT !.pc = "approved", !.approved = promoter[i].approved]
    <3>1. PICK a \in Seq(DOMAIN Case) : a = promoter[i].approved
      BY PromoterFacts
    <3>2. q = [IdleP EXCEPT !.pc = "approved", !.approved = a] /\ a # <<>> /\ Range(a) \subseteq Learnable
      BY <2>2, <3>1, PromoterFacts
    <3> QED
      BY <3>2, WithApproved
  <2> QED
    BY <2>1, <2>2
<1>3. Knows(q)'
  BY <1>2 DEF Knows
<1>4. /\ promoter' \in [Promoters -> PromoterRecord] /\ PromoterInv'
      /\ \A j \in Promoters : Range(promoter'[j].approved) \subseteq Learnable
  BY <1>2, <1>3, OneSteps
<1> QED
  BY <1>4, SameBooks, ChamberTyped

(* A promoter whose turn it is takes a step.                               *)
LEMMA TakesTurn ==
  ASSUME BookInv, Turns, NEW i \in Promoters, Promoting(i), NEW q \in PromoterRecord,
         promoter' = [promoter EXCEPT ![i] = q], Knows(q)', q.approved = promoter[i].approved \/ q = IdleP,
         file' = file \/ (\E b \in books : Beginning(file', b)), current' = current \/ current' \in books,
         UNCHANGED <<chamber, up, books>>
  PROVE  BookInv'
<1>1. Range(q.approved) \subseteq Learnable
  BY PromoterFacts DEF IdleP, Range
<1>2. /\ promoter' \in [Promoters -> PromoterRecord] /\ PromoterInv'
      /\ \A j \in Promoters : Range(promoter'[j].approved) \subseteq Learnable
  BY <1>1, OneSteps
<1> QED
  BY <1>2, SameBooks, ChamberTyped

LEMMA CreateKeeps ==
  ASSUME BookInv, Turns, NEW i \in Promoters, Create(i)
  PROVE  BookInv'
<1>1. PICK r \in PromoterRecord : r = promoter[i]
  BY PromoterFacts
<1>2. r.pc = "create" /\ Knows(r) /\ r.merged \in Seq(Nat) /\ Promoting(i)
  BY <1>1, PromoterFacts DEF Create, Promoting
<1>3. PICK q : q = [r EXCEPT !.pc = "write", !.pos = 0]
  OBVIOUS
<1>4. promoter' = [promoter EXCEPT ![i] = q] /\ file' = <<>> /\ UNCHANGED <<chamber, current, up, books>>
  BY <1>1, <1>3 DEF Create
<1>5. /\ q \in PromoterRecord /\ q.pc = "write" /\ q.pos = 0 /\ q.merged = r.merged /\ q.approved = r.approved
      /\ q.got = r.got
  BY <1>3 DEF PromoterRecord
<1>6. Beginning(<<>>, r.merged) /\ r.merged \in books
  BY <1>2, NothingBegins DEF Knows
<1>7. 0 <= Len(r.merged) /\ Len(<<>>) = 0
  BY <1>2
<1>8. Knows(q)'
  BY <1>2, <1>4, <1>5, <1>6, <1>7 DEF Knows
<1> QED
  BY <1>1, <1>2, <1>4, <1>5, <1>6, <1>8, TakesTurn

LEMMA WriteKeeps ==
  ASSUME BookInv, Turns, NEW i \in Promoters, WriteBlock(i)
  PROVE  BookInv'
<1>1. PICK r \in PromoterRecord : r = promoter[i]
  BY PromoterFacts
<1>2. r.pc = "write" /\ Knows(r) /\ r.merged \in Seq(Nat) /\ Promoting(i)
  BY <1>1, PromoterFacts DEF WriteBlock, Promoting
<1>3. r.merged \in books /\ Beginning(file, r.merged) /\ r.pos = Len(file) /\ r.pos <= Len(r.merged)
  BY <1>2 DEF Knows
<1>4. PICK d : d = NextBlock(Records(r.merged), r.pos)
  OBVIOUS
<1>5. PICK w : w = WriteAt(file, r.pos, d)
  OBVIOUS
<1>6. Beginning(w, r.merged) /\ Len(w) = r.pos + Len(d) /\ r.pos + Len(d) <= Len(r.merged) + 1
  BY ZenonT(30), <1>2, <1>3, <1>4, <1>5, Written
<1>7. Len(Records(r.merged)) = Len(r.merged) + 1
  BY <1>2, RecordsOf
<1>8. PICK last \in BOOLEAN : last <=> r.pos + Len(d) = Len(r.merged) + 1
  OBVIOUS
<1>9. PICK q : q = [r EXCEPT !.pos = IF last THEN 0 ELSE r.pos + Len(d), !.pc = IF last THEN "read" ELSE "write"]
  OBVIOUS
<1>10. promoter' = [promoter EXCEPT ![i] = q] /\ file' = w /\ UNCHANGED <<chamber, current, up, books>>
  <2>1. file' = w /\ UNCHANGED <<chamber, current, up, books>>
    BY <1>1, <1>4, <1>5 DEF WriteBlock
  <2>2. promoter' = [promoter EXCEPT ![i].pos = IF r.pos + Len(d) = Len(r.merged) + 1 THEN 0 ELSE @ + Len(d),
                                     ![i].pc = IF r.pos + Len(d) = Len(r.merged) + 1 THEN "read" ELSE "write"]
    BY <1>1, <1>4, <1>7 DEF WriteBlock
  <2> QED
    BY <1>1, <1>8, <1>9, <2>1, <2>2
<1>11. r.pos + Len(d) \in Nat
  <2>1. w \in Seq(BookRecord)
    BY <1>6 DEF Beginning
  <2> QED
    BY <1>6, <2>1
<1>12. /\ q \in PromoterRecord /\ q.pc = (IF last THEN "read" ELSE "write") /\ q.merged = r.merged
       /\ q.pos = (IF last THEN 0 ELSE r.pos + Len(d)) /\ q.approved = r.approved /\ q.got = r.got
  BY <1>9, <1>11 DEF PromoterRecord
<1>13. /\ r.got = <<>> /\ Beginning(<<>>, r.merged) /\ Len(<<>>) = 0 /\ 0 <= Len(w)
       /\ (~last => r.pos + Len(d) <= Len(r.merged))
  <2>1. Len(r.merged) \in Nat
    BY <1>2
  <2>2. w \in Seq(BookRecord)
    BY <1>6 DEF Beginning
  <2> QED
    BY <1>2, <1>6, <1>8, <1>11, <2>1, <2>2, NothingBegins DEF Knows
<1>14. Knows(q)'
  <2>1. CASE last
    BY <1>2, <1>3, <1>6, <1>10, <1>12, <1>13, <2>1 DEF Knows
  <2>2. CASE ~last
    BY <1>2, <1>3, <1>6, <1>10, <1>12, <1>13, <2>2 DEF Knows
  <2> QED
    BY <2>1, <2>2
<1> QED
  BY <1>1, <1>2, <1>3, <1>6, <1>10, <1>12, <1>14, TakesTurn

LEMMA ReadKeeps ==
  ASSUME BookInv, Turns, NEW i \in Promoters, ReadBlock(i)
  PROVE  BookInv'
<1>1. PICK r \in PromoterRecord : r = promoter[i]
  BY PromoterFacts
<1>2. r.pc = "read" /\ Knows(r) /\ r.merged \in Seq(Nat) /\ Promoting(i) /\ up
  BY <1>1, PromoterFacts DEF ReadBlock, Promoting
<1>3. /\ r.merged \in books /\ Beginning(file, r.merged) /\ Beginning(r.got, r.merged) /\ r.pos = Len(r.got)
      /\ r.pos <= Len(file) /\ r.approved # <<>>
  BY <1>2 DEF Knows
<1>4. PICK d : d = NextBlock(file, r.pos)
  OBVIOUS
<1>5. PICK recs : recs = r.got \o d
  OBVIOUS
<1>6. Beginning(recs, r.merged) /\ Len(recs) = r.pos + Len(d) /\ Len(recs) <= Len(file)
  <2>1. PICK g : g = r.got
    OBVIOUS
  <2>2. /\ Beginning(g, r.merged) /\ Len(g) <= Len(file) /\ d = NextBlock(file, Len(g)) /\ recs = g \o d
        /\ r.pos = Len(g)
    BY <1>3, <1>4, <1>5, <2>1
  <2> QED
    BY <1>2, <1>3, <2>2, ReadOn
<1>7. recs \in Seq(BookRecord) /\ Len(recs) \in Nat
  BY <1>6 DEF Beginning
<1>8. UNCHANGED <<chamber, file, current, up, books>>
  BY DEF ReadBlock
<1>9. CASE Complete(recs)
  <2>1. PICK q : q = [r EXCEPT !.pc = "swap", !.got = recs]
    OBVIOUS
  <2>2. promoter' = [promoter EXCEPT ![i] = q]
    BY <1>1, <1>4, <1>5, <1>9, <2>1 DEF ReadBlock
  <2>3. /\ q \in PromoterRecord /\ q.pc = "swap" /\ q.got = recs /\ q.merged = r.merged /\ q.approved = r.approved
    BY <1>7, <2>1 DEF PromoterRecord
  <2>4. Knows(q)'
    BY <1>2, <1>6, <1>8, <1>9, <2>3 DEF Knows
  <2> QED
    BY <1>1, <1>2, <1>8, <2>2, <2>3, <2>4, TakesTurn
<1>10. CASE ~Complete(recs) /\ (~HeaderOK(recs) \/ d = <<>>)
  <2>1. promoter' = [promoter EXCEPT ![i] = [IdleP EXCEPT !.pc = "approved", !.approved = promoter[i].approved]]
    BY <1>1, <1>4, <1>5, <1>10 DEF ReadBlock
  <2> QED
    BY <1>1, <1>2, <1>3, <1>8, <2>1, GivesUp
<1>11. CASE ~Complete(recs) /\ ~(~HeaderOK(recs) \/ d = <<>>)
  <2>1. PICK q : q = [r EXCEPT !.pos = r.pos + Len(d), !.got = recs]
    OBVIOUS
  <2>2. promoter' = [promoter EXCEPT ![i] = q]
    BY <1>1, <1>4, <1>5, <1>11, <2>1 DEF ReadBlock
  <2>3. /\ q \in PromoterRecord /\ q.pc = "read" /\ q.got = recs /\ q.merged = r.merged /\ q.approved = r.approved
        /\ q.pos = r.pos + Len(d)
    BY <1>2, <1>6, <1>7, <2>1 DEF PromoterRecord
  <2>4. Knows(q)'
    BY <1>2, <1>3, <1>6, <1>8, <2>3 DEF Knows
  <2> QED
    BY <1>1, <1>2, <1>8, <2>2, <2>3, <2>4, TakesTurn
<1> QED
  BY <1>9, <1>10, <1>11

(* What a promoter that swaps puts in service.                             *)
LEMMA SwapLoads ==
  ASSUME BookInv, NEW i \in Promoters, Swap(i)
  PROVE  /\ current' = promoter[i].merged /\ promoter[i].merged \in books
         /\ promoter[i].merged = current \o promoter[i].approved /\ Promoting(i) /\ up
<1>1. PICK r \in PromoterRecord : r = promoter[i]
  BY PromoterFacts
<1>2. r.pc = "swap" /\ Knows(r) /\ r.merged \in Seq(Nat) /\ Promoting(i) /\ up
  BY <1>1, PromoterFacts DEF Swap, Promoting
<1>3. /\ r.merged \in books /\ r.merged = current \o r.approved /\ Beginning(r.got, r.merged) /\ Complete(r.got)
  BY <1>2 DEF Knows
<1>4. Loaded(r.got) = r.merged
  BY <1>2, <1>3, LoadsWhole
<1> QED
  BY <1>1, <1>2, <1>3, <1>4 DEF Swap

LEMMA SwapKeeps ==
  ASSUME BookInv, Turns, NEW i \in Promoters, Swap(i)
  PROVE  BookInv'
<1>1. current' \in books /\ Promoting(i) /\ up
  BY SwapLoads
<1>2. promoter' = [promoter EXCEPT ![i] = IdleP] /\ UNCHANGED <<chamber, file, up, books>>
  BY DEF Swap
<1>3. Knows(IdleP)'
  BY <1>1, <1>2 DEF Knows, IdleP
<1> QED
  BY <1>1, <1>2, <1>3, IdlePromoterTyped, TakesTurn

LEMMA CrashKeeps ==
  ASSUME BookInv, Crash
  PROVE  BookInv'
<1>1. /\ up' = FALSE /\ chamber' = <<>> /\ current' = <<>> /\ file' = file /\ books' = books
      /\ promoter' = [i \in Promoters |-> IdleP]
  BY DEF Crash
<1>2. BookTypeInv'
  BY <1>1, IdlePromoterTyped, ChamberTyped DEF BookTypeInv
<1>3. LearntInv'
  <2>1. Range(<<>>) = {}
    BY DEF Range
  <2> QED
    BY <1>1, <2>1 DEF BookInv, LearntInv, IdleP
<1>4. FileInv'
  BY <1>1 DEF BookInv, FileInv
<1>5. PromoterInv'
  BY <1>1 DEF PromoterInv, Knows, IdleP
<1> QED
  BY <1>2, <1>3, <1>4, <1>5 DEF BookInv

LEMMA RestartKeeps ==
  ASSUME BookInv, LoadAtomicCodebook
  PROVE  BookInv'
<1>1. /\ up' = TRUE /\ ~up /\ current' = Loaded(file) /\ Complete(file)
      /\ UNCHANGED <<chamber, promoter, file, books>>
  BY DEF LoadAtomicCodebook
<1>2. PICK b \in books : Beginning(file, b)
  BY DEF BookInv, FileInv
<1>3. b \in Seq(Nat)
  BY DEF BookInv, LearntInv
<1>4. current' = b
  BY <1>1, <1>2, <1>3, LoadsWhole
<1>5. BookTypeInv'
  BY <1>1 DEF BookInv, BookTypeInv
<1>6. LearntInv'
  BY <1>1, <1>2, <1>4 DEF BookInv, LearntInv
<1>7. FileInv'
  BY <1>1 DEF BookInv, FileInv
<1>8. ASSUME NEW i \in Promoters PROVE Knows(promoter[i])'
  <2>1. Knows(promoter[i]) /\ promoter[i].pc = "idle"
    BY <1>1 DEF BookInv, PromoterInv, Knows
  <2> QED
    BY <1>1, <2>1 DEF Knows
<1>9. PromoterInv'
  BY <1>8 DEF PromoterInv
<1> QED
  BY <1>5, <1>6, <1>7, <1>9 DEF BookInv

-----------------------------------------------------------------------------
LEMMA BookStep ==
  ASSUME BookInv, Turns, [BookNext]_bookVars
  PROVE  BookInv'
<1>1. CASE UNCHANGED bookVars
  <2>1. UNCHANGED <<chamber, promoter, file, current, up, books>>
    BY <1>1 DEF bookVars
  <2>2. BookTypeInv' /\ LearntInv' /\ FileInv'
    BY <2>1 DEF BookInv, BookTypeInv, LearntInv, FileInv
  <2>3. PromoterInv'
    BY <2>1 DEF BookInv, PromoterInv, Knows
  <2> QED
    BY <2>2, <2>3 DEF BookInv
<1>2. CASE \E c \in DOMAIN Case : EnqueueIncident(c)
  BY <1>2, EnqueueKeeps
<1>3. CASE \E i \in Promoters, args \in Calls : ValidateAgainstSealedHoldout(i, args)
  BY <1>3, ValidateKeeps
<1>4. ASSUME NEW i \in Promoters, Promote(i) PROVE BookInv'
  <2>1. CASE SaveFails(i)
    <3>1. promoter[i].approved # <<>>
      BY <2>1, PromoterFacts DEF SaveFails, Knows
    <3> QED
      BY <2>1, <3>1, GivesUp DEF SaveFails
  <2>2. CASE Abandon(i)
    BY <2>2, GivesUp DEF Abandon
  <2> QED
    BY <1>4, <2>1, <2>2, MergeKeeps, CreateKeeps, WriteKeeps, ReadKeeps, SwapKeeps DEF Promote
<1>5. CASE Crash
  BY <1>5, CrashKeeps
<1>6. CASE LoadAtomicCodebook
  BY <1>6, RestartKeeps
<1> QED
  BY <1>1, <1>2, <1>3, <1>4, <1>5, <1>6 DEF BookNext

(* The invariant has the state properties.                                 *)
LEMMA BookInvSuffices ==
  ASSUME BookInv
  PROVE  BookTypeOK /\ ActiveWhole /\ NoPoison
<1>1. ASSUME NEW i \in Promoters
      PROVE  /\ promoter[i].pc \in {"idle", "approved", "create", "write", "read", "swap"}
             /\ promoter[i].approved = <<>> <=> promoter[i].pc = "idle"
  BY PromoterFacts DEF PromoterRecord, Knows
<1>2. ASSUME NEW k \in DOMAIN file, file[k].kind = "header" PROVE k = 1
  <2>1. PICK b \in books : Beginning(file, b)
    BY DEF BookInv, FileInv
  <2>2. k \in 1 .. Len(file)
    BY <2>1 DEF Beginning
  <2>3. k # 1 => file[k] = EntryRecord(b[k - 1])
    BY <2>1, <2>2 DEF Beginning
  <2> QED
    BY <1>2, <2>3 DEF EntryRecord
<1>3. BookTypeOK
  BY <1>1, <1>2 DEF BookTypeOK, BookInv, BookTypeInv
<1>4. ActiveWhole
  BY DEF ActiveWhole, BookInv, LearntInv
<1>5. Range(current) \subseteq Range(Base) \cup Learnable
  <2>1. Range(<<>>) = {}
    BY DEF Range
  <2> QED
    BY <2>1 DEF BookInv, LearntInv
<1>6. NoPoison
  BY <1>5 DEF NoPoison, Learnable
<1> QED
  BY <1>3, <1>4, <1>6

(* While the engine runs, a step only adds to the book in service.         *)
LEMMA BookOnlyGrows ==
  ASSUME BookInv, [BookNext]_bookVars, up, up'
  PROVE  Range(current) \subseteq Range(current')
<1>1. CASE current' = current
  BY <1>1
<1>2. ASSUME NEW i \in Promoters, Swap(i) PROVE Range(current) \subseteq Range(current')
  <2>1. current' = current \o promoter[i].approved
    BY <1>2, SwapLoads
  <2>2. current \in Seq(Nat)
    BY DEF BookInv, LearntInv
  <2>3. promoter[i].approved \in Seq(Nat)
    BY PromoterFacts, IncidentsAreEntries
  <2> QED
    BY <2>1, <2>2, <2>3, RangeOfConcat
<1>3. current' = current \/ \E i \in Promoters : Swap(i)
  BY DEF BookNext, bookVars, EnqueueIncident, ValidateAgainstSealedHoldout, Promote, Merge, Create, WriteBlock,
         SaveFails, Abandon, ReadBlock, Crash, LoadAtomicCodebook
<1> QED
  BY <1>1, <1>2, <1>3

(* Promotion, for any number of promoters that take turns, any incidents,  *)
(* holdouts, books, sizes of block and crashes: the book in service is     *)
(* whole, every entry learnt was earned, and none leaves it while the      *)
(* engine runs.                                                            *)
THEOREM BookIsSound == BookSpec /\ []Turns => BookSound
<1>1. BookInit => BookInv
  BY BookBegins
<1>2. BookInv /\ Turns /\ [BookNext]_bookVars => BookInv'
  BY BookStep
<1>3. BookInv => BookTypeOK /\ ActiveWhole /\ NoPoison
  BY BookInvSuffices
<1>4. BookInv /\ [BookNext]_bookVars => [up /\ up' => Range(current) \subseteq Range(current')]_bookVars
  BY BookOnlyGrows
<1> QED
  BY <1>1, <1>2, <1>3, <1>4, PTL DEF BookSpec, BookSound, PromotedKept
=============================================================================
