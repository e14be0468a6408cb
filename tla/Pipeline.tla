------------------------------ MODULE Pipeline ------------------------------
(***************************************************************************)
(* The DNS evaluation pipeline of pipeline.go: callers that decide on      *)
(* packets under a read lock and queue the suspect ones, one worker that   *)
(* has them arbitrated, a writer of the audit file, and Close, which stops *)
(* all of them while any of the others is under way.                       *)
(*                                                                         *)
(* A packet is its traits: what parsing, entropy and shape controls say of *)
(* it.  What the temporal tracker answers is a choice (TemporalTracker).   *)
(***************************************************************************)
EXTENDS Integers, Sequences, SequencesExt, FiniteSets

CONSTANTS
  Callers,
  Packets,     \* records, see Packet
  Tables,      \* the reputation tables, records of blocks and allows
  QueueCap,    \* 64, the size of slmQueue
  AuditCap,    \* 64, the size of auditQueue
  MaxCalls     \* bound: the calls of EvaluatePacket

Packet ==
  [parse : {"error", "empty", "query"},
   reserved : BOOLEAN,   \* TXT under a bounded protocol label
   dense : BOOLEAN,      \* encoded, of high entropy, exotic or over bound
   shape : BOOLEAN,      \* a tunnel record, deep labels, few vowels
   high : BOOLEAN]       \* 4.2 bits per byte and more

ASSUME PipelineAssumption ==
  /\ Packets \subseteq Packet
  /\ Tables \subseteq [blocks : SUBSET Packet, allows : SUBSET Packet]
  /\ QueueCap \in Nat /\ AuditCap \in Nat /\ MaxCalls \in Nat

(* What the tracker says of a domain: fewer than 3 queries; 3 queries, at  *)
(* most 2 subdomains; more, without an alarm; regular, or many subdomains. *)
Tracked == {"few", "three", "many", "alarm"}

Tunnel == "DNS_TUNNEL_CONFIRMED"
Insufficient == "INSUFFICIENT_EVIDENCE"
Benign == {"BENIGN_AV_TELEMETRY", "BENIGN_DKIM_KEY", "BENIGN_CRYPTO_KEY"}
validSLMVerdict == Benign \cup {Tunnel, Insufficient}

VARIABLES
  rep,         \* the table behind the atomic pointer
  call,        \* caller -> the locals of its EvaluatePacket; met (history):
               \* the tables in service since it began
  calls,       \* the number of calls
  slmQueue,    \* the incidents that wait
  worker,      \* the worker: its step, and the incident it holds
  cancelled,   \* its context
  closer,      \* the step of Close
  waiting,     \* is Close waiting for the write lock?
  closed, queueClosed,
  audit,       \* the audit queue, its closing and what became of records
  sent,        \* history: the incidents accepted by the queue
  done,        \* history: what was delivered to the callback
  abandoned,   \* incidents counted in slmAbandoned
  results,     \* history: the answers of EvaluatePacket
  panic        \* history: a send on a closed channel

lifeVars == <<closer, waiting, closed, queueClosed>>
vars == <<rep, call, calls, slmQueue, worker, cancelled, lifeVars, audit, sent, done, abandoned, results, panic>>

Idle == [pc |-> "idle"]

Init ==
  /\ rep \in Tables
  /\ call = [c \in Callers |-> Idle] /\ calls = 0
  /\ slmQueue = <<>>
  /\ worker = [pc |-> "none"] /\ cancelled = FALSE
  /\ closer = "idle" /\ waiting = FALSE /\ closed = FALSE /\ queueClosed = FALSE
  /\ audit = [queue |-> <<>>, closed |-> FALSE, error |-> FALSE, written |-> {}, lost |-> {}, late |-> {}]
  /\ sent = {} /\ done = {} /\ abandoned = {} /\ results = {} /\ panic = FALSE

-----------------------------------------------------------------------------
(* lifeMu: a reader waits for a writer that waits.                         *)
Readers == {c \in Callers : call[c].pc # "idle"}
CanRead == ~waiting

(* logEvent, under logMu: a full queue leaves a lasting error.             *)
logEvent(r) ==
  IF audit.closed THEN [audit EXCEPT !.late = @ \cup {r}]
  ELSE IF Len(audit.queue) < AuditCap THEN [audit EXCEPT !.queue = Append(@, r)]
  ELSE [audit EXCEPT !.lost = @ \cup {r}, !.error = TRUE]

Result(c, decision) == [id |-> c.id, decision |-> decision]

(* EvaluatePacket to its first look at the reputation table.               *)
EvaluatePacket(c, p) ==
  /\ call[c].pc = "idle" /\ CanRead /\ calls < MaxCalls
  /\ calls' = calls + 1
  /\ LET me == [pc |-> "decide", id |-> calls + 1, packet |-> p, met |-> {rep}] IN
     IF closed \/ p.parse # "query"
       THEN /\ results' = results \cup
                 {Result(me, IF ~closed /\ p.parse = "empty" THEN "FastPass" ELSE "error")}
            /\ UNCHANGED <<call, audit>>
     ELSE IF p \in rep.blocks
       THEN /\ call' = [call EXCEPT ![c] = [me EXCEPT !.pc = "drop"]]
            /\ UNCHANGED <<results, audit>>
     ELSE /\ call' = [call EXCEPT ![c] = me]
          /\ UNCHANGED <<results, audit>>
  /\ UNCHANGED <<rep, slmQueue, worker, cancelled, lifeVars, sent, done, abandoned, panic>>

Drop(c) ==
  /\ call[c].pc = "drop"
  /\ audit' = logEvent(<<"drop", call[c].id>>)
  /\ results' = results \cup {Result(call[c], "FastDrop")}
  /\ call' = [call EXCEPT ![c] = Idle]
  /\ UNCHANGED <<rep, calls, slmQueue, worker, cancelled, lifeVars, sent, done, abandoned, panic>>

(* Mutant of Exempt: a protocol label needs no allowance.                  *)
ExemptLabel(p, track, table) == p.reserved /\ track # "alarm" /\ ~p.shape

(* Reputation is context, not an exemption from volume or shape controls.  *)
Exempt(p, track, table) == p.reserved /\ p \in table.allows /\ track # "alarm" /\ ~p.shape
Escalates(p, track, table) ==
  ~Exempt(p, track, table) /\ (p.dense \/ p.shape \/ track = "alarm")

(* The send succeeds if the queue has room.                                *)
Room == Len(slmQueue) < QueueCap

(* The rest of EvaluatePacket: the tracker, parentCertified, which looks   *)
(* at the table again, and the send, which does not wait.                  *)
Decide(c, track) ==
  /\ call[c].pc = "decide"
  /\ LET p == call[c].packet
         escalate == Escalates(p, track, rep)
         inc == [id |-> call[c].id, packet |-> p, track |-> track, action |-> "none"]
     IN /\ results' = results \cup
             {Result(call[c], IF ~escalate THEN "FastPass" ELSE IF Room THEN "EscalateSLM" ELSE "QueueFull")}
        /\ slmQueue' = IF escalate /\ Room /\ ~queueClosed THEN Append(slmQueue, inc) ELSE slmQueue
        /\ sent' = IF escalate /\ Room THEN sent \cup {inc.id} ELSE sent
        /\ panic' = (panic \/ (escalate /\ queueClosed))
  /\ call' = [call EXCEPT ![c] = Idle]
  /\ UNCHANGED <<rep, calls, worker, cancelled, lifeVars, audit, done, abandoned>>

(* The synchroniser stores another table.                                  *)
Reload ==
  /\ \E t \in Tables \ {rep} :
       /\ rep' = t
       /\ call' = [c \in Callers |-> IF c \in Readers THEN [call[c] EXCEPT !.met = @ \cup {t}] ELSE call[c]]
  /\ UNCHANGED <<calls, slmQueue, worker, cancelled, lifeVars, audit, sent, done, abandoned, results, panic>>

-----------------------------------------------------------------------------
environment == <<rep, call, calls, closer, waiting, closed, queueClosed, sent, results, panic>>

StartArbitratorWorker ==
  /\ CanRead /\ Readers = {} /\ ~closed /\ worker.pc = "none"
  /\ worker' = [pc |-> "receive"]
  /\ UNCHANGED <<environment, slmQueue, cancelled, audit, done, abandoned>>

CancelContext ==
  /\ worker.pc # "none" /\ ~cancelled
  /\ cancelled' = TRUE
  /\ UNCHANGED <<environment, slmQueue, worker, audit, done, abandoned>>

(* Mutant of Receive: a cancelled worker does not drain the queue.         *)
ReceiveOpen ==
  /\ worker.pc = "receive" /\ slmQueue # <<>> /\ ~cancelled
  /\ worker' = [pc |-> "arbitrate", inc |-> Head(slmQueue), open |-> ~cancelled]
  /\ slmQueue' = Tail(slmQueue)
  /\ UNCHANGED <<environment, cancelled, audit, done, abandoned>>

Receive ==
  /\ worker.pc = "receive" /\ slmQueue # <<>>
  /\ worker' = [pc |-> "arbitrate", inc |-> Head(slmQueue), open |-> ~cancelled]
  /\ slmQueue' = Tail(slmQueue)
  /\ UNCHANGED <<environment, cancelled, audit, done, abandoned>>

(* The channel is closed and empty: the worker returns.                    *)
WorkerExit ==
  /\ worker.pc = "receive" /\ slmQueue = <<>> /\ queueClosed
  /\ worker' = [pc |-> "exited"] /\ cancelled' = TRUE
  /\ UNCHANGED <<environment, slmQueue, audit, done, abandoned>>

RecommendedActionForVerdict(v) ==
  CASE v = Tunnel -> "BLOCK_IMMEDIATE"
    [] v \in {"BENIGN_AV_TELEMETRY", "BENIGN_CRYPTO_KEY"} -> "ALLOW_VENDOR"
    [] OTHER -> "MONITOR_ONLY"

Enriched(inc, v) == [inc EXCEPT !.action = RecommendedActionForVerdict(v)]

(* The arbitrator answers: an error, a verdict outside the vocabulary or a *)
(* verdict, and an error if the context was cancelled meanwhile.           *)
Arbitrate(answer) ==
  /\ worker.pc = "arbitrate"
  /\ worker' =
       IF cancelled \/ answer \notin validSLMVerdict
         THEN [pc |-> "log", inc |-> Enriched(worker.inc, Insufficient), verdict |-> Insufficient, open |-> worker.open]
         ELSE [pc |-> "veto", inc |-> worker.inc, verdict |-> answer, open |-> worker.open]
  /\ UNCHANGED <<environment, slmQueue, cancelled, audit, done, abandoned>>

(* A short protocol label seen a few times; then a sample too small.       *)
applyVetoRules(inc, v) ==
  IF inc.packet.reserved /\ inc.track \in {"few", "three"} THEN "BENIGN_CRYPTO_KEY"
  ELSE IF inc.track = "few" /\ ~inc.packet.high THEN Insufficient
  ELSE v

(* Under the read lock; a closed pipeline answers at once.                 *)
ApplyDeterministicVeto ==
  /\ worker.pc = "veto" /\ CanRead
  /\ LET v == applyVetoRules(worker.inc, worker.verdict) IN
     worker' = IF closed
       THEN [worker EXCEPT !.pc = "log", !.verdict = Insufficient]
       ELSE [worker EXCEPT !.pc = "log", !.inc = Enriched(@, v), !.verdict = v]
  /\ UNCHANGED <<environment, slmQueue, cancelled, audit, done, abandoned>>

WorkerLog ==
  /\ worker.pc = "log"
  /\ audit' = logEvent(<<"verdict", worker.inc.id>>)
  /\ worker' = [worker EXCEPT !.pc = "callback"]
  /\ UNCHANGED <<environment, slmQueue, cancelled, done, abandoned>>

Callback ==
  /\ worker.pc = "callback"
  /\ done' = done \cup {[id |-> worker.inc.id, verdict |-> worker.verdict, action |-> worker.inc.action,
                         open |-> worker.open]}
  /\ worker' = [pc |-> "receive"]
  /\ UNCHANGED <<environment, slmQueue, cancelled, audit, abandoned>>

(* The goroutine that writes the audit file; a write may fail.             *)
WriteAudit(ok) ==
  /\ audit.queue # <<>>
  /\ audit' = IF ok
       THEN [audit EXCEPT !.queue = Tail(@), !.written = @ \cup {Head(audit.queue)}]
       ELSE [audit EXCEPT !.queue = Tail(@), !.lost = @ \cup {Head(audit.queue)}, !.error = TRUE]
  /\ UNCHANGED <<environment, slmQueue, worker, cancelled, done, abandoned>>

-----------------------------------------------------------------------------
rest == <<rep, call, calls, sent, done, results, panic>>

CloseBegin ==
  /\ closer = "idle"
  /\ closer' = "lock" /\ waiting' = TRUE
  /\ UNCHANGED <<rest, slmQueue, worker, cancelled, closed, queueClosed, audit, abandoned>>

(* With the write lock: closed, the context cancelled, the queue closed.   *)
CloseLocked ==
  /\ closer = "lock" /\ Readers = {}
  /\ closer' = "join" /\ waiting' = FALSE /\ closed' = TRUE /\ queueClosed' = TRUE
  /\ cancelled' = (cancelled \/ worker.pc # "none")
  /\ UNCHANGED <<rest, slmQueue, worker, audit, abandoned>>

(* The worker has returned; what is left in the queue is abandoned.        *)
CloseJoin ==
  /\ closer = "join" /\ worker.pc \in {"none", "exited"}
  /\ closer' = "audit"
  /\ abandoned' = abandoned \cup {slmQueue[i].id : i \in DOMAIN slmQueue} /\ slmQueue' = <<>>
  /\ UNCHANGED <<rest, worker, cancelled, waiting, closed, queueClosed, audit>>

CloseAudit ==
  /\ closer = "audit"
  /\ closer' = "flush" /\ audit' = [audit EXCEPT !.closed = TRUE]
  /\ UNCHANGED <<rest, slmQueue, worker, cancelled, waiting, closed, queueClosed, abandoned>>

(* The writer has drained the queue: the file is synced and closed, which  *)
(* may fail.                                                               *)
CloseFlush ==
  /\ closer = "flush" /\ audit.queue = <<>>
  /\ closer' \in IF abandoned # {} \/ audit.error THEN {"failed"} ELSE {"done", "failed"}
  /\ UNCHANGED <<rest, slmQueue, worker, cancelled, waiting, closed, queueClosed, audit, abandoned>>

Close == CloseBegin \/ CloseLocked \/ CloseJoin \/ CloseAudit \/ CloseFlush

Closed ==
  /\ closer \in {"done", "failed"} /\ calls = MaxCalls /\ UNCHANGED vars

Answers == {"error", "unknown"} \cup validSLMVerdict

Worker == Receive \/ WorkerExit \/ ApplyDeterministicVeto \/ WorkerLog \/ Callback

Next ==
  \/ \E c \in Callers : \/ \E p \in Packets : EvaluatePacket(c, p)
                        \/ Drop(c)
                        \/ \E track \in Tracked : Decide(c, track)
  \/ Reload \/ StartArbitratorWorker \/ CancelContext
  \/ Worker \/ \E a \in Answers : Arbitrate(a)
  \/ \E ok \in BOOLEAN : WriteAudit(ok)
  \/ Close \/ Closed

Spec == Init /\ [][Next]_vars

(* The goroutines run; an arbitrator honours the cancellation of its       *)
(* context, as its interface demands, and otherwise may never answer.      *)
Fairness ==
  /\ \A c \in Callers : WF_vars(Drop(c)) /\ WF_vars(\E track \in Tracked : Decide(c, track))
  /\ WF_vars(Worker) /\ WF_vars(cancelled /\ \E a \in Answers : Arbitrate(a))
  /\ WF_vars(\E ok \in BOOLEAN : WriteAudit(ok))
  /\ WF_vars(CloseLocked \/ CloseJoin \/ CloseAudit \/ CloseFlush)
FairSpec == Spec /\ Fairness

-----------------------------------------------------------------------------
TypeOK ==
  /\ Len(slmQueue) <= QueueCap /\ Len(audit.queue) <= AuditCap
  /\ closer \in {"idle", "lock", "join", "audit", "flush", "done", "failed"}
  /\ worker.pc \in {"none", "receive", "arbitrate", "veto", "log", "callback", "exited"}

(* No caller sends on the queue that Close has closed: a panic of the      *)
(* capture path.                                                           *)
NoPanic == ~panic

(* Every incident the caller was told is queued is at one place: waiting,  *)
(* in the hands of the worker, delivered or counted as abandoned.          *)
Conserved ==
  LET waitingIds == {slmQueue[i].id : i \in DOMAIN slmQueue}
      hand == IF worker.pc \in {"arbitrate", "veto", "log", "callback"} THEN {worker.inc.id} ELSE {}
      delivered == {d.id : d \in done}
      places == <<waitingIds, hand, delivered, abandoned>>
  IN /\ sent = waitingIds \cup hand \cup delivered \cup abandoned
     /\ \A i, j \in 1 .. 4 : i # j => places[i] \cap places[j] = {}

(* The queue between the callers and the worker neither panics, nor grows  *)
(* past its capacity, nor loses or doubles an incident.                    *)
Handover == TypeOK /\ NoPanic /\ Conserved

(* Evidence is never lost in silence: no record comes after the audit was  *)
(* closed, and when Close reports success every decision of a policy and   *)
(* every delivered verdict is in the file.                                 *)
AuditComplete ==
  /\ audit.late = {}
  /\ closer = "done" =>
       /\ \A d \in done : <<"verdict", d.id>> \in audit.written
       /\ \A r \in results : r.decision = "FastDrop" => <<"drop", r.id>> \in audit.written

(* Work that the worker takes after the cancellation is delivered, and     *)
(* only as insufficient evidence; a verdict of the model comes from an     *)
(* arbitration that began before.                                          *)
LateIsInsufficient == \A d \in done : ~d.open => d.verdict = Insufficient

(* The case handed to the analyst carries the action that goes with the    *)
(* verdict retained; only a case arbitrated before Close and vetoed after  *)
(* it comes without one, and then as insufficient evidence.                *)
CaseComplete ==
  \A d \in done : \/ d.action = RecommendedActionForVerdict(d.verdict)
                  \/ closed /\ d.open /\ d.verdict = Insufficient

(* What the analyst receives is recorded, earned and complete.             *)
EvidenceTrue == AuditComplete /\ LateIsInsufficient /\ CaseComplete

(* A packet reads the table twice, and the synchroniser may swap it in     *)
(* between: even then a drop rests on a table in service during the call   *)
(* that blocks the packet, whatever is not dropped was not blocked by all  *)
(* of them, and a dense packet passes only if one of them allows it.       *)
Justified(p, met, decision) ==
  IF decision = "FastDrop" THEN \E t \in met : p \in t.blocks
  ELSE /\ \E t \in met : p \notin t.blocks
       /\ decision = "FastPass" /\ p.dense => \E t \in met : p \in t.allows
TablesMet ==
  [][\A c \in Callers : call[c].pc # "idle" /\ call'[c].pc = "idle" =>
       \A r \in results' \ results : Justified(call[c].packet, call[c].met, r.decision)]_vars

(* The queue neither panics nor loses or doubles an incident; what the     *)
(* analyst receives is recorded, earned and complete; a decision rests on  *)
(* the tables in service during its call.                                  *)
PipelineSound == [](Handover /\ EvidenceTrue) /\ TablesMet

(* Close returns, whatever was under way.                                  *)
CloseReturns == closer # "idle" ~> closer \in {"done", "failed"}

(* An accepted incident is settled once the pipeline is closed.            *)
Settled == \A n \in 1 .. MaxCalls : (n \in sent /\ closed) ~> (n \in abandoned \/ \E d \in done : d.id = n)

(* Close ends, and leaves no accepted incident without an outcome.         *)
CloseSettles == CloseReturns /\ Settled
=============================================================================
