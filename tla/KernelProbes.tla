---------------------------- MODULE KernelProbes ----------------------------
(***************************************************************************)
(* The kernel probes of internal/probes.  cn: the process connector, its   *)
(* decoder with the bounded table of effective UIDs, and the ring RingProc *)
(* of one producer and one consumer.  fan: the fanotify probe that answers *)
(* the openers of protected files.  pkt: the BPF filter, the shared ring   *)
(* of PACKET_MMAP and Poll.  alerts: the inspection of one process.  A     *)
(* process, a path or a frame is kept as the fields that the probes read.  *)
(***************************************************************************)
EXTENDS Integers, Sequences, FiniteSets

CONSTANTS
  Pids,             \* of processes
  UidSlots,         \* procUIDTableLen
  RingSlots,        \* ProcRingSlots
  Openers,          \* processes that open files the probe marked
  Events,           \* the sequences of messages that the connector delivers
  Opens,            \* what an opener opens: [perm, path, comm]
  Processes,        \* the processes that Inspect looks at: [exe, jit, maps]
  Limit,            \* of the anomalies of one inspection
  Frames,           \* the frames on the wire
  FrameNr,          \* frames of the packet ring
  FileSlots,        \* slots of RingFile
  MaxFrames         \* bound: the frames that the filter lets through

ProbesAssumption == {UidSlots, RingSlots, FrameNr, FileSlots} \subseteq Nat \ {0}

Unknown == -1      \* uidUnknown, all ones
Nobody == [euid |-> Unknown, dead |-> Unknown, shared |-> FALSE]
NoEvent == [what |-> "none", pid |-> 0, euid |-> 0, anomaly |-> FALSE, of |-> Nobody]
NoFrame == [id |-> 0, data |-> CHOOSE f \in Frames : TRUE]
NoRecord == [by |-> "nobody", blocked |-> FALSE]

VARIABLES cn, fan, pkt, alerts
vars == <<cn, fan, pkt, alerts>>

Init ==
  /\ cn \in {[inbox |-> e, uid |-> [i \in 0 .. UidSlots - 1 |-> [pid |-> 0, euid |-> 0]],
              slot |-> [i \in 0 .. RingSlots - 1 |-> NoEvent], head |-> 0, tail |-> 0, drops |-> 0,
              pc |-> "idle", rpc |-> "idle", hand |-> NoEvent, running |-> TRUE,
              wrote |-> <<>>, read |-> <<>>, offered |-> 0, own |-> [p \in Pids |-> Nobody]] : e \in Events}
  /\ fan = [queue |-> <<>>, answer |-> [o \in Openers |-> "none"], failed |-> {}, serving |-> TRUE,
            closed |-> FALSE, head |-> 0, file |-> [i \in 0 .. FileSlots - 1 |-> NoRecord]]
  /\ pkt = [frame |-> [i \in 0 .. FrameNr - 1 |-> NoFrame], kernel |-> 0, cursor |-> 0,
            captured |-> 0, lost |-> {}, got |-> <<>>, wasted |-> FALSE, missed |-> FALSE]
  /\ alerts \in [memory : {<<>>}, of : Processes, seen : {FALSE}]

-----------------------------------------------------------------------------
(* The process connector.  decodeProcEvent transcribes one message and     *)
(* writes it to the ring: the slot, then the head.  own is what the        *)
(* messages so far say of the processes, for the properties: the effective *)
(* UID of the one that lives under a pid and of the one that died under    *)
(* it, and whether another pid has taken its slot of the table since.      *)

(* Mutant of lookupUID: the slot is not compared with the process.         *)
lookupUIDAny(pid) == cn.uid[pid % UidSlots].euid

lookupUID(pid) ==
  LET e == cn.uid[pid % UidSlots] IN IF e.pid = pid THEN e.euid ELSE Unknown
storeUID(m) == IF m.what = "uid"
               THEN [cn.uid EXCEPT ![m.pid % UidSlots] = [pid |-> m.pid, euid |-> m.euid]]
               ELSE cn.uid

Elevated(m) == m.what = "uid" /\ m.euid = 0 /\ lookupUID(m.pid) \notin {0, Unknown}

Transcribed(m) ==
  [what |-> m.what, pid |-> m.pid, euid |-> m.euid, anomaly |-> Elevated(m), of |-> cn.own[m.pid]]

Witnessed(m) ==
  CASE m.what = "uid" ->
         [p \in Pids |->
            IF p = m.pid THEN [cn.own[p] EXCEPT !.euid = m.euid, !.shared = FALSE]
            ELSE [cn.own[p] EXCEPT !.shared = @ \/ p % UidSlots = m.pid % UidSlots]]
    [] m.what = "exit" /\ cn.own[m.pid].euid # Unknown ->
         [cn.own EXCEPT ![m.pid] = [@ EXCEPT !.dead = cn.own[m.pid].euid, !.euid = Unknown]]
    [] OTHER -> cn.own

RingWrite(c, ev) ==
  IF c.head - c.tail >= RingSlots
  THEN [c EXCEPT !.drops = @ + 1, !.offered = @ + 1]
  ELSE [c EXCEPT !.slot[c.head % RingSlots] = ev, !.wrote = Append(@, ev), !.offered = @ + 1,
                 !.pc = "publish"]

(* An exit is transcribed and leaves the UID of its pid in the table.      *)
decodeProcEvent ==
  /\ cn.running /\ cn.pc = "idle" /\ cn.inbox # <<>>
  /\ \E m \in {Head(cn.inbox)} :
       cn' = IF m.short THEN [cn EXCEPT !.inbox = Tail(@)]
             ELSE [RingWrite(cn, Transcribed(m)) EXCEPT
                     !.inbox = Tail(@), !.uid = storeUID(m), !.own = Witnessed(m)]
  /\ UNCHANGED <<fan, pkt, alerts>>

Publish ==
  /\ cn.pc = "publish" /\ cn' = [cn EXCEPT !.head = @ + 1, !.pc = "idle"]
  /\ UNCHANGED <<fan, pkt, alerts>>

(* Recvfrom fails when the socket buffer overflowed, which ends Run.       *)
drainFails ==
  /\ cn.running /\ cn.pc = "idle" /\ cn' = [cn EXCEPT !.running = FALSE]
  /\ UNCHANGED <<fan, pkt, alerts>>

ReadSlot ==
  /\ cn.rpc = "idle" /\ cn.tail < cn.head
  /\ cn' = [cn EXCEPT !.hand = cn.slot[cn.tail % RingSlots], !.rpc = "advance"]
  /\ UNCHANGED <<fan, pkt, alerts>>

ReadAdvance ==
  /\ cn.rpc = "advance"
  /\ cn' = [cn EXCEPT !.tail = @ + 1, !.read = Append(@, cn.hand), !.rpc = "idle", !.hand = NoEvent]
  /\ UNCHANGED <<fan, pkt, alerts>>

-----------------------------------------------------------------------------
(* fanotify.  A permission event suspends its opener until an answer or    *)
(* the end of the group.  The name of a process that is gone and the path  *)
(* that cannot be read are empty.                                          *)

pathRules == [cron |-> {"crond", "crontab"}, shadow |-> {"passwd", "sudo"}, sudoers |-> {"visudo", "sudo"}]
classifyPath(path) == path \in DOMAIN pathRules
commAllowed(path, comm) == comm \in pathRules[path]
DecideVeto(path, comm) == IF classifyPath(path) /\ ~commAllowed(path, comm) THEN "deny" ELSE "allow"

Asks(o, q) ==
  /\ ~fan.closed /\ fan.answer[o] = "none"
  /\ fan' = [fan EXCEPT !.queue = Append(@, [by |-> o, perm |-> q.perm, path |-> q.path, comm |-> q.comm]),
                        !.answer[o] = IF q.perm THEN "wait" ELSE "notified"]
  /\ UNCHANGED <<cn, pkt, alerts>>

(* Mutant of HandleEvent: a process whose name is lost gets no answer.     *)
HandleEventSilent ==
  /\ fan.serving /\ ~fan.closed /\ fan.queue # <<>>
  /\ \E e \in {Head(fan.queue)}, comm \in {Head(fan.queue).comm, ""} :
       fan' = [fan EXCEPT !.queue = Tail(@),
                          !.answer[e.by] = IF e.perm /\ comm # "" THEN DecideVeto(e.path, comm) ELSE @]
  /\ UNCHANGED <<cn, pkt, alerts>>

(* One event of a block of HandleBlock: the answer, the record, the close. *)
(* The error of the answer is discarded (bound: one answer fails).         *)
HandleEvent ==
  /\ fan.serving /\ ~fan.closed /\ fan.queue # <<>>
  /\ \E e \in {Head(fan.queue)}, path \in {Head(fan.queue).path, ""}, comm \in {Head(fan.queue).comm, ""} :
     \E verdict \in {DecideVeto(path, comm)}, fails \in {f \in BOOLEAN : f => e.perm /\ fan.failed = {}} :
       fan' = [fan EXCEPT !.queue = Tail(@),
                          !.answer[e.by] = IF e.perm /\ ~fails THEN verdict ELSE @,
                          !.failed = IF fails THEN {e.by} ELSE @,
                          !.file[fan.head % FileSlots] = [by |-> e.by, blocked |-> verdict = "deny"],
                          !.head = @ + 1]
  /\ UNCHANGED <<cn, pkt, alerts>>

(* Serve reads "stop" between two blocks; Close ends the group and the     *)
(* kernel lets the suspended openers through.                              *)
StopServe ==
  /\ fan.serving /\ fan' = [fan EXCEPT !.serving = FALSE] /\ UNCHANGED <<cn, pkt, alerts>>

FileProbeClose ==
  /\ ~fan.closed
  /\ fan' = [fan EXCEPT !.closed = TRUE, !.queue = <<>>,
                        !.answer = [o \in Openers |-> IF @[o] = "wait" THEN "released" ELSE @[o]]]
  /\ UNCHANGED <<cn, pkt, alerts>>

-----------------------------------------------------------------------------
(* The packet ring.  BuildFilterDNSICMP is a classic BPF program: a load   *)
(* or a conditional jump, relative to the next instruction.                *)

Ld(f) == [op |-> "ld", field |-> f, k |-> 0, jt |-> 0, jf |-> 0]
Ldx == [op |-> "ldx", field |-> "ihl", k |-> 0, jt |-> 0, jf |-> 0]
Jeq(k, t, f) == [op |-> "jeq", field |-> "", k |-> k, jt |-> t, jf |-> f]
Ret(k) == [op |-> "ret", field |-> "", k |-> k, jt |-> 0, jf |-> 0]

BuildFilterDNSICMP ==
  <<Ld("ether"), Jeq(2048, 0, 13), Ld("proto"), Jeq(17, 0, 5), Ldx, Ld("sport"), Jeq(53, 7, 0),
    Ld("dport"), Jeq(53, 5, 6), Jeq(1, 0, 5), Ldx, Ld("icmp"), Jeq(8, 1, 0), Jeq(0, 0, 1), Ret(1), Ret(0)>>

(* The kernel runs it on the outermost header of a frame.                  *)
Accepts(f) ==
  LET Field(x) == CASE x = "ether" -> IF f.tagged THEN 33024 ELSE f.ether
                    [] x = "proto" -> f.proto [] x = "sport" -> f.sport
                    [] x = "dport" -> f.dport [] OTHER -> f.icmp
      run[i \in 1 .. 16, a \in Int] ==
        LET c == BuildFilterDNSICMP[i]
        IN  CASE c.op = "ld" -> run[i + 1, Field(c.field)]
              [] c.op = "ldx" -> run[i + 1, a]
              [] c.op = "jeq" -> run[i + 1 + (IF a = c.k THEN c.jt ELSE c.jf), a]
              [] OTHER -> c.k = 1
  IN  run[1, 0]

(* DecodePacket sees through VLAN tags; DecodeDNSFrame reads IPv6 too and  *)
(* wants the datagram whole.                                               *)
DecodePacket(f) ==
  /\ f.ether = 2048 /\ ~f.short
  /\ \/ f.proto = 17 /\ 53 \in {f.sport, f.dport}
     \/ f.proto = 1 /\ f.icmp \in {0, 8}
DecodeDNSFrame(f) ==
  f.ether \in {2048, 34525} /\ ~f.short /\ f.proto = 17 /\ 53 \in {f.sport, f.dport} /\ ~f.cut

(* Behind a VLAN tag and over IPv6 the decoders see more than the filter.  *)
Overlooked(f) == ~f.tagged /\ f.ether = 2048 /\ (DecodePacket(f) \/ DecodeDNSFrame(f))

Capture(f) ==
  /\ pkt.captured < MaxFrames
  /\ pkt' = IF ~Accepts(f) THEN [pkt EXCEPT !.missed = @ \/ Overlooked(f)]
            ELSE IF pkt.frame[pkt.kernel].id # 0
            THEN [pkt EXCEPT !.captured = @ + 1, !.lost = @ \cup {pkt.captured + 1}]
            ELSE [pkt EXCEPT !.captured = @ + 1, !.kernel = (@ + 1) % FrameNr,
                             !.frame[pkt.kernel] = [id |-> pkt.captured + 1, data |-> f]]
  /\ UNCHANGED <<cn, fan, alerts>>

(* One turn of the loop of Poll, which starts again from the first frame   *)
(* when it met one that the kernel holds.                                  *)
Poll ==
  /\ \E p \in {pkt.frame[pkt.cursor]} :
       pkt' = IF p.id = 0 THEN [pkt EXCEPT !.cursor = 0]
              ELSE [pkt EXCEPT !.frame[pkt.cursor] = NoFrame, !.cursor = (@ + 1) % FrameNr,
                      !.got = IF DecodePacket(p.data) THEN Append(@, p.id) ELSE @,
                      !.wasted = @ \/ ~(DecodePacket(p.data) \/ p.data.short)]
  /\ UNCHANGED <<cn, fan, alerts>>

-----------------------------------------------------------------------------
(* Inspect: the executable first, then the mappings in order, up to limit. *)
(* The lengths are those of the names that isJITRegion compares.           *)

RegionLength == [v8 |-> 9, js |-> 9, jit |-> 10, wasm |-> 11, code |-> 11]
isJITRegion(name) ==
  /\ name \in DOMAIN RegionLength
  /\ \/ RegionLength[name] = 8 /\ name \in {"v8", "js"}
     \/ RegionLength[name] = 9 /\ name \in {"jit", "wasm"}
     \/ RegionLength[name] = 10 /\ name = "code"

ClassifyExe(exe) == exe \in {"memfd", "deleted"}

(* What a line of the mappings adds; one that does not parse is skipped.   *)
Anomalies(p, i) ==
  LET g == p.maps[i]
  IN  (IF g.wellFormed /\ g.wx /\ ~p.jit /\ ~isJITRegion(g.name) THEN <<[kind |-> "wx", at |-> i]>> ELSE <<>>)
      \o (IF g.wellFormed /\ g.temp /\ g.name # p.exe THEN <<[kind |-> "inject", at |-> i]>> ELSE <<>>)

(* addAnomaly drops what exceeds the limit.                                *)
addAnomalies(found, more) ==
  found \o SubSeq(more, 1, IF Len(more) < Limit - Len(found) THEN Len(more) ELSE Limit - Len(found))

Inspected(p) ==
  LET found[i \in 0 .. Len(p.maps)] ==
        IF i = 0 THEN IF ClassifyExe(p.exe) THEN addAnomalies(<<>>, <<[kind |-> "fileless", at |-> 0]>>) ELSE <<>>
        ELSE addAnomalies(found[i - 1], Anomalies(p, i))
  IN  found[Len(p.maps)]

Inspect(p) ==
  /\ alerts' = [memory |-> Inspected(p), of |-> p, seen |-> TRUE]
  /\ UNCHANGED <<cn, fan, pkt>>

-----------------------------------------------------------------------------
Connector == decodeProcEvent \/ Publish \/ drainFails \/ ReadSlot \/ ReadAdvance
FileEvents == (\E o \in Openers, q \in Opens : Asks(o, q)) \/ HandleEvent \/ StopServe \/ FileProbeClose
PacketRing == (\E f \in Frames : Capture(f)) \/ Poll
Memory == \E p \in Processes : Inspect(p)

Next == Connector \/ FileEvents \/ PacketRing \/ Memory

(* The loops of the three probes run.                                      *)
Fairness == WF_vars(Poll) /\ WF_vars(HandleEvent)

Spec == Init /\ [][Next]_vars /\ Fairness

-----------------------------------------------------------------------------
(* RingProc with one writer and one reader loses nothing but what "drops"  *)
(* counts: what was read is, in order and whole, what was written.         *)
RingExact ==
  /\ Len(cn.read) <= Len(cn.wrote) /\ cn.read = SubSeq(cn.wrote, 1, Len(cn.read))
  /\ cn.offered = Len(cn.wrote) + cn.drops /\ cn.head - cn.tail <= RingSlots

(* An elevation is flagged only for a process that was seen unprivileged,  *)
(* or whose pid a process seen unprivileged had before it; one is missed   *)
(* only when another pid has taken the slot since.  Pids share slots, a    *)
(* full ring drops events and an exit clears nothing.                      *)
Privileged(u) == u \in {0, Unknown}
ElevationTrue ==
  \A k \in DOMAIN cn.wrote :
    LET e == cn.wrote[k]
    IN  e.what = "uid" /\ e.euid = 0 =>
          /\ e.anomaly => ~Privileged(IF e.of.euid = Unknown THEN e.of.dead ELSE e.of.euid)
          /\ ~Privileged(e.of.euid) => e.anomaly \/ e.of.shared

(* An opener is suspended no longer than the probe serves: it is answered, *)
(* or the loop was stopped, or the answer was written and refused.         *)
Waits(o) == fan.answer[o] = "wait"
Answered(o) == fan.answer[o] # "wait" \/ ~fan.serving \/ o \in fan.failed
OpenersAnswered == \A o \in Openers : Waits(o) ~> Answered(o)

(* No frame is delivered twice, a delivered one is decoded, and what the   *)
(* filter lets through decodes unless it was cut: the jumps of the program *)
(* agree with both decoders, but for VLAN tags and IPv6.                   *)
PacketsOnce ==
  /\ \A i, j \in DOMAIN pkt.got : pkt.got[i] = pkt.got[j] => i = j
  /\ \A i \in DOMAIN pkt.got : pkt.got[i] \notin pkt.lost
  /\ ~pkt.wasted /\ ~pkt.missed

(* What Inspect reports of a process is true of it, each flaw once and in  *)
(* the order of the mappings, and what the limit drops comes after all     *)
(* that is kept.  The mappings that a script engine names are flaws like   *)
(* the others: isJITRegion knows none.                                     *)
Flaws(p) ==
  {x \in [kind : {"fileless", "wx", "inject"}, at : 0 .. Len(p.maps)] :
     \/ x.kind = "fileless" /\ x.at = 0 /\ p.exe \in {"memfd", "deleted"}
     \/ /\ x.kind # "fileless" /\ x.at # 0 /\ p.maps[x.at].wellFormed
        /\ IF x.kind = "wx" THEN p.maps[x.at].wx /\ ~p.jit ELSE p.maps[x.at].temp /\ p.maps[x.at].name # p.exe}
Before(x, y) == x.at < y.at \/ (x.at = y.at /\ x.kind = "wx" /\ y.kind = "inject")
InspectionExact ==
  LET kept == {alerts.memory[k] : k \in DOMAIN alerts.memory}
      flaws == Flaws(alerts.of)
  IN  alerts.seen =>
        /\ kept \subseteq flaws
        /\ Cardinality(kept) = IF Cardinality(flaws) < Limit THEN Cardinality(flaws) ELSE Limit
        /\ \A x \in kept, y \in flaws \ kept : Before(x, y)
        /\ \A i, j \in DOMAIN alerts.memory : i < j => Before(alerts.memory[i], alerts.memory[j])

(* "Poll draine les trames disponibles de l'anneau": a frame that the      *)
(* kernel made available is handed over although no other arrives.         *)
AvailableDrained ==
  \A i \in 0 .. FrameNr - 1 : pkt.frame[i].id # 0 ~> pkt.frame[i].id = 0
=============================================================================
