------------------------------ MODULE DnsLive ------------------------------
(***************************************************************************)
(* The live DNS service of internal/dnslive: a UDP goroutine that judges,  *)
(* journals and answers datagrams, HTTP handlers that register, finish and *)
(* read runs, and Close.  Everything between mu.Lock and mu.Unlock is one  *)
(* step; it maps the state "live" under the mutex to the states that it    *)
(* may leave, a failing file or client included.  A datagram is kept as what   *)
(* the service does with it, an event as its number and its source.        *)
(***************************************************************************)
EXTENDS Integers, Sequences, FiniteSets

CONSTANTS
  Addresses,    \* the IP:port couples that send datagrams
  Foreign,      \* those of another IP family than the address listened on
  LiveRuns,     \* the run_id that clients register
  Handlers,     \* the goroutines that serve HTTP requests
  Limit,        \* liveEventMemoryLimit
  Left,         \* the names of evidence that an earlier service left on disk
  MaxDatagrams, MaxRequests, MaxLiveFaults   \* bounds of a behaviour

ASSUME DnsLiveAssumption ==
  /\ Foreign \subseteq Addresses
  /\ {Limit, MaxDatagrams, MaxRequests, MaxLiveFaults} \subseteq Nat /\ Limit > 0

NoRun == "none"
NoAddress == "nowhere"
Datagrams == {"query", "garbage", "unanswerable"}

VARIABLES
  live,     \* the fields of Service that mu protects
  net,      \* the two listeners: "none", "open" or "closed"
  worker,   \* serveUDP: its place, and the datagram or response in hand
  request,  \* the request of each handler
  closer,   \* the closure that closeOnce runs
  sent,     \* history: the numbers of the response events that left
  served,   \* history: the sources of which handleEvidence served a manifest
  client,   \* a dashboard that polls handleEvents: its cursor and what it saw
  arrived, asked    \* the datagrams and the requests so far

liveVars == <<live, net, worker, request, closer, sent, served, client, arrived, asked>>

NoRequest == [op |-> "idle", run |-> NoRun, addr |-> NoAddress]
Waiting == [pc |-> "read", addr |-> NoAddress, data |-> "query", number |-> 0]

LiveInit ==
  /\ live = [source |-> <<>>, sources |-> [a \in Addresses |-> 0], runs |-> [r \in LiveRuns |-> 0],
          ordinal |-> 0, disk |-> Left, sequence |-> 0, log |-> <<>>, events |-> <<>>,
          evicted |-> 0, journalErr |-> FALSE, asyncErr |-> FALSE, closing |-> FALSE, faults |-> 0]
  /\ net = [udp |-> "none", http |-> "none"]
  /\ worker = [Waiting EXCEPT !.pc = "off"]
  /\ request = [h \in Handlers |-> NoRequest]
  /\ closer = [pc |-> "idle", expired |-> FALSE, lifecycleErr |-> FALSE, err |-> FALSE]
  /\ sent = {} /\ served = {} /\ client = [cursor |-> 0, saw |-> {}]
  /\ arrived = 0 /\ asked = 0

-----------------------------------------------------------------------------
(* evidenceSession.  "jsonl" and "pcap" are the events that the two files  *)
(* hold once flushed, "broken" the error that a bufio.Writer keeps.        *)

openEvidenceSession(a, r) ==
  [key |-> a, run |-> r, jsonl |-> <<>>, pcap |-> <<>>, broken |-> FALSE,
   closed |-> FALSE, finishErr |-> FALSE, published |-> FALSE, finished |-> FALSE]

sourceEvidenceStem(t, a, r) == IF r = NoRun THEN <<a, t.ordinal>> ELSE <<r>>

(* newSourceLocked for the next ordinal: the files are created exclusively *)
(* and a failure may leave the first of them behind.                       *)
newSourceLocked(u, a, r) ==
  LET t == [u EXCEPT !.ordinal = @ + 1]
      stem == sourceEvidenceStem(t, a, r)
      failed == [t EXCEPT !.journalErr = TRUE]
  IN  IF stem \in t.disk THEN {failed}
      ELSE {[t EXCEPT !.source = Append(@, openEvidenceSession(a, r)), !.disk = @ \cup {stem},
                      !.sources[a] = Len(t.source) + 1,
                      !.runs = [x \in LiveRuns |-> IF x = r THEN Len(t.source) + 1 ELSE t.runs[x]]]}
           \cup IF t.faults = MaxLiveFaults THEN {}
                ELSE {[failed EXCEPT !.faults = @ + 1, !.disk = d] : d \in {t.disk, t.disk \cup {stem}}}

(* reconstructUDPPacket needs two addresses of one family.                 *)
reconstructUDPPacket(a) == a \notin Foreign

(* append, then the copy to EventWriter: the ways they fail with what they *)
(* leave in the files.  A failed write breaks its writer; fsync and the    *)
(* copy fail after both files took the event.                              *)
AppendFailures == {f \in [jsonl : BOOLEAN, pcap : BOOLEAN, broken : BOOLEAN] :
                     ~(f.jsonl /\ f.pcap) => f.broken}
evidenceAppend(e, n, f) ==
  [e EXCEPT !.jsonl = IF f.jsonl THEN Append(@, n) ELSE @,
            !.pcap = IF f.pcap THEN Append(@, n) ELSE @, !.broken = f.broken]

(* journalEventLocked: an event gets its number and enters the window only *)
(* once it is in the journal.                                              *)
journalEventLocked(t, i) ==
  LET n == t.sequence + 1
      whole == [jsonl |-> TRUE, pcap |-> TRUE, broken |-> FALSE]
      full == Len(t.events) = Limit
  IN  IF t.source[i].closed \/ ~reconstructUDPPacket(t.source[i].key)
      THEN {[t EXCEPT !.journalErr = TRUE]}
      ELSE {[t EXCEPT !.source[i] = evidenceAppend(@, n, whole), !.sequence = n, !.log = Append(@, i),
                      !.events = Append(IF full THEN Tail(@) ELSE @, n),
                      !.evicted = IF full THEN @ + 1 ELSE @]}
           \cup IF t.faults = MaxLiveFaults THEN {}
                ELSE {[t EXCEPT !.source[i] = evidenceAppend(@, n, f), !.journalErr = TRUE,
                                !.faults = @ + 1] : f \in AppendFailures}

(* finish flushes, closes and publishes the manifest of a registered run;  *)
(* the manifest is written even when the flush failed, and not when the    *)
(* context is over.  A failed flush loses what the writer held.            *)
evidenceFinish(e, fails, alive) ==
  IF e.closed THEN {e}
  ELSE IF e.broken \/ fails
  THEN {[e EXCEPT !.closed = TRUE, !.finishErr = TRUE, !.published = m /\ e.run # NoRun,
                  !.jsonl = IF m THEN <<>> ELSE @, !.pcap = IF m THEN <<>> ELSE @] : m \in {FALSE, alive}}
  ELSE {[e EXCEPT !.closed = TRUE, !.published = alive /\ e.run # NoRun,
                  !.finishErr = ~alive /\ e.run # NoRun]}

(* finishSourceLocked and the callers' treatment of its error.             *)
finishSourceLocked(t, i) ==
  IF t.source[i].finished THEN {t}
  ELSE {IF e.finishErr
        THEN [t EXCEPT !.source[i] = e, !.journalErr = TRUE]
        ELSE [t EXCEPT !.source[i] = [e EXCEPT !.finished = TRUE], !.sources[e.key] = 0] :
          e \in evidenceFinish(t.source[i], FALSE, TRUE)}
       \cup IF t.faults = MaxLiveFaults \/ t.source[i].closed THEN {}
            ELSE {[t EXCEPT !.source[i] = e, !.journalErr = TRUE, !.faults = @ + 1] :
                    e \in evidenceFinish(t.source[i], TRUE, TRUE) \cup evidenceFinish(t.source[i], FALSE, FALSE)}

-----------------------------------------------------------------------------
(* The life of the service and the UDP goroutine.                          *)

Start ==
  /\ net.udp = "none" /\ ~live.closing
  /\ net' = [udp |-> "open", http |-> "open"]
  /\ worker' = Waiting
  /\ UNCHANGED <<live, request, closer, sent, served, client, arrived, asked>>

ReceiveDatagram(a, d) ==
  /\ worker.pc = "read" /\ net.udp = "open" /\ arrived < MaxDatagrams
  /\ worker' = [worker EXCEPT !.pc = "got", !.addr = a, !.data = d]
  /\ arrived' = arrived + 1
  /\ UNCHANGED <<live, net, request, closer, sent, served, client, asked>>

(* sourceForDatagramLocked: the source of the address, made on demand.     *)
sourceForDatagramLocked(t, a) ==
  IF t.sources[a] # 0 THEN {t} ELSE newSourceLocked(t, a, NoRun)

(* The critical section of handleDatagram for a service that takes events: *)
(* the query is journaled before anything is answered, an unreadable one   *)
(* ends there, and a response is journaled before it may be sent.          *)
Answered(t, a, d) ==
  UNION {IF u.journalErr THEN {u}
         ELSE UNION {IF q.journalErr \/ d = "garbage" THEN {q}
                     ELSE IF d = "unanswerable" THEN {[q EXCEPT !.asyncErr = TRUE]}
                     ELSE journalEventLocked(q, q.sources[a]) :
                       q \in journalEventLocked(u, u.sources[a])} :
           u \in sourceForDatagramLocked(t, a)}

Refuses(t) == t.closing \/ t.journalErr

handleDatagram ==
  /\ worker.pc = "got"
  /\ \E t \in IF Refuses(live) THEN {live} ELSE Answered(live, worker.addr, worker.data) :
       /\ live' = t
       /\ worker' = IF t.sequence = live.sequence + 2
                    THEN [worker EXCEPT !.pc = "send", !.number = t.sequence] ELSE Waiting
  /\ UNCHANGED <<net, request, closer, sent, served, client, arrived, asked>>

(* The response leaves after mu is released; recordAsynchronousError keeps *)
(* the error unless the service itself closed the socket.                  *)
WriteToUDP ==
  /\ worker.pc = "send" /\ worker' = Waiting
  /\ \/ net.udp = "open" /\ sent' = sent \cup {worker.number} /\ UNCHANGED live
     \/ net.udp = "open" /\ live.faults < MaxLiveFaults /\ UNCHANGED sent
        /\ live' = [live EXCEPT !.asyncErr = TRUE, !.faults = @ + 1]
     \/ net.udp = "closed" /\ live' = [live EXCEPT !.asyncErr = @ \/ ~live.closing] /\ UNCHANGED sent
  /\ UNCHANGED <<net, request, closer, served, client, arrived, asked>>

(* serveUDP returns when the socket is closed or when reading fails.       *)
serveUDPReturns ==
  /\ worker.pc = "read" /\ worker' = [worker EXCEPT !.pc = "exit"]
  /\ \/ net.udp = "closed" /\ UNCHANGED live
     \/ net.udp = "open" /\ live.faults < MaxLiveFaults
        /\ live' = [live EXCEPT !.faults = @ + 1, !.asyncErr = @ \/ ~live.closing]
  /\ UNCHANGED <<net, request, closer, sent, served, client, arrived, asked>>

-----------------------------------------------------------------------------
(* The HTTP handlers, from the dispatch of a well-formed and authorised    *)
(* request to the answer.                                                  *)

Operations == {"register", "finish", "evidence", "events"}

routes(h) ==
  /\ net.http = "open" /\ request[h] = NoRequest /\ asked < MaxRequests
  /\ \E o \in Operations, r \in LiveRuns, a \in Addresses :
       /\ o # "register" => a = CHOOSE x \in Addresses : TRUE
       /\ o = "events" => r = CHOOSE x \in LiveRuns : TRUE
       /\ request' = [request EXCEPT ![h] = [op |-> o, run |-> r, addr |-> a]]
  /\ asked' = asked + 1
  /\ UNCHANGED <<live, net, worker, closer, sent, served, client, arrived>>

Reply(h, o) == request[h].op = o /\ request' = [request EXCEPT ![h] = NoRequest]

(* A run_id is used once and an address carries one run; the source that   *)
(* unknown datagrams opened is finished first.  A stopped journal does not *)
(* refuse a registration.                                                  *)
Registered(t, r, a) ==
  LET i == t.sources[a]
      freed == IF i = 0 THEN {t} ELSE finishSourceLocked(t, i)
  IN  IF t.closing \/ t.runs[r] # 0 \/ (i # 0 /\ t.source[i].run # NoRun) THEN {t}
      ELSE UNION {IF u.sources[a] # 0 THEN {u} ELSE newSourceLocked(u, a, r) : u \in freed}

handleRegistrations(h) ==
  /\ Reply(h, "register")
  /\ \E t \in Registered(live, request[h].run, request[h].addr) : live' = t
  /\ UNCHANGED <<net, worker, closer, sent, served, client, arrived, asked>>

handleFinish(h) ==
  /\ Reply(h, "finish")
  /\ \E i \in {live.runs[request[h].run]} :
       live' \in IF i = 0 THEN {live} ELSE finishSourceLocked(live, i)
  /\ UNCHANGED <<net, worker, closer, sent, served, client, arrived, asked>>

(* Mutant of manifest: an error of finish is not looked at.                *)
manifestAny(e) == e.closed /\ e.run # NoRun

manifest(e) == e.closed /\ ~e.finishErr /\ e.run # NoRun

handleEvidence(h) ==
  /\ Reply(h, "evidence")
  /\ \E i \in {live.runs[request[h].run]} :
       served' = IF i # 0 /\ live.source[i].finished /\ manifest(live.source[i])
                 THEN served \cup {i} ELSE served
  /\ UNCHANGED <<live, net, worker, closer, sent, client, arrived, asked>>

handleEvents(h) ==
  /\ Reply(h, "events")
  /\ \E after \in {{n \in 1 .. live.sequence : n > client.cursor /\ \E k \in 1 .. Len(live.events) : live.events[k] = n}} :
       client' = [cursor |-> IF after = {} THEN client.cursor ELSE live.events[Len(live.events)],
                  saw |-> client.saw \cup after]
  /\ UNCHANGED <<live, net, worker, closer, sent, served, arrived, asked>>

-----------------------------------------------------------------------------
(* Close, step by step: the listeners, the handlers, the goroutines, the   *)
(* evidence.  A Close before Start uses closeOnce up.                      *)

CloseBegin ==
  /\ closer.pc = "idle"
  /\ \/ net.udp = "none" /\ closer' = [closer EXCEPT !.pc = "done", !.err = TRUE] /\ UNCHANGED live
     \/ net.udp # "none" /\ closer' = [closer EXCEPT !.pc = "udp"] /\ live' = [live EXCEPT !.closing = TRUE]
  /\ UNCHANGED <<net, worker, request, sent, served, client, arrived, asked>>

CloseListener(l, next) ==
  /\ closer.pc = l /\ closer' = [closer EXCEPT !.pc = next]
  /\ net' = [net EXCEPT ![l] = "closed"]
  /\ UNCHANGED <<live, worker, request, sent, served, client, arrived, asked>>

CloseUDP == CloseListener("udp", "http")
CloseHTTP == CloseListener("http", "drain")

(* Shutdown waits for the handlers until its context ends.                 *)
Shutdown ==
  /\ closer.pc = "drain"
  /\ \/ (\A h \in Handlers : request[h] = NoRequest) /\ closer' = [closer EXCEPT !.pc = "wait"]
     \/ closer' = [closer EXCEPT !.pc = "wait", !.expired = TRUE, !.lifecycleErr = TRUE]
  /\ UNCHANGED <<live, net, worker, request, sent, served, client, arrived, asked>>

CloseWait ==
  /\ closer.pc = "wait" /\ worker.pc = "exit"
  /\ closer' = [closer EXCEPT !.pc = "finish"]
  /\ UNCHANGED <<live, net, worker, request, sent, served, client, arrived, asked>>

(* Every source that an address or a run still names is finished, whatever *)
(* happens to the others, and the errors of a whole life are joined.       *)
CloseFinish ==
  /\ closer.pc = "finish"
  /\ \E open \in {{i \in 1 .. Len(live.source) : ~live.source[i].finished}} :
     \E bad \in IF live.faults < MaxLiveFaults THEN SUBSET open ELSE {{}} :
     \E e \in [open -> UNION {evidenceFinish(live.source[i], i \in bad, ~closer.expired) : i \in open}] :
       /\ \A i \in open : e[i] \in evidenceFinish(live.source[i], i \in bad, ~closer.expired)
       /\ live' = [live EXCEPT !.source = [i \in 1 .. Len(live.source) |->
                            IF i \in open THEN [e[i] EXCEPT !.finished = TRUE] ELSE live.source[i]],
                         !.faults = IF bad = {} THEN @ ELSE @ + 1]
       /\ closer' = [closer EXCEPT !.pc = "done",
                       !.err = \/ live.journalErr \/ live.asyncErr \/ closer.lifecycleErr
                               \/ \E i \in open : e[i].finishErr]
  /\ UNCHANGED <<net, worker, request, sent, served, client, arrived, asked>>

-----------------------------------------------------------------------------
WorkerStep == handleDatagram \/ WriteToUDP \/ serveUDPReturns
Handle(h) == handleRegistrations(h) \/ handleFinish(h) \/ handleEvidence(h) \/ handleEvents(h)
CloserStep == CloseUDP \/ CloseHTTP \/ Shutdown \/ CloseWait \/ CloseFinish

LiveNext ==
  \/ Start \/ CloseBegin \/ CloserStep \/ WorkerStep
  \/ \E a \in Addresses, d \in Datagrams : ReceiveDatagram(a, d)
  \/ \E h \in Handlers : routes(h) \/ Handle(h)

(* A goroutine that can run does; nothing obliges a client to ask.         *)
LiveFairness == WF_liveVars(WorkerStep) /\ WF_liveVars(CloserStep) /\ \A h \in Handlers : WF_liveVars(Handle(h))

LiveSpec == LiveInit /\ [][LiveNext]_liveVars /\ LiveFairness

-----------------------------------------------------------------------------
Ids(f) == {f[k] : k \in DOMAIN f}
Rising(f) == \A i, j \in DOMAIN f : i < j => f[i] < f[j]

(* The numbers of the events of source i, and that its two files hold each *)
(* of them once and in order.                                              *)
EventsOf(t, i) == {n \in 1 .. t.sequence : t.log[n] = i}
Complete(i) ==
  \A f \in {live.source[i].jsonl, live.source[i].pcap} : Rising(f) /\ Ids(f) = EventsOf(live, i)

(* No number is given twice or skipped over all evidence files (an event   *)
(* whose journal failed is the last one), a run keeps its own events only, *)
(* and the window holds what was not evicted: a client that polls missed   *)
(* nothing but what the evicted count announces.                           *)
NumbersExact ==
  /\ \A i \in 1 .. Len(live.source) :
       /\ ~live.source[i].closed /\ ~live.journalErr => Complete(i)
       /\ \A n \in Ids(live.source[i].jsonl) \cup Ids(live.source[i].pcap) :
            \/ n \in EventsOf(live, i)
            \/ n = live.sequence + 1 /\ live.journalErr
  /\ live.events = [k \in 1 .. live.sequence - live.evicted |-> live.evicted + k]
  /\ \A n \in 1 .. client.cursor : n \in client.saw \/ n <= live.evicted

(* A response leaves only after its query and itself are in the journal.   *)
SentIsJournaled == \A n \in sent : n \in 2 .. live.sequence /\ live.log[n] = live.log[n - 1]

(* A manifest that the service serves describes two equal files that hold  *)
(* every event of the run and no other, but for a last one whose journal   *)
(* failed, and it stays true: nothing is appended afterwards.              *)
ManifestTrue ==
  \A i \in served :
    /\ live.source[i].published /\ live.source[i].jsonl = live.source[i].pcap
    /\ \/ Complete(i)
       \/ live.journalErr /\ Rising(live.source[i].jsonl)
          /\ Ids(live.source[i].jsonl) = EventsOf(live, i) \cup {live.sequence + 1}

(* A Close that reports no error left every source closed with its events  *)
(* complete; it never returns while the UDP goroutine runs.                *)
CloseHonest ==
  closer.pc = "done" /\ ~closer.err =>
    /\ worker.pc = "exit" /\ ~live.journalErr
    /\ \A i \in 1 .. Len(live.source) : live.source[i].closed /\ Complete(i)

(* No event number is skipped or given twice, a response leaves only once  *)
(* it is journaled, a manifest that is served stays true, and a Close      *)
(* without an error left every run complete.                               *)
EvidenceExact == NumbersExact /\ SentIsJournaled /\ ManifestTrue /\ CloseHonest

(* A Close of a started service returns.                                   *)
CloseReturns == live.closing ~> closer.pc = "done"
=============================================================================
