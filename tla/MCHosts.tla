------------------------------- MODULE MCHosts --------------------------------
(* What observes a host: the kernel probes, the router of their events, the   *)
(* receiver of LSM records, the file scanner, the guard of an MCP server, the *)
(* sensor that reads /proc and the benches that measure with it.  They share  *)
(* no state, so a behaviour is one of one of them, which "part" names; the    *)
(* others stay as they were at the start.                                     *)
EXTENDS KineticBench

VARIABLES part,
  cn, fan, pkt, alerts,                                              \* KernelProbes
  main, paths, prod, cons, ch, done, inspected, sink, failed,        \* Scanner
  kern, sn, ep, io, text, topo, faults,                              \* ProcSensor
  rings, feed, work, stopped,                                        \* EventRouter
  lsm, g                                                             \* LsmReceiver, McpGuard

probeVars == <<cn, fan, pkt, alerts>>
scanVars == <<main, paths, prod, cons, ch, done, inspected, sink, failed>>
sensorVars == <<kern, sn, ep, io, text, topo, faults>>
routerVars == <<rings, feed, work, stopped>>
allVars == <<part, probeVars, scanVars, sensorVars, b, routerVars, lsm, g>>

-------------------------------------------------------------------------------
(* Three pids on two slots of the UID table, one of which dies and is used    *)
(* again; two messages fill the ring.                                         *)
Message(w, p, e) == [what |-> w, pid |-> p, euid |-> e, short |-> FALSE]
Uid(p, e) == Message("uid", p, e)
Exit(p) == Message("exit", p, 0)
Cut == [Uid(1, 0) EXCEPT !.short = TRUE]
Inboxes ==
  {<<>>, <<Uid(1, 7), Cut, Message("fork", 2, 0), Message("exec", 2, 0), Uid(1, 0)>>}
  \cup {<<Uid(p, x), Uid(q, y), Uid(r, 0)>> : p \in {1, 3}, q \in {1, 2, 3}, r \in {1, 3}, x \in {0, 7}, y \in {0, 7}}
  \cup {<<Uid(1, x), Exit(1), Uid(q, y), Uid(1, 0)>> : q \in {1, 2, 3}, x \in {0, 7}, y \in {0, 7}}

Opened(perm, path, comm) == [perm |-> perm, path |-> path, comm |-> comm]
AllOpens == {Opened(TRUE, "shadow", "sudo"), Opened(TRUE, "cron", "sh"), Opened(FALSE, "cron", "sh"), Opened(TRUE, "data", "sh")}

\* Every frame that a field of the filter tells apart.
AllFrames == [ether : {2048, 34525}, proto : {17, 1, 6}, sport : {53, 99}, dport : {53, 99}, icmp : {0, 3, 8},
              tagged : BOOLEAN, short : BOOLEAN, cut : {FALSE}]
Query == [ether |-> 2048, proto |-> 17, sport |-> 99, dport |-> 53, icmp |-> 3,
          tagged |-> FALSE, short |-> FALSE, cut |-> FALSE]
Segment(n, wx, temp, ok) == [name |-> n, wx |-> wx, temp |-> temp, wellFormed |-> ok]
Plain == [exe |-> "bin", jit |-> FALSE, maps |-> <<>>]
AllProcesses ==
  {Plain} \cup
  {[exe |-> e, jit |-> j, maps |-> s] :
     e \in {"bin", "memfd"}, j \in BOOLEAN,
     s \in {<<Segment("v8", TRUE, FALSE, TRUE), Segment("code", TRUE, FALSE, TRUE), Segment("heap", TRUE, TRUE, TRUE)>>,
            <<Segment("heap", TRUE, TRUE, TRUE), Segment("lib", FALSE, TRUE, TRUE)>>,
            <<Segment("lib", TRUE, TRUE, FALSE), Segment("bin", FALSE, TRUE, TRUE)>>}}

\* The ring over time, and the program of the filter on every frame.
Ring == INSTANCE KernelProbes WITH
  Pids <- {0, 1, 2, 3}, UidSlots <- 2, RingSlots <- 2, Openers <- {"o1", "o2"},
  Events <- Inboxes, Opens <- AllOpens, Processes <- AllProcesses, Limit <- 2, Frames <- {Query},
  FrameNr <- 2, FileSlots <- 2, MaxFrames <- 4
Filter == INSTANCE KernelProbes WITH
  Pids <- {0, 1, 2, 3}, UidSlots <- 2, RingSlots <- 2, Openers <- {"o1", "o2"},
  Events <- Inboxes, Opens <- AllOpens, Processes <- AllProcesses, Limit <- 2, Frames <- AllFrames,
  FrameNr <- 1, FileSlots <- 2, MaxFrames <- 1

-------------------------------------------------------------------------------
(* A file with signatures on both sides of a window, one that grows after its *)
(* size was read, one that is too short and one whose read fails; in the      *)
(* second scan comments and filling are pruned.                               *)
File(n, l, h, f) == [stat |-> n, size |-> n, lines |-> l, hits |-> h, comments |-> {1}, zeros |-> {2, 3}, fault |-> f]
AllFiles == <<File(6, {1, 3}, {4}, "none"), File(2, {0}, {1}, "open"), File(1, {}, {0}, "none"),
              [File(3, {}, {}, "none") EXCEPT !.size = 7], File(2, {}, {}, "read")>>
Scan == INSTANCE Scanner WITH
  alerts <- sink, Files <- AllFiles, Workers <- {"w1"}, Window <- 2, Stride <- 1, Buffer <- 3, Capacity <- 1, MaxBytes <- 6,
  Normalize <- FALSE, MinEntropy <- FALSE
Pair == INSTANCE Scanner WITH
  alerts <- sink, Files <- <<File(4, {1}, {0, 1, 3}, "none"), File(2, {}, {0}, "read")>>, Workers <- {"w1", "w2"},
  Window <- 2, Stride <- 2, Buffer <- 3, Capacity <- 1, MaxBytes <- 6, Normalize <- TRUE, MinEntropy <- TRUE

-------------------------------------------------------------------------------
(* The texts: every short name of a process, the prefixes of a line, numbers  *)
(* at their limit, and files with a line cut, missing or wrong.               *)
Comms == UNION {[1 .. k -> {40, 41, 32, 50}] : k \in 0 .. 3}
StatLine(c, x, y) == <<49, 32, 40>> \o c \o <<41, 32, 83, 32, 48 + x, 32, 48 + y, 32, 120, 10>>
Stat(w, k, t) == [of |-> "stat", whole |-> w, pid |-> 1, kept |-> k, bytes |-> t]
StatTexts ==
  {Stat(TRUE, <<3, 7>>, StatLine(c, 3, 7)) : c \in Comms}
  \cup {Stat(FALSE, <<0, 0>>, SubSeq(StatLine(c, 3, 7), 1, k)) : c \in {<<41, 32, 83, 32, 51>>, <<120>>}, k \in 0 .. 11}
Line(k, n) == [key |-> k, num |-> n]
Lines(f, w, c, l) == [of |-> f, whole |-> w, text |-> [cut |-> c, lines |-> l]]
FileOf == [schedstat |-> <<"run", "wait", "slices">>, status |-> <<"hwm", "vol", "nonvol">>,
           io |-> <<"rchar", "wchar", "syscr", "syscw", "read", "write", "cancelled">>, psi |-> <<"some", "full">>]
Optional == {"hwm", "cancelled", "full"}
LineTexts ==
  UNION {LET l == [k \in DOMAIN FileOf[f] |-> Line(FileOf[f][k], k)]
         IN {Lines(f, TRUE, FALSE, l), Lines(f, FALSE, TRUE, l), Lines(f, FALSE, FALSE, <<>>),
             Lines(f, TRUE, FALSE, Append(l, Line("else", -1))), Lines(f, FALSE, FALSE, Append(l, Line(FileOf[f][1], -1)))}
            \cup {Lines(f, FileOf[f][k] \in Optional, FALSE, RemoveAt(l, k)) : k \in DOMAIN l} :
         f \in DOMAIN FileOf}
AllLists == {<<>>, <<<<0, 1>>>>, <<<<2, 3>>>>, <<<<1, 1>>, <<0, 0>>>>, <<<<3, 2>>>>, <<<<0, 4>>>>, <<<<0, 0>>, <<2, 2>>>>}
Sensor == INSTANCE ProcSensor WITH
  Tids <- {1, 2}, Leader <- 1, Buffer <- 3, Texts <- StatTexts \cup LineTexts, CpuLists <- AllLists,
  Allowed <- SUBSET (0 .. 3), Width <- 4, Ceiling <- 600, MaxWork <- 2, MaxChanges <- 1, MaxTicks <- 3, MaxFaults <- 1

-------------------------------------------------------------------------------
(* Two rings of two slots: events of a known and an unknown subsystem through *)
(* the channel, or single events, batches and fanouts of a corpus.            *)
Event(i, s) == [id |-> i, sub |-> s]
CorpusCall(to, e) == [to |-> to, events |-> e]
Router == INSTANCE EventRouter WITH
  Subsystems <- <<"proc", "net">>, Slots <- 2, Batch <- 2, Staffs <- {{1}, {1, 2}},
  Feeds <- {[loop |-> <<Event(1, "proc"), Event(2, "else"), Event(3, "proc"), Event(4, "net"), Event(5, "proc"), Event(6, "proc")>>,
             fan |-> <<>>],
            [loop |-> <<>>, fan |-> <<CorpusCall(-1, <<Event(1, "any"), Event(2, "any"), Event(3, "any")>>),
                                      CorpusCall(1, <<Event(4, "any")>>), CorpusCall(3, <<Event(5, "any")>>),
                                      CorpusCall(-1, <<Event(6, "any")>>)>>]}

(* Records of every hook and circumstance, one that is cut, one of another    *)
(* format, one without a time.                                                *)
Rec(h, f, u, p) == [cut |-> FALSE, magic |-> TRUE, hook |-> h, wall |-> 10, uid |-> 0, euid |-> u, flags |-> f,
                    path |-> p, comm |-> "sh", hash |-> "h"]
Good == Rec(1, {"hash"}, 0, "plain")
Lsm == INSTANCE LsmReceiver WITH
  Streams <- {<<Rec(h, f, u, p)>> : h \in 0 .. 7, f \in SUBSET {"write", "memfd", "denied"}, u \in {0, 5}, p \in {"plain", "tmp"}}
             \cup {<<Good, Rec(2, {"login"}, 5, "tmp"), x, Good>> :
                     x \in {[Good EXCEPT !.cut = TRUE], [Good EXCEPT !.magic = FALSE], [Good EXCEPT !.wall = 9], [Good EXCEPT !.hook = 7]}},
  Later <- {<<Good, [Good EXCEPT !.hook = 0], [Good EXCEPT !.wall = 210], Good>>}, MaxCalls <- 2

-------------------------------------------------------------------------------
(* Lines of a client: every envelope and every call that a check tells apart. *)
Node(k, v, m) == [kind |-> k, v |-> v, members |-> m]
Str(v) == Node("str", v, <<>>)
Num(v) == Node("num", v, <<>>)
Null == Node("null", "null", <<>>)
Member(k, v) == [k |-> k, v |-> v]
Obj(m) == Node("obj", "", m)
Arr(s) == Node("arr", "", [i \in DOMAIN s |-> Member("", s[i])])
Sign(s) == [t |-> s, v |-> s]
RECURSIVE Tokens(_)
Tokens(n) ==
  LET inside == FlattenSeq([i \in DOMAIN n.members |->
        (IF n.kind = "obj" THEN <<[t |-> "str", v |-> n.members[i].k], Sign(":")>> ELSE <<>>)
        \o Tokens(n.members[i].v) \o (IF i < Len(n.members) THEN <<Sign(",")>> ELSE <<>>)])
  IN CASE n.kind = "obj" -> <<Sign("{")>> \o inside \o <<Sign("}")>>
       [] n.kind = "arr" -> <<Sign("[")>> \o inside \o <<Sign("]")>>
       [] OTHER -> <<[t |-> IF n.kind = "null" THEN "lit" ELSE n.kind, v |-> n.v]>>
LineOf(n) == [toks |-> Tokens(n), tree |-> n, long |-> FALSE]
Broken(toks) == [toks |-> toks, tree |-> Node("none", "", <<>>), long |-> FALSE]
Request(m) == Obj(<<Member("jsonrpc", Str("2.0"))>> \o m)
CallOf(ids, params) == Request(ids \o <<Member("method", Str("tools/call"))>> \o params)
ParamsOf(name, args) == <<Member("params", Obj(<<Member("name", name), Member("arguments", args)>>))>>
PathOf(v) == Obj(<<Member("path", v)>>)
Ids == {<<>>} \cup {<<Member("id", v)>> : v \in {Str("one"), Num("7"), Null, Obj(<<>>)}}
Arguments == {Obj(<<>>), PathOf(Str("src")), PathOf(Str("bin")), PathOf(Arr(<<Str("src"), Num("7")>>)),
              PathOf(Arr([i \in 1 .. 9 |-> Str("x")])), Obj(<<Member("path", Str("src")), Member("path", Str("bin"))>>),
              Str("src"), Arr(<<Arr(<<Arr(<<>>)>>)>>)}
Names == {Str("read"), Str("read0"), Str("rea"), Str("other"), Str("long"), Str(""), Num("7")}
Ping == Member("method", Str("ping"))
Tool == Member("method", Str("tools/call"))
Envelopes ==
  {Request(<<Ping>>), Request(<<>>), Request(<<Member("id", Num("7")), Member("result", Str("x"))>>), Obj(<<Ping>>), Str("x"),
   Obj(<<Member("jsonrpc", Num("2.0")), Ping>>), Request(<<Member("method", Str(""))>>), Request(<<Member("method", Num("7"))>>),
   Request(<<Ping, Member("else", Null)>>), Request(<<Ping, Member("params", Arr(<<>>))>>),
   Request(<<Ping, Member("params", Obj(<<Member("name", Num("7"))>>))>>), Request(<<Tool, Member("params", Null)>>), Request(<<Tool>>)}
  \cup {Request(m \o p) : m \in {<<Ping, Tool>>, <<Tool, Ping>>, <<Ping, Member("Method", Str("tools/call"))>>},
                          p \in {ParamsOf(Str("other"), Obj(<<>>)), <<>>}}
  \cup {Request(ParamsOf(Str(n), PathOf(Str("src"))) \o <<Tool>>) : n \in {"read", "other"}}
  \cup {Request(<<Tool, Member("params", Obj(p \o <<Member("arguments", PathOf(Str("src")))>>))>>) :
          p \in {<<Member("name", Str("read")), Member("name", Str("other"))>>, <<Member("Name", Str("other")), Member("name", Str("read"))>>,
                 <<Member("name", Str("read")), Member("_meta", PathOf(Null))>>, <<Member("name", Str("read")), Member("else", Null)>>}}
Whole == LineOf(CallOf(<<Member("id", Num("7"))>>, ParamsOf(Str("read"), PathOf(Str("src")))))
Refused == LineOf(CallOf(<<Member("id", Num("7"))>>, ParamsOf(Str("other"), Obj(<<>>))))
Silent == LineOf(CallOf(<<>>, ParamsOf(Str("read"), PathOf(Str("bin")))))
AllLines ==
  {LineOf(CallOf(i, ParamsOf(n, a))) : i \in Ids, n \in Names, a \in Arguments} \cup {LineOf(e) : e \in Envelopes}
  \cup {Broken(SubSeq(Whole.toks, 1, k)) : k \in 0 .. Len(Whole.toks) - 1} \cup {Broken(RemoveAt(Whole.toks, k)) : k \in DOMAIN Whole.toks}

\* c_log2_c_table[c] / c for the sums of two proportions of sixteenths.
LogTable == [c \in 0 .. 32 |->
  IF c = 0 THEN 0 ELSE
  <<0, 512, 1217, 2048, 2972, 3971, 5031, 6144, 7304, 8504, 9742, 11013, 12315, 13646, 15002, 16384, 17789, 19215, 20662,
    22128, 23613, 25116, 26635, 28170, 29721, 31286, 32866, 34459, 36066, 37685, 39317, 40960>>[c] \div c]
Symbols == <<"{", "}", "[", "]", ":", ",", "path", "src", "x", "7", "bin">>
Sample == <<"{", "path", ":", "src", "}">>
Grammar(n, s) == [name |-> n, sample |-> s, mask |-> ToSet(Symbols) \ {"bin"}, threshold |-> 64]
RelaySessions == {<<Whole, Refused>>, <<Silent, Broken(<<>>)>>, <<[Whole EXCEPT !.long = TRUE]>>}
Guard == INSTANCE McpGuard WITH
  Sessions <- {<<l>> : l \in AllLines} \cup RelaySessions, MaxDepth <- 4, Catalog <- <<Grammar("read", <<"x">>), Grammar("read0", Sample), Grammar("long", Sample), Grammar("read", Sample),
                                            Grammar("rea", <<>>), Grammar("write", <<"x">>), Grammar("full", Sample)>>,
  NameBytes <- [read |-> <<1, 2, 3>>, read0 |-> <<1, 2, 3, 0>>, rea |-> <<1, 2>>, other |-> <<5>>, long |-> <<1, 2, 3, 4, 5, 6>>,
                write |-> <<7>>, full |-> <<8>>],
  NameSize <- 5, MaxTools <- 2, Alphabet <- Symbols, Scale <- 16, Log2 <- LogTable, Pipe <- 1, MaxSignals <- 1

ASSUME Router!RouterAssumption /\ Guard!GrammarAssumption
ASSUME Ring!ProbesAssumption /\ Filter!ProbesAssumption /\ Scan!ScannerAssumption /\ Pair!ScannerAssumption
ASSUME Sensor!SensorAssumption /\ BenchAssumption

-------------------------------------------------------------------------------
(* The process moves only while a snapshot is being taken, and time passes    *)
(* once, between the two; bound: a behaviour with a failed call has one slice *)
(* of work, one without has two.  In an episode of pressures the process is   *)
(* at rest, and time passes at any place.                                     *)
Between == ep.pc = "debut" /\ sn.pc = "end"
Episodes ==
  /\ Sensor!Reading \/ Sensor!Episode \/ (ep.pc \in {"debut", "fin"} /\ Sensor!Kernel)
  /\ kern'.clock # kern.clock => Between /\ kern'.clock = 1 /\ kern'.psi = kern.psi
  /\ Between /\ ep'.pc = "fin" => kern.clock = 1
  /\ faults' = 0 \/ kern'.work <= 1
Pressures ==
  /\ Sensor!Reading \/ Sensor!Episode \/ (ep.pc \in {"debut", "fin"} /\ Sensor!Kernel)
  /\ kern'.work = 0 /\ kern'.changes = 0

Parts == {"connector", "files", "ring", "filter", "memory", "scan", "pair",
          "episode", "pressure", "stream", "parsing", "topology", "bench", "router", "lsm", "line", "relay"}
MCInit ==
  /\ part \in Parts
  /\ IF part = "filter" THEN Filter!Init ELSE Ring!Init
  /\ part # "connector" => cn.inbox = <<>>
  /\ alerts.of = Plain
  /\ IF part = "pair" THEN Pair!Init ELSE Scan!Init
  /\ Sensor!Init /\ (part # "episode" => Cardinality(kern.threads) = 1)
  /\ Init /\ (part # "bench" => b.bench = "chaine")
  /\ Router!Init /\ (part # "router" => feed.fan = <<>>)
  /\ Lsm!Init /\ (part # "lsm" => lsm.stream = <<Rec(1, {}, 0, "plain")>>)
  /\ Guard!Init /\ (part # "relay" => ~g.deaf /\ g.ends) /\ (g.deaf => g.lines = <<Whole, Refused>>)
  /\ part # "line" => g.lines \in RelaySessions
  /\ part = "line" => g.lines \notin RelaySessions
  /\ part \notin {"line", "relay"} => g.lines = <<Whole, Refused>>

ProbeStep ==
  \/ part = "connector" /\ Ring!Connector
  \/ part = "files" /\ Ring!FileEvents
  \/ part = "ring" /\ Ring!PacketRing
  \/ part = "filter" /\ Filter!PacketRing
  \/ part = "memory" /\ Ring!Memory
ScanStep == (part = "scan" /\ Scan!Next) \/ (part = "pair" /\ Pair!Next)
SensorStep ==
  \/ part = "episode" /\ Episodes
  \/ part = "pressure" /\ Pressures
  \/ part = "stream" /\ Sensor!Stream
  \/ part = "parsing" /\ Sensor!Parsing
  \/ part = "topology" /\ Sensor!Topology
\* The lines one by one through the filter, and a few of them through the whole relay.
GuardStep ==
  \/ part = "line" /\ (Guard!Scan \/ Guard!Forward \/ Guard!Veto)
  \/ part = "relay" /\ Guard!Next
\* A step of one part leaves the others alone.
ProbesOnly == UNCHANGED <<part, scanVars, sensorVars, b, routerVars, lsm, g>>
ScanOnly == UNCHANGED <<part, probeVars, sensorVars, b, routerVars, lsm, g>>
SensorOnly == UNCHANGED <<part, probeVars, scanVars, b, routerVars, lsm, g>>
BenchOnly == UNCHANGED <<part, probeVars, scanVars, sensorVars, routerVars, lsm, g>>
RouterOnly == UNCHANGED <<part, probeVars, scanVars, sensorVars, b, lsm, g>>
LsmOnly == UNCHANGED <<part, probeVars, scanVars, sensorVars, b, routerVars, g>>
GuardOnly == UNCHANGED <<part, probeVars, scanVars, sensorVars, b, routerVars, lsm>>
MCNext ==
  \/ ProbeStep /\ ProbesOnly
  \/ ScanStep /\ ScanOnly
  \/ SensorStep /\ SensorOnly
  \/ part = "bench" /\ Next /\ BenchOnly
  \/ part = "router" /\ Router!Next /\ RouterOnly
  \/ part = "lsm" /\ Lsm!Next /\ LsmOnly
  \/ GuardStep /\ GuardOnly

\* The fairness of each component, in its own part.
MCFairness ==
  /\ WF_probeVars(part = "files" /\ Ring!HandleEvent)
  /\ WF_scanVars(part = "scan" /\ (Scan!Walk \/ Scan!WalkEnds)) /\ WF_scanVars(part = "scan" /\ Scan!Report)
  /\ WF_scanVars(part = "scan" /\ Scan!Produce("w1")) /\ WF_scanVars(part = "scan" /\ Scan!Consume("w1"))
  /\ WF_scanVars(part = "pair" /\ (Pair!Walk \/ Pair!WalkEnds)) /\ WF_scanVars(part = "pair" /\ Pair!Report)
  /\ \A w \in {"w1", "w2"} : /\ WF_scanVars(part = "pair" /\ Pair!Produce(w))
                             /\ WF_scanVars(part = "pair" /\ Pair!Consume(w))
  /\ WF_b(part = "bench" /\ Next)
  /\ WF_routerVars(part = "router" /\ Router!Produce) /\ WF_routerVars(part = "router" /\ Router!RunWorkers)
  /\ \A r \in {1, 2} : WF_routerVars(part = "router" /\ Router!Consumer(r))
  /\ WF_g(part = "relay" /\ Guard!Reads) /\ SF_g(part = "relay" /\ Guard!Veto)
  /\ SF_g(part = "relay" /\ Guard!Output) /\ WF_g(part = "relay" /\ Guard!Main)
MCSpec == MCInit /\ [][MCNext]_allVars /\ MCFairness

\* The packet ring alone, with a loop that calls Poll for ever.
RingSpec == MCInit /\ part = "ring" /\ [][part = "ring" /\ MCNext]_allVars /\ Ring!Fairness

-------------------------------------------------------------------------------
(* KernelProbes: RingProc loses nothing but what it counts and keeps the      *)
(* order; an elevation is flagged only for a process last seen unprivileged   *)
(* or the heir of its pid, and missed only when its slot was taken; Inspect   *)
(* reports the flaws of a process in order, up to its limit; no frame is      *)
(* delivered twice, and the jumps of the filter agree with the decoder.       *)
(* EventRouter: each worker is given the accepted events once and in order,   *)
(* and the others are counted.  LsmReceiver: the counts of the receiver are   *)
(* those of the silo and of the stream, and no circumstance of an event       *)
(* softens another.                                                           *)
ProbesTrue ==
  /\ part = "router" => Router!RouterExact
  /\ part = "lsm" => Lsm!LsmAccounted
  /\ Ring!RingExact /\ Ring!ElevationTrue /\ Ring!InspectionExact
  /\ part = "ring" => Ring!PacketsOnce
  /\ part = "filter" => Filter!PacketsOnce

(* Scanner: a scan that returns has inspected every byte of the files it has  *)
(* no error about, each window once and on its line, whoever ended first.     *)
(* McpGuard: a line that passes is permitted in every reading of it, a        *)
(* refusal answers its request, lines to the client are whole, and an exit    *)
(* with 0 leaves no line unjudged, none of the child's lines behind, and no   *)
(* child.                                                                     *)
InspectionComplete ==
  /\ part = "scan" => Scan!ScanComplete
  /\ part = "pair" => Pair!ScanComplete
  /\ part = "line" => Guard!LinesSound
  /\ part = "relay" => Guard!RelaySound

(* ProcSensor and KineticBench: an accepted episode measures no more than the *)
(* work of the task whose stat was read first, although the pid may pass to   *)
(* another process and threads are read one by one; a pressure is invented or *)
(* missed only where a reading of it failed or the clock was set back; texts  *)
(* and processor lists are read exactly; a bench reports each chain under the *)
(* load it is named for and leaves the thread and the descriptors as it found *)
(* them, whatever fails.                                                      *)
MeasuresTrue == Sensor!SensorSound /\ BenchHonest

\* What is owed in each part, and what pays it; ring, opener and worker 2 in the second pair.
Owed1 ==
  \/ part \in {"scan", "pair", "bench"}
  \/ part = "files" /\ Ring!Waits("o1")
  \/ part = "router" /\ Router!Waiting(1)
  \/ part = "relay" /\ Guard!Over
Paid1 ==
  \/ part = "scan" /\ Scan!Ended
  \/ part = "pair" /\ Pair!Ended
  \/ part = "bench" /\ Gone
  \/ part = "files" /\ Ring!Answered("o1")
  \/ part = "router" /\ Router!Drained(1)
  \/ part = "relay" /\ Guard!Exited
Owed2 == (part = "files" /\ Ring!Waits("o2")) \/ (part = "router" /\ Router!Waiting(2))
Paid2 == (part = "files" /\ Ring!Answered("o2")) \/ (part = "router" /\ Router!Drained(2))

(* Openers of files are answered, scans end although both sides of a channel  *)
(* wait for each other, and a bench ends and unwinds whatever fails; a router *)
(* drains its rings until it is stopped; a guard whose child is gone or whose *)
(* client has ended exits and leaves no child.                                *)
HostsProgress ==
  /\ Owed1 ~> Paid1
  /\ Owed2 ~> Paid2
  /\ (part = "router" /\ Router!Stopping) ~> Router!AllReturned

(* "Poll draine les trames disponibles de l'anneau" (probe_linux.go): a frame *)
(* that the kernel made available is handed over although no other arrives.   *)
AvailableDrained == Ring!AvailableDrained
===============================================================================
