----------------------------- MODULE MCDnsMessages ----------------------------
(* DNS messages: the decoders of names and captures (DnsWire), the tables     *)
(* that watch responses and queries (DnsTrackers) and the streaming           *)
(* classifier with the recorded session (DnsStream).  A behaviour is one of   *)
(* one of them, which "part" names.                                           *)
EXTENDS DnsWire, SequencesExt

VARIABLES part,
  tab, seen, last, tick, steps,                  \* DnsTrackers
  st, past, pipe, rec, ttd, clock, faults        \* DnsStream

tracked == <<tab, seen, last, tick, steps>>
streamed == <<st, past, pipe, rec, ttd, clock, faults>>
allVars == <<part, vars, tracked, streamed>>

-------------------------------------------------------------------------------
(* DnsWire: every packet up to four bytes of a small alphabet (label lengths, *)
(* a letter in both cases, pointers to the name, into it and past it), names  *)
(* of one to three labels followed by what a question or record needs, and    *)
(* names whose first label holds '.' octets.                                  *)
AllBytes == {0, 1, 2, 97, 65, 192, 12, 14}
FewBytes == {0, 1, 192, 12, 14}
Bytes(S, n) == [1..n -> S]
MCPackets ==
  UNION {Bytes(AllBytes, n) : n \in 0..3}
  \cup {<<1, 97>> \o t : t \in UNION {Bytes(FewBytes, n) : n \in 3..4}}
  \cup {<<1, 97, 1, 98, 1, 97>> \o t : t \in Bytes(FewBytes, 3)}
  \cup {<<3>> \o l \o <<1, 97, 0>> \o t : l \in Bytes({97, 46}, 3), t \in Bytes({0, 1}, 2)}
MCHeader == <<1, 97, 1, 0, 0, 1, 0, 1, 0, 0, 0, 0>>
MCCounts == {<<1, 1>>, <<1, 2>>, <<2, 0>>}
MCTwoLevel == {<<98, 46, 97>>}

Frame(size, ether, ver, ihl, total, frag, proto, s, d, udp) ==
  [size |-> size, ether |-> ether, inner |-> 2048, ver |-> ver, ihl |-> ihl, total |-> total,
   frag |-> frag, proto |-> proto, sport |-> s, dport |-> d, udp |-> udp,
   cut |-> FALSE, clipped |-> FALSE, query |-> "ok", message |-> "queries", fails |-> FALSE]
Ports(f) == {[f EXCEPT !.proto = p, !.dport = d, !.udp = u, !.frag = g] :
               p \in {6, 17}, d \in {53, 9}, u \in {7, 16, 99}, g \in BOOLEAN}
MCRecords ==
  {Frame(n, e, v, i, t, FALSE, 17, 9, 53, 16) :
     n \in {30, 64, 80}, e \in {2048, 34525, 33024}, v \in {4, 6}, i \in {16, 20, 24}, t \in {12, 40}}
  \cup Ports(Frame(80, 2048, 4, 20, 40, FALSE, 17, 9, 53, 16))
  \cup Ports(Frame(80, 34525, 6, 20, 16, FALSE, 17, 9, 53, 16))
  \cup {[Frame(80, 2048, 4, 20, 40, FALSE, 17, 53, 9, 16) EXCEPT !.message = "replies"]}
  \cup {[Frame(80, 2048, 4, 20, 40, FALSE, 17, 9, 53, 16) EXCEPT
           !.cut = c, !.clipped = l, !.query = q, !.message = m, !.fails = f] :
          c \in BOOLEAN, l \in BOOLEAN, q \in {"ok", "short", "label", "loop", "long", "contract"},
          m \in {"queries", "malformed"}, f \in BOOLEAN}

(* DnsTrackers: three keys meet in a bucket of two ways.  A third tick serves *)
(* the window of the guard.                                                   *)
RR(t, x, e) == [type |-> t, text |-> x, raw |-> x + 10, exact |-> e, size |-> 7]
MCRRsets == {<<RR(5, 1, TRUE), RR(1, 2, FALSE)>>, <<RR(1, 2, FALSE), RR(5, 1, TRUE), RR(1, 2, FALSE)>>,
             <<RR(5, 1, FALSE)>>, <<RR(46, 1, TRUE)>>}
MCQuestions == UNION {[1..n -> {1, 2} \X {1, 28, 16}] : n \in 1..4}
Trackers == INSTANCE DnsTrackers WITH
  now <- tick, Keys <- {1, 2, 3}, Prints <- {1, 2}, Ways <- 2, Cells <- 2, Fire <- 2, Window <- 1,
  Sizes <- {1}, MeanMin <- 7, RRsets <- MCRRsets, RRCap <- 2, Radius <- 1, Budget <- 2, Slack <- 1,
  Threshold <- 1, Questions <- MCQuestions, MaxClock <- 3, MaxSteps <- 5

(* DnsStream: two apexes meet in one of two slots (1 and 3, 1 and 5).         *)
Plain == [undecoded |-> FALSE, answers |-> {}, authorities |-> {6}, additionals |-> {}, extended |-> FALSE]
Message_(resp, qtype, apex, form, x, marks) ==
  [resp |-> resp, opcode |-> 0, rcode |-> IF form = "dga" THEN 3 ELSE 0, ns |-> 0, qtype |-> qtype,
   apex |-> apex, name |-> x, form |-> form, tuple |-> x, valid |-> TRUE, sections |-> Plain, marks |-> marks]
MCMessages ==
  {Message_(TRUE, 1, 1, "dga", x, {}) : x \in {1, 2}}
  \cup {[Message_(TRUE, 1, 1, "dga", 1, {}) EXCEPT !.sections.authorities = {6, 16}]}
  \cup {Message_(FALSE, 1, a, "tuple", x, {}) : a \in {1, 3}, x \in {1, 2}}
  \cup {Message_(FALSE, 1, a, "flat", 1, {}) : a \in {1, 2}}
  \cup {Message_(FALSE, 1, 2, "flat", 1, {m}) : m \in {"sharded", "spread"}}
  \cup {Message_(FALSE, q, 1, "plain", 1, {}) : q \in {1, 28}}
  \cup {Message_(FALSE, 16, a, "plain", 1, {}) : a \in {1, 5}}
  \cup {Message_(FALSE, 1, 1, "plain", 1, {"beacon"}), Message_(FALSE, 1, 1, "plain", 1, {"long", "hex"}),
        [Message_(TRUE, 1, 1, "plain", 1, {}) EXCEPT !.valid = FALSE]}
Stream == INSTANCE DnsStream WITH
  now <- clock, Packets <- MCMessages, NamesMin <- 2, NamesCap <- 3, ApexMin <- 2, ApexCap <- 2,
  TupleMin <- 2, TupleCap <- 2, BurstMin <- 3, BurstSpan <- 1, BeatMin <- 3, BeatCap <- 4, PairGap <- 0,
  Slots <- 2, Families <- {"P1", "P3"}, MaxPackets <- 5, MaxClock <- 3, MaxFaults <- 1

ASSUME DnsWireAssumption
ASSUME Trackers!TrackersAssumption /\ Stream!StreamAssumption

-------------------------------------------------------------------------------
Parts == {"decode", "capture", "responses", "addresses", "renewals", "exchanges", "rollups", "guards", "bursts", "updates",
          "timings", "stream", "tuple", "plain", "session", "points"}
Halted(c) == Refuse(c, "halted")
NoDec == [raw |-> <<>>, count |-> <<0, 0>>, tolerant |-> FALSE, wire |-> Halted(Cursor(Header)),
          name |-> Halted(Cursor(Header)), query |-> Halted(Cursor(Header)),
          msg |-> [NewMessage(<<1, 1>>) EXCEPT !.verdict = "halted"]]
NoCap == [link |-> 1, records |-> <<>>, magic |-> FALSE, first |-> [Reader EXCEPT !.state = "halted"],
          second |-> [Reader EXCEPT !.state = "halted"]]
MCInit ==
  /\ part \in Parts
  /\ IF part = "decode" THEN InitDec ELSE dec = NoDec
  /\ IF part = "capture" THEN InitCap ELSE cap = NoCap
  /\ Trackers!Init /\ Stream!Init

\* Shorter sequences where a step has more alternatives: the guard with three
\* parents for two entries, and with one parent and three sub-domains.
Asks(K, P, C, Lags) == \E k \in K, p \in P, c \in C, q \in BOOLEAN, lag \in Lags : Trackers!Guard(k, p, c, q, tick - lag)
Tracked ==
  \/ Trackers!Pass /\ \/ part \in {"responses", "addresses", "renewals"} /\ tick < 2
                      \/ part \in {"exchanges", "rollups", "guards"} /\ tick = 0
                      \/ part = "bursts"
  \/ part = "responses" /\ Trackers!Responses
  \/ part = "addresses" /\ Trackers!Addresses
  \/ part = "renewals" /\ steps < 4 /\ Trackers!Renewals
  \/ part = "exchanges" /\ steps < 4 /\ Trackers!Exchanges
  \/ part = "rollups" /\ steps < 4 /\ Trackers!Rollups
  \/ part = "guards" /\ steps < 3 /\ Asks({1, 2, 3}, {1, 2}, {"binary"}, 0..1)
  \/ part = "bursts" /\ steps < 4 /\ Asks({1}, {1, 2, 3}, {"ldh", "binary", "utf8"}, {0})
  \/ part = "updates" /\ steps < 4 /\ Trackers!Updates
  \/ part = "timings" /\ steps = 0 /\ Trackers!Timings
Classifies(S) == (\E p \in S : Stream!Classified(p)) /\ UNCHANGED <<rec, ttd, clock, faults>>
Streamed ==
  \/ part = "stream" /\ Len(past) < 3 /\ Stream!Stream /\ clock' < 3
  \/ part = "tuple" /\ Classifies({p \in MCMessages : p.form = "tuple" \/ p.apex = 5})
  \/ part = "plain" /\ (Classifies({p \in MCMessages : ~p.resp /\ p.form = "plain" /\ "beacon" \notin p.marks}) \/ Stream!Pass)
  \/ part = "session" /\ Len(past) < 2 /\ Stream!Session
  \/ part = "points" /\ Len(ttd.points) < 3 /\ Stream!Points /\ clock' < 3
MCNext ==
  /\ UNCHANGED part
  /\ \/ Next /\ UNCHANGED <<tracked, streamed>>
     \/ Tracked /\ UNCHANGED <<vars, streamed>>
     \/ Streamed /\ UNCHANGED <<vars, tracked>>
MCSpec == MCInit /\ [][MCNext]_allVars /\ Fairness

-------------------------------------------------------------------------------
(* DnsWire: what the strict decoder or the question parser accepts, the       *)
(* trackers' decoder reads the same; the parts of a name make up the name and *)
(* the elements of a message tile it; every capture record is counted once,   *)
(* and the second reader visits each question the first parsed.  Every        *)
(* decoder and reader ends on every input, pointer cycles included            *)
(* (decodeDNSWireName, decompresserNomDNS, parseDNSQueryWire).                *)
WireExact == [](DecodersAgree /\ PartsWhole /\ ReadersAgree) /\ DecodingEnds

(* DnsTrackers: an alert is earned by the key it names, whatever shares the   *)
(* bucket, and is missed only when the bucket was overrun; no key holds two   *)
(* ways, a reply meets one pending query, a client slot knows only its own.   *)
TrackersTrue == Trackers!AlertsTrue /\ Trackers!TablesWhole

(* DnsStream: a stream verdict is backed by the packets of the stream, a      *)
(* journal line has its frame and, while no write failed, at its index; the   *)
(* report of a family is that of its first suspicious point.                  *)
StreamTrue == Stream!VerdictBacked /\ Stream!SessionOrdered /\ Stream!DetectionExact
===============================================================================
