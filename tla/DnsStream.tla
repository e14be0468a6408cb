----------------------------- MODULE DnsStream -----------------------------
(***************************************************************************)
(* The streaming classifier of DNS messages and what stands around it:     *)
(* StreamingDNS18State.ObserveAndClassify18 (an ordered cascade of rules   *)
(* on one packet, then level-4 counters over the stream),                  *)
(* Pipeline.EvaluateDNSMessageWithReason, RecordSession (a capture and a   *)
(* journal written side by side) and ComputeStreamTTD.                     *)
(*                                                                         *)
(* A packet is a record: resp, opcode, rcode, ns (authority count), qtype, *)
(* apex, name, form (the shape of the subdomain: "dga", "tuple", "flat" or *)
(* "plain"), tuple, valid (ParseDNSMessage accepts it), sections (what its *)
(* record sections hold) and marks, the set of facts the code reads off    *)
(* its bytes or asks of another tracker.                                   *)
(***************************************************************************)
EXTENDS Integers, Sequences, FiniteSets, FiniteSetsExt, SequencesExt

CONSTANTS
    Packets,
    NamesMin, NamesCap,    \* M-04: 4 distinct names, 16 kept
    ApexMin, ApexCap,      \* P4: 4 distinct apexes, 32 kept
    TupleMin, TupleCap,    \* P11: 5 distinct tuples, 8 kept
    BurstMin, BurstSpan,   \* M-03: 15 questions in 2 s
    BeatMin, BeatCap,      \* P3: 5 types, ring of 8
    PairGap,               \* 50 ms between an A and an AAAA question
    Slots,                 \* 64 apex slots
    Families,              \* true families of the evaluated stream
    MaxPackets, MaxClock, MaxFaults

StreamAssumption ==
    /\ {NamesMin, ApexMin, TupleMin, BurstMin, BurstSpan, BeatMin, Slots, MaxPackets} \subseteq Nat \ {0}
    /\ NamesMin <= NamesCap /\ ApexMin <= ApexCap /\ TupleMin <= TupleCap /\ BeatMin <= BeatCap
    /\ \A p \in Packets : p.apex \in Nat \ {0}

VARIABLES st,      \* StreamingDNS18State
          past,    \* history: what the state was given, with its verdict
          pipe,    \* [closed, verdict]
          rec,     \* RecordSession
          ttd,     \* ComputeStreamTTD: a report per family, false positives, and
                   \* (history) the points seen
          now, faults

vars == <<st, past, pipe, rec, ttd, now, faults>>

NoSlot == [apex |-> 0, tuples |-> {}, burst |-> <<>>, beats |-> <<>>]
NoReport == [total |-> 0, first |-> 0, detected |-> FALSE, packets |-> 0, delay |-> 0, reason |-> "none"]
NewState == [names |-> {}, apexes |-> {}, slots |-> [i \in 0..(Slots - 1) |-> NoSlot]]
Init ==
    /\ st = NewState
    /\ past = <<>>
    /\ pipe = [closed |-> FALSE, decision |-> "none", class |-> "none"]
    /\ rec = [open |-> TRUE, st |-> NewState, frames |-> <<>>, lines |-> <<>>, idx |-> 0]
    /\ ttd = [of |-> [f \in Families |-> NoReport], fp |-> 0, points |-> <<>>]
    /\ now = 0 /\ faults = 0

(* A negative answer that carries anything beyond aliases, the SOA, denial *)
(* and signature records: c = whether more records are announced than      *)
(* decoded, the types of the sections, a non-zero extended RCODE.          *)
hasNegativeAnswerPayloadP14(c) ==
    \/ c.undecoded
    \/ c.answers \ {5, 39, 46} # {}
    \/ c.authorities \ {6, 46, 47, 50} # {}
    \/ c.additionals \ {24, 41, 46, 47, 50, 250} # {}
    \/ 41 \in c.additionals /\ c.extended

(***************************************************************************)
(* Levels 1 to 3: the first rule whose condition holds decides.            *)
(***************************************************************************)
Rule(when, class) == [when |-> when, class |-> class]
Cascade(p) ==
    LET has(m) == m \in p.marks IN
    << Rule(~p.resp /\ p.qtype # 33 /\ has("underscore"), "BENIGN"),
       Rule(p.opcode = 5 /\ p.ns >= 1, "P6"),
       Rule(p.qtype \in {251, 252} /\ p.resp /\ has("bulk"), "P5"),
       Rule(p.qtype \in {251, 252}, "BENIGN"),
       Rule(p.qtype = 255 /\ p.resp /\ has("types"), "P13"),
       Rule(p.qtype = 255, "BENIGN"),
       Rule(p.resp /\ p.opcode = 0 /\ p.rcode = 3 /\ hasNegativeAnswerPayloadP14(p.sections), "P14"),
       Rule(p.resp /\ has("edns"), "P9"),
       Rule(p.qtype = 33 /\ p.resp /\ has("srv"), "P7"),
       Rule(p.qtype = 33 /\ ~p.resp, "BENIGN"),
       Rule(p.resp /\ has("cname"), "P8"),
       Rule(p.resp /\ has("ttl"), "P10"),
       Rule(p.resp /\ has("big") /\ (p.qtype = 10 \/ (p.qtype = 16 /\ ~has("underscore"))), "P1"),
       Rule(p.resp /\ has("renewal"), "P15"),
       Rule(p.resp /\ (p.qtype = 33 \/ has("underscore")), "BENIGN"),
       Rule(has("ratio"), "P1"),
       Rule(has("long"), "M-01"),
       Rule(has("hex"), "P2"),
       Rule(has("base58"), "P12"),
       Rule((~p.resp \/ p.rcode = 0) /\ has("entropy"), "M-02") >>
Matched(p) ==
    LET rules == Cascade(p)  hits == {i \in DOMAIN rules : rules[i].when}
    IN IF hits = {} THEN "none" ELSE rules[Min(hits)].class

(***************************************************************************)
(* Level 4.  Capped sets never forget: a full one just stops growing.      *)
(***************************************************************************)
Capped(S, x, cap) == IF x \in S \/ Cardinality(S) >= cap THEN S ELSE S \cup {x}
Probe(apex, k) == (apex + k) % Slots

(* Linear probing; a full table loses the slot at the home position.       *)
slotForApex(slots, apex) ==
    LET hits == {k \in 0..(Slots - 1) : slots[Probe(apex, k)].apex \in {apex, 0}}
    IN IF hits = {} THEN Probe(apex, 0) ELSE Probe(apex, Min(hits))
(* Mutant of Claimed: the counters of the apex that is evicted stay.       *)
ClaimedKeeps(slots, apex) == [slots[slotForApex(slots, apex)] EXCEPT !.apex = apex]

Claimed(slots, apex) ==
    LET i == slotForApex(slots, apex)
    IN IF slots[i].apex = apex THEN slots[i] ELSE [NoSlot EXCEPT !.apex = apex]

LastOf(s, n) == IF Len(s) <= n THEN s ELSE SubSeq(s, Len(s) - n + 1, Len(s))
Bursts(s) ==
    LET w == LastOf(s, BurstMin)  span == w[Len(w)] - w[1]
    IN Len(s) >= BurstMin /\ span > 0 /\ span <= BurstSpan

(* A and AAAA close together are one beat (Happy Eyeballs).                *)
Beat(beats, ts, qtype) ==
    LET l == beats[Len(beats)]
    IN IF beats # <<>> /\ ts - l[1] \in 0..PairGap /\ {qtype, l[2]} = {1, 28}
       THEN beats ELSE LastOf(Append(beats, <<ts, qtype>>), BeatCap)
qtypeBucket(qt) == IF qt \in {1, 28, 16, 10, 5} THEN qt ELSE 0

(* Enough distinct types, intervals alike (CV below 0.12: equal here; the  *)
(* CV of a single interval or of a null mean is 1) and at least three      *)
(* distinct transitions (entropy above 0.40).                              *)
Rotates(b) ==
    LET gaps == {b[i + 1][1] - b[i][1] : i \in 1..(Len(b) - 1)} IN
    /\ Len(b) >= BeatMin /\ Cardinality({b[i][2] : i \in DOMAIN b}) >= BeatMin
    /\ Len(b) > 2 /\ Cardinality(gaps) = 1 /\ 0 \notin gaps
    /\ Cardinality({<<qtypeBucket(b[i][2]), qtypeBucket(b[i + 1][2])>> : i \in 1..(Len(b) - 1)}) >= 3

Answer(s, class, consumed) == [st |-> s, class |-> class, consumed |-> consumed]
Level4(s, p, ts) ==
    LET i == slotForApex(s.slots, p.apex)
        slot == Claimed(s.slots, p.apex)
        With(x) == [s EXCEPT !.slots[i] = x]
        names == IF p.resp /\ p.rcode = 3 THEN Capped(s.names, p.name, NamesCap) ELSE s.names
        tuples == Capped(slot.tuples, p.tuple, TupleCap)
        open == ~p.resp \/ p.rcode = 0
        apexes == IF open THEN Capped(s.apexes, p.apex, ApexCap) ELSE s.apexes
        burst == LastOf(Append(slot.burst, ts), BurstMin + 1)
        beats == Beat(slot.beats, ts, p.qtype)
    IN CASE p.form = "dga" ->
              Answer([With(slot) EXCEPT !.names = names],
                     IF p.resp /\ p.rcode = 3 /\ Cardinality(names) >= NamesMin THEN "M-04" ELSE "BENIGN", TRUE)
         [] p.form = "tuple" ->
              Answer(With([slot EXCEPT !.tuples = tuples]),
                     IF Cardinality(tuples) >= TupleMin THEN "P11" ELSE "BENIGN", TRUE)
         [] p.form = "flat" ->
              IF open /\ Cardinality(apexes) >= ApexMin
              THEN Answer([With(slot) EXCEPT !.apexes = apexes], "P4", TRUE)
              ELSE Answer([With(slot) EXCEPT !.apexes = apexes], "BENIGN", FALSE)
         [] p.form = "plain" /\ p.resp -> Answer(With(slot), "BENIGN", TRUE)
         [] p.form = "plain" /\ ~p.resp ->
              IF Bursts(burst) THEN Answer(With([slot EXCEPT !.burst = burst]), "M-03", TRUE)
              ELSE Answer(With([slot EXCEPT !.burst = burst, !.beats = beats]),
                          IF Rotates(beats) THEN "P3" ELSE "BENIGN", TRUE)

ObserveAndClassify18(s, p, ts) ==
    LET class == Matched(p)
    IN IF class # "none" THEN Answer(s, class, TRUE) ELSE Level4(s, p, ts)

(***************************************************************************)
(* EvaluateDNSMessageWithReason under lifeMu (read) and dnsMessages.mu.    *)
(* The rollup is only asked about what the cascade did not consume.        *)
(***************************************************************************)
Evaluated(p, a) == IF ~a.consumed /\ "sharded" \in p.marks THEN "P4" ELSE a.class
Decision(class) == IF class = "BENIGN" THEN "pass" ELSE "escalate"

Refused ==
    /\ pipe.closed
    /\ pipe' = [pipe EXCEPT !.decision = "refused", !.class = "BENIGN"]
    /\ UNCHANGED <<st, past>>
Unparsed(p) ==
    /\ ~pipe.closed /\ ~p.valid
    /\ pipe' = [pipe EXCEPT !.decision = "escalate", !.class = "PARSE_ERR"]
    /\ UNCHANGED <<st, past>>
Classified(p) ==
    /\ ~pipe.closed /\ p.valid /\ Len(past) < MaxPackets
    /\ \E a \in {ObserveAndClassify18(st, p, now)} :
         /\ st' = a.st
         /\ pipe' = [pipe EXCEPT !.class = Evaluated(p, a), !.decision = Decision(Evaluated(p, a))]
         /\ past' = Append(past, [p |-> p, ts |-> now, class |-> Evaluated(p, a), deep |-> Matched(p) = "none"])

EvaluateDNSMessage(p) == (Refused \/ Unparsed(p) \/ Classified(p)) /\ UNCHANGED <<rec, ttd, now, faults>>
ClosePipeline == ~pipe.closed /\ pipe' = [pipe EXCEPT !.closed = TRUE] /\ UNCHANGED <<st, past, rec, ttd, now, faults>>

(***************************************************************************)
(* RecordDNSMessage: parse, evaluate, classify once more with the session's *)
(* own state and rollup (whose threshold is lower), write the frame, write *)
(* the line; an error of either write is returned and the index only       *)
(* counts lines.  After Close both files are nil and the first write fails.*)
(***************************************************************************)
Writes == {"both", "frame", "neither"}
SessionReason(p, a, class) ==
    LET own == IF ~a.consumed /\ p.marks \cap {"sharded", "spread"} # {} THEN "P4" ELSE a.class
    IN IF own = "BENIGN" THEN class ELSE own
RecordRefused(p) == p.valid /\ Refused /\ UNCHANGED <<rec, ttd, now, faults>>
RecordDNSMessage(p, w) ==
    /\ Classified(p)
    /\ w = "both" \/ (rec.open /\ faults < MaxFaults)
    /\ \E a \in {ObserveAndClassify18(rec.st, p, now)} :
         LET framed == rec.open /\ w # "neither"
             lined == rec.open /\ w = "both"
         IN rec' = [rec EXCEPT !.st = a.st, !.frames = IF framed THEN Append(@, p) ELSE @,
                      !.lines = IF lined THEN Append(@, [index |-> rec.idx, p |-> p, reason |-> SessionReason(p, a, pipe'.class)])
                                ELSE @,
                      !.idx = IF lined THEN @ + 1 ELSE @]
    /\ faults' = IF w = "both" THEN faults ELSE faults + 1
    /\ UNCHANGED <<ttd, now>>
CloseSession == rec.open /\ rec' = [rec EXCEPT !.open = FALSE] /\ UNCHANGED <<st, past, pipe, ttd, now, faults>>

(***************************************************************************)
(* ComputeStreamTTD: one evaluated point.                                  *)
(***************************************************************************)
ComputeStreamTTD(r, reason) ==
    LET total == r.total + 1  first == IF total = 1 THEN now ELSE r.first
        hit == ~r.detected /\ reason # "none"
    IN [total |-> total, first |-> first, detected |-> r.detected \/ reason # "none",
        packets |-> IF hit THEN total ELSE r.packets, delay |-> IF hit THEN now - first ELSE r.delay,
        reason |-> IF hit THEN reason ELSE r.reason]
ClassifyForensicReason(marks) ==
    LET has(m) == m \in marks IN
    CASE has("underscore") -> "none"
      [] ~has("underscore") /\ has("ratio") -> "P1"
      [] marks \cap {"underscore", "ratio"} = {} /\ has("hex") -> "P2"
      [] marks \cap {"underscore", "ratio", "hex"} = {} /\ has("beacon") -> "P3"
      [] marks \cap {"underscore", "ratio", "hex", "beacon"} = {} /\ has("sharded") -> "P4"
      [] OTHER -> "none"
Point(f, p) == \E reason \in {ClassifyForensicReason(p.marks)} :
    /\ Len(ttd.points) < MaxPackets
    /\ ttd' = [of |-> IF f = "BENIGN" THEN ttd.of ELSE [ttd.of EXCEPT ![f] = ComputeStreamTTD(@, reason)],
               fp |-> IF f = "BENIGN" /\ reason # "none" THEN ttd.fp + 1 ELSE ttd.fp,
               points |-> Append(ttd.points, [family |-> f, reason |-> reason, ts |-> now])]
    /\ UNCHANGED <<st, past, pipe, rec, now, faults>>

Pass == now < MaxClock /\ now' = now + 1 /\ UNCHANGED <<st, past, pipe, rec, ttd, faults>>

Stream == (\E p \in Packets : EvaluateDNSMessage(p)) \/ ClosePipeline \/ Pass
Session == \/ \E p \in Packets : RecordRefused(p) \/ EvaluateDNSMessage(p) \/ \E w \in Writes : RecordDNSMessage(p, w)
           \/ CloseSession \/ ClosePipeline
Points == (\E f \in Families \cup {"BENIGN"}, p \in Packets : Point(f, p)) \/ Pass
Next == Stream \/ Session \/ Points
Spec == Init /\ [][Next]_vars

(***************************************************************************)
(* Properties.                                                             *)
(***************************************************************************)
(* A stream verdict is backed by the stream: M-04 by enough distinct       *)
(* negative names, P4 by enough distinct apexes or the rollup, P11 by      *)
(* enough length tuples of that very apex, P3 by enough question types of  *)
(* it at three instants or more, M-03 by enough questions of it within the *)
(* span - even when apexes collide, are evicted from the full table and    *)
(* come back.                                                              *)
VerdictBacked ==
    past # <<>> =>
        LET i == Len(past)  e == past[i]
            before == {j \in 1..i : past[j].deep}
            same == {j \in before : past[j].p.apex = e.p.apex}
        IN e.deep =>
           /\ e.class = "M-04" =>
                Cardinality({past[j].p.name : j \in {k \in before : past[k].p.form = "dga" /\ past[k].p.rcode = 3}}) >= NamesMin
           /\ e.class = "P4" =>
                \/ "sharded" \in e.p.marks
                \/ Cardinality({past[j].p.apex : j \in {k \in before : past[k].p.form = "flat"}}) >= ApexMin
           /\ e.class = "P11" =>
                Cardinality({past[j].p.tuple : j \in {k \in same : past[k].p.form = "tuple"}}) >= TupleMin
           /\ e.class = "P3" =>
                /\ Cardinality({past[j].p.qtype : j \in {k \in same : ~past[k].p.resp}}) >= BeatMin
                /\ Cardinality({past[j].ts : j \in {k \in same : ~past[k].p.resp}}) >= 3
           /\ e.class = "M-03" =>
                Cardinality({j \in same : ~past[j].p.resp /\ past[j].ts >= e.ts - BurstSpan}) >= BurstMin

(* The capture and the journal of a session: every line has its frame,     *)
(* in the same order, and as long as no write failed the index of the      *)
(* line is the index of the frame; a refused message leaves no trace and   *)
(* no line hides what the pipeline said of its message.                    *)
SessionOrdered ==
    /\ Len(rec.lines) <= Len(rec.frames) /\ rec.idx = Len(rec.lines)
    /\ \A i \in DOMAIN rec.lines :
         /\ rec.lines[i].index = i - 1
         /\ \E j \in i..Len(rec.frames) : rec.frames[j] = rec.lines[i].p
         /\ \E e \in Range(past) : e.p = rec.lines[i].p /\ (rec.lines[i].reason = "BENIGN" => e.class = "BENIGN")
    /\ faults = 0 => Len(rec.frames) = Len(rec.lines) /\ \A i \in DOMAIN rec.lines : rec.frames[i] = rec.lines[i].p

(* Time to detection: the running report of a family is that of its first  *)
(* suspicious point, counted and timed from the first point of the family, *)
(* whatever points of other families lie between; only benign points are   *)
(* false positives.                                                        *)
DetectionExact ==
    /\ \A f \in Families :
         LET mine == SelectSeq(ttd.points, LAMBDA x : x.family = f)
             hits == {i \in DOMAIN mine : mine[i].reason # "none"}
             r == ttd.of[f]
         IN /\ r.total = Len(mine) /\ (r.detected <=> hits # {})
            /\ hits # {} => LET k == Min(hits) IN
                 r.packets = k /\ r.reason = mine[k].reason /\ r.delay = mine[k].ts - mine[1].ts
    /\ ttd.fp = Len(SelectSeq(ttd.points, LAMBDA x : x.family = "BENIGN" /\ x.reason # "none"))
=============================================================================
