---------------------------- MODULE DnsTrackers ----------------------------
(***************************************************************************)
(* The fixed-size tables that watch DNS messages: SOANegativeTracker,      *)
(* AAAAIIDTracker and RenouvellementRDataTracker (responses),              *)
(* DNSEpisodeStore (queries matched with replies), DNSClientRollup,        *)
(* NonLDHBurstGuard and CusumDriftGuard.  A table has many independent     *)
(* buckets; the model is ONE bucket, and Keys are keys that collide in it. *)
(* Prints, identifiers, hashes and transaction numbers are positive        *)
(* integers (0 marks an empty cell, as in the code), times are in units    *)
(* of which Window makes the sliding window.                               *)
(***************************************************************************)
EXTENDS Integers, Sequences, FiniteSets, FiniteSetsExt, Functions

CONSTANTS
    Keys, Prints,   \* positive integers
    Ways,           \* 4 ways of a bucket (8 probes of the guard)
    Cells,          \* 8 prints, 16 identifiers or responses of a way
    Fire,           \* 3 (SOA, guard; 8 for its UTF-8 class), 8 (AAAA, RDATA)
    Window,         \* 600 s (300 s for the guard)
    Sizes, MeanMin, \* RDLENGTH sums and the mean that counts (128)
    RRsets, RRCap,  \* answer sections, and the 16 prints kept per packet
    Radius, Budget, Slack, Threshold,   \* DriftGuardConfig
    Questions,      \* sequences of <<interval, qtype>> for the timing pass
    MaxClock, MaxSteps

TrackersAssumption ==
    /\ Keys \cup Prints \cup Sizes \subseteq Nat \ {0}
    /\ {Ways, Cells, Fire, Window, MeanMin, RRCap, MaxClock, MaxSteps} \subseteq Nat \ {0}
    /\ Fire <= Cells
    /\ {Radius, Budget, Slack, Threshold} \subseteq Nat

VARIABLES tab,   \* the tables
          seen,  \* history: every observation the tables were given
          last,  \* the last call and its result
          now, steps

vars == <<tab, seen, last, now, steps>>

Way == [key |-> 0, print |-> [c \in 1..Cells |-> 0], ts |-> [c \in 1..Cells |-> 0]]
RWay == [key |-> 0, access |-> 0, ring |-> <<>>]
Slot == [used |-> FALSE, key |-> 0, lastNs |-> 0, ring |-> [c \in 1..Cells |-> 0], pend |-> {}, head |-> 0,
         queries |-> 0, matched |-> 0, orphans |-> 0]
Client == [ip |-> 0, apexes |-> <<>>, high |-> {}, lastApex |-> 0, lastTs |-> 0, lastDelta |-> 0,
           switches |-> 0, paced |-> 0, highObs |-> 0, total |-> 0]
Entry == [key |-> 0, from |-> 0, lastSeen |-> 0, questions |-> 0, tunnel |-> 0, subs |-> <<>>, distinct |-> 0]
Drift == [base |-> FALSE, at |-> 0, cumul |-> 0, cusum |-> 0, alerts |-> 0]

Init ==
    /\ tab = [soa |-> [w \in 1..Ways |-> Way], iid |-> [w \in 1..Ways |-> Way], rdata |-> [w \in 1..Ways |-> RWay],
              episode |-> [w \in 1..Ways |-> Slot], rollup |-> Client,
              guard |-> [w \in 1..Ways |-> Entry], evictions |-> 0, drift |-> Drift, timing |-> <<>>]
    /\ seen = {} /\ last = [call |-> "none", key |-> 0, fired |-> FALSE, at |-> 0] /\ now = 0 /\ steps = 0

(***************************************************************************)
(* Ways of prints: SOA fingerprints and AAAA interface identifiers.        *)
(***************************************************************************)
Held(w) == {c \in 1..Cells : w.print[c] # 0}
MostRecent(w) == Max({w.ts[c] : c \in Held(w)})
First(S) == Min(S)
Oldest(S, f) == First({x \in S : \A y \in S : f[x] <= f[y]})

(* Mutant of VoieDe: a free way is taken before that of the key is found.  *)
VoieLibre(t, key) ==
    LET mine == {w \in 1..Ways : Held(t[w]) # {} /\ t[w].key = key}
        free == {w \in 1..Ways : Held(t[w]) = {}}
        age == [w \in 1..Ways \ free |-> MostRecent(t[w])]
    IN IF free # {} THEN First(free)
       ELSE IF mine # {} THEN First(mine) ELSE Oldest(1..Ways, age)

(* The way of the key; else the first free one; else the way whose most    *)
(* recent print is oldest.  A way found anew is emptied.                   *)
VoieDe(t, key) ==
    LET mine == {w \in 1..Ways : Held(t[w]) # {} /\ t[w].key = key}
        free == {w \in 1..Ways : Held(t[w]) = {}}
        age == [w \in 1..Ways \ free |-> MostRecent(t[w])]
    IN IF mine # {} THEN First(mine)
       ELSE IF free # {} THEN First(free) ELSE Oldest(1..Ways, age)
Opened(t, key) ==
    LET w == VoieDe(t, key)
    IN IF t[w].key = key /\ Held(t[w]) # {} THEN t[w] ELSE [Way EXCEPT !.key = key]

Expired(w, ts) == {c \in Held(w) : w.ts[c] < ts - Window}
Purged(w, gone) == [w EXCEPT !.print = [c \in 1..Cells |-> IF c \in gone THEN 0 ELSE w.print[c]],
                             !.ts = [c \in 1..Cells |-> IF c \in gone THEN 0 ELSE w.ts[c]]]
Write(w, c, p, ts) == [w EXCEPT !.print[c] = p, !.ts[c] = ts]
Placed(w, p, ts) ==
    LET known == {c \in 1..Cells : w.print[c] = p}  free == (1..Cells) \ Held(w)
    IN IF known # {} THEN Write(w, First(known), p, ts)
       ELSE IF free # {} THEN Write(w, First(free), p, ts)
            ELSE Write(w, Oldest(1..Cells, w.ts), p, ts)

(* A negative response (rcode 0 or 3, no answer, an SOA whose owner is a   *)
(* label-aligned suffix of the question of at least two labels) leaves the *)
(* print of its MNAME, RNAME and serial.                                   *)
ObserveSOA(t, key, p, ts) ==
    LET w == Opened(t, key)
    IN [t EXCEPT ![VoieDe(t, key)] = Placed(Purged(w, Expired(w, ts)), p, ts)]
SoaFires(t, key) == \E w \in 1..Ways : t[w].key = key /\ Cardinality(Held(t[w])) >= Fire

(* The pass stops at the known identifier, so later cells stay unpurged.   *)
insererIdentifiant(t, key, p, ts) ==
    LET w == Opened(t, key)
        known == {c \in Held(w) \ Expired(w, ts) : w.print[c] = p}
        gone == IF known = {} THEN Expired(w, ts) ELSE {c \in Expired(w, ts) : c < First(known)}
    IN [t EXCEPT ![VoieDe(t, key)] = Placed(Purged(w, gone), p, ts)]
AaaaFires(t, key, ts) ==
    \E w \in 1..Ways : /\ t[w].key = key
                       /\ Cardinality({c \in Held(t[w]) : t[w].ts[c] >= ts - Window}) >= Fire

(***************************************************************************)
(* Renewal of answer data: a ring of the last responses of a key.          *)
(***************************************************************************)
(* The print of one record: names are hashed decompressed when they fill   *)
(* the data exactly, raw otherwise.                                        *)
hacherEnregistrementAnswerCanonique(rr) ==
    LET named == \/ rr.type \in {2, 5, 12}
                 \/ rr.type = 15 /\ rr.size >= 3
                 \/ rr.type = 33 /\ rr.size >= 7
    IN <<rr.type, IF named /\ rr.exact THEN rr.text ELSE rr.raw>>

(* The sum of the prints of the distinct records, signatures (46) left     *)
(* out; only the first RRCap distinct prints are remembered.               *)
extraireEmpreinteRRsetAnswer(rrs) ==
    LET kept == SelectSeq(rrs, LAMBDA r : r.type # 46)
        print == [i \in DOMAIN kept |-> hacherEnregistrementAnswerCanonique(kept[i])]
        new(i) == \A j \in 1..(i - 1) : print[j] # print[i]
        memory(i) == {print[j] : j \in {k \in 1..(i - 1) : new(k) /\ Cardinality({print[m] : m \in 1..k}) <= RRCap}}
        added == {i \in DOMAIN print : print[i] \notin memory(i)}
    IN [p \in {print[i] : i \in added} |-> Cardinality({i \in added : print[i] = p})]
Usable(rrs) == \E i \in DOMAIN rrs : rrs[i].type # 46
SumTo(sizes) == LET sum[i \in 0..Len(sizes)] == IF i = 0 THEN 0 ELSE sum[i - 1] + sizes[i] IN sum[Len(sizes)]
RDLengths(rrs) == SumTo([i \in DOMAIN rrs |-> IF rrs[i].type = 46 THEN 0 ELSE rrs[i].size])

Stale(ts, t) == ts > t /\ ts - t > Window
purgerEntreesExpireesRData(ring, ts) == SelectSeq(ring, LAMBDA e : ~Stale(ts, e.ts))

(* At least Fire responses, three distinct prints out of four, mean size.  *)
mesurerFenetreAnneauRData(ring, from) ==
    LET n == Len(ring) - from + 1
        distinct == Cardinality({ring[i].print : i \in from..Len(ring)})
        total == SumTo([i \in 1..n |-> ring[from + i - 1].size])
    IN n >= Fire /\ (distinct * 1000) \div n >= 750 /\ total \div n >= MeanMin

VoieRData(t, key, ts) ==
    LET mine == {w \in 1..Ways : t[w].key = key}
        free == {w \in 1..Ways : t[w].key = 0 \/ t[w].ring = <<>> \/ Stale(ts, t[w].access)}
        access == [w \in 1..Ways |-> t[w].access]
    IN IF mine # {} THEN First(mine)
       ELSE IF free # {} THEN First(free) ELSE Oldest(1..Ways, access)
ObserveRData(t, key, print, size, ts) ==
    LET w == VoieRData(t, key, ts)
        old == IF t[w].key = key THEN purgerEntreesExpireesRData(t[w].ring, ts) ELSE <<>>
        kept == IF Len(old) < Cells THEN old ELSE Tail(old)
    IN [t EXCEPT ![w] = [key |-> key, access |-> ts,
                         ring |-> Append(kept, [print |-> print, size |-> size, ts |-> ts])]]
RDataFires(t, key) ==
    \E w \in 1..Ways :
        /\ t[w].key = key
        /\ \/ mesurerFenetreAnneauRData(t[w].ring, 1)
           \/ Len(t[w].ring) > Fire /\ mesurerFenetreAnneauRData(t[w].ring, Len(t[w].ring) - Fire + 1)

(***************************************************************************)
(* Episodes: 4-way, least recently used; pending transactions in a ring.   *)
(***************************************************************************)
slotFor(t, key) ==
    LET mine == {w \in 1..Ways : t[w].used /\ t[w].key = key}
        free == {w \in 1..Ways : ~t[w].used}
    IN IF mine # {} THEN First(mine)
       ELSE IF free # {} THEN Max(free) ELSE Oldest(1..Ways, [w \in 1..Ways |-> t[w].lastNs])
push(s, id) ==
    LET free == (1..Cells) \ s.pend
        c == IF free # {} THEN First(free) ELSE s.head + 1
    IN [s EXCEPT !.ring[c] = id, !.pend = @ \cup {c}, !.queries = @ + 1,
                 !.head = IF free # {} THEN @ ELSE (@ + 1) % Cells]
take(s, id) ==
    LET hit == {c \in s.pend : s.ring[c] = id}
    IN IF hit = {} THEN [s EXCEPT !.orphans = @ + 1]
       ELSE [s EXCEPT !.pend = @ \ {First(hit)}, !.matched = @ + 1]
ObserveExchange(t, key, id, response, ts) ==
    LET w == slotFor(t, key)
        s == IF t[w].used /\ t[w].key = key THEN t[w] ELSE [Slot EXCEPT !.used = TRUE, !.key = key]
        s1 == [s EXCEPT !.lastNs = ts]
    IN [t EXCEPT ![w] = IF response THEN take(s1, id) ELSE push(s1, id)]

(***************************************************************************)
(* One slot of DNSClientRollup: the clients that hash to it share it.      *)
(***************************************************************************)
ObserveParentApex(c, ip, apex, high, ts) ==
    LET s == IF c.ip = ip THEN c ELSE [Client EXCEPT !.ip = ip]
        delta == ts - s.lastTs
        again == s.total > 0
        list == IF apex \in Range(s.apexes) \/ Len(s.apexes) >= Cells THEN s.apexes ELSE Append(s.apexes, apex)
    IN [s EXCEPT !.switches = IF again /\ high /\ apex # s.lastApex THEN @ + 1 ELSE @,
                 !.paced = IF again /\ high /\ apex = s.lastApex /\ delta = s.lastDelta THEN @ + 1 ELSE @,
                 !.lastDelta = IF again THEN delta ELSE @,
                 !.apexes = list,
                 !.high = IF high /\ apex \in Range(list) THEN @ \cup {apex} ELSE @,
                 !.highObs = IF high THEN @ + 1 ELSE @,
                 !.lastApex = apex, !.lastTs = ts, !.total = @ + 1]

(***************************************************************************)
(* NonLDHBurstGuard: one run of probes, a window per parent.               *)
(***************************************************************************)
trouverOuReserver(t, key, ts) ==
    LET mine == {w \in 1..Ways : t[w].key = key}
        vacant == {w \in 1..Ways : t[w].key = 0}
        old == {w \in 1..Ways : t[w].key # 0 /\ ts - t[w].lastSeen > Window}
        \* an expired entry is never younger than a live one, and a vacant one ends the choice
        pick == IF vacant # {} THEN First(vacant)
                ELSE IF old # {} THEN Max(old)
                     ELSE Oldest(1..Ways, [w \in 1..Ways |-> t[w].lastSeen])
    IN IF mine # {} THEN First(mine) ELSE pick
Reserved(t, key, ts) ==
    LET w == trouverOuReserver(t, key, ts)
    IN IF t[w].key = key THEN t[w] ELSE [Entry EXCEPT !.key = key, !.from = ts]
Evicts(t, key, ts) ==
    LET w == trouverOuReserver(t, key, ts)
    IN t[w].key \notin {0, key} /\ ts - t[w].lastSeen <= Window

Recalled(e) == {e.subs[i] : i \in 1..Len(e.subs)}
GuardObserve(t, key, sub, tunnel, ts0) ==
    LET e0 == Reserved(t, key, ts0)
        ts == IF ts0 < e0.lastSeen THEN e0.lastSeen ELSE ts0
        e == IF ts - e0.from > Window THEN [Entry EXCEPT !.key = key, !.from = ts] ELSE e0
        new == sub \notin Recalled(e)
        kept == IF Len(e.subs) < Cells THEN e.subs ELSE Tail(e.subs)
    IN [t EXCEPT ![trouverOuReserver(t, key, ts0)] =
          [e EXCEPT !.lastSeen = ts, !.questions = @ + 1, !.tunnel = IF tunnel THEN @ + 1 ELSE @,
                    !.subs = IF new THEN Append(kept, sub) ELSE @,
                    !.distinct = IF new THEN @ + 1 ELSE @]]
(* The verdict on a question whose name is of a class and whose type may   *)
(* be a tunnel's.  Below its threshold a tunnel question is judged by its  *)
(* class.                                                                  *)
GuardVerdict(t, key, class, tunnel) ==
    LET e == t[CHOOSE w \in 1..Ways : t[w].key = key] IN
    CASE tunnel /\ e.tunnel >= 2 -> "tunnel"
      [] ~(tunnel /\ e.tunnel >= 2) /\ class = "binary" /\ e.distinct >= Fire -> "binary"
      [] ~(tunnel /\ e.tunnel >= 2) /\ class = "utf8" /\ e.distinct >= Fire + 1 /\ e.distinct * 10 >= e.questions * 9 -> "utf8"
      [] OTHER -> "silent"

(***************************************************************************)
(* CusumDriftGuard.CheckUpdate on one coordinate.                          *)
(***************************************************************************)
Step(d, x) == IF x > d.at THEN x - d.at ELSE d.at - x
NewCusum(d, x) == IF d.cusum + Step(d, x) > Slack THEN d.cusum + Step(d, x) - Slack ELSE 0
CheckUpdate(d, x, finite) ==
    IF ~finite THEN [d EXCEPT !.alerts = @ + 1]
    ELSE IF ~d.base THEN [d EXCEPT !.base = TRUE, !.at = x]
    ELSE IF Step(d, x) > Radius \/ d.cumul + Step(d, x) > Budget \/ NewCusum(d, x) > Threshold
         THEN [d EXCEPT !.alerts = @ + 1]
         ELSE [d EXCEPT !.at = x, !.cumul = @ + Step(d, x), !.cusum = NewCusum(d, x)]

(***************************************************************************)
(* ComputeEpisodeP3TimingFeatures: an A and an AAAA question close enough  *)
(* are one event.  qs[i] = <<interval to the next question, type>>.        *)
(***************************************************************************)
isDualStackPair(a, b) == {a, b} = {1, 28}
Collapse(qs) ==
    LET n == Len(qs)
        pair(i) == i < n /\ isDualStackPair(qs[i][2], qs[i + 1][2]) /\ qs[i][1] <= Window
        at[i \in 1..(n + 2)] == IF i = 1 THEN TRUE       \* the walk stops on i
                                ELSE \/ i >= 2 /\ at[i - 1] /\ ~pair(i - 1)
                                     \/ i >= 3 /\ at[i - 2] /\ pair(i - 2)
        events == {i \in 1..n : at[i]}
        width(i) == IF pair(i) THEN 2 ELSE 1
        gaps == {i + width(i) - 1 : i \in {j \in events : j + width(j) <= n}}
    IN [count |-> Cardinality(events), pairs |-> Cardinality({i \in events : pair(i)}), gaps |-> gaps,
        burst |-> Cardinality({g \in gaps : qs[g][1] <= 1}), idle |-> Cardinality({g \in gaps : qs[g][1] > 1})]

(* What a response says, whatever the order and repetition of its records. *)
Content(rrs) == {hacherEnregistrementAnswerCanonique(rrs[i]) : i \in {j \in DOMAIN rrs : rrs[j].type # 46}}

(***************************************************************************)
(* Calls.  Each is made under its owner's lock or by its only caller.      *)
(***************************************************************************)
Noted(o, call, fired) ==
    /\ seen' = seen \cup {o}
    /\ last' = [call |-> call, key |-> o.key, fired |-> fired, at |-> now]
    /\ steps < MaxSteps /\ steps' = steps + 1 /\ UNCHANGED now
Note(call, key, p, fired) == Noted([call |-> call, key |-> key, print |-> p, ts |-> now, nth |-> 0], call, fired)

SOA(k, p) == \E t \in {ObserveSOA(tab.soa, k, p, now)} :
    tab' = [tab EXCEPT !.soa = t] /\ Note("soa", k, p, SoaFires(t, k))
AAAA(k, p) == \E t \in {insererIdentifiant(tab.iid, k, p, now)} :
    tab' = [tab EXCEPT !.iid = t] /\ Note("iid", k, p, AaaaFires(t, k, now))
RData(k, rrs) ==
    /\ Usable(rrs)
    /\ \E t \in {ObserveRData(tab.rdata, k, extraireEmpreinteRRsetAnswer(rrs), RDLengths(rrs), now)} :
         /\ tab' = [tab EXCEPT !.rdata = t]
         /\ Note("rdata", k, Content(rrs), RDataFires(t, k))
Exchange(k, p, r) ==
    /\ tab' = [tab EXCEPT !.episode = ObserveExchange(tab.episode, k, p, r, now)]
    /\ Note(IF r THEN "reply" ELSE "query", k, p, FALSE)
Rollup(k, p, h) ==
    /\ tab' = [tab EXCEPT !.rollup = ObserveParentApex(tab.rollup, k, p, h, now)]
    /\ Note(IF h THEN "high" ELSE "low", k, p, FALSE)
(* A name of letters, digits and hyphens is left alone.                    *)
Guard(k, p, class, tunnel, ts) ==
    \/ class = "ldh" /\ Note("ldh", k, p, FALSE) /\ UNCHANGED tab
    \/ /\ class # "ldh"
       /\ \E t \in {GuardObserve(tab.guard, k, p, tunnel, ts)} : \E v \in {GuardVerdict(t, k, class, tunnel)} :
            /\ tab' = [tab EXCEPT !.guard = t, !.evictions = IF Evicts(tab.guard, k, ts) THEN @ + 1 ELSE @]
            /\ Noted([call |-> IF tunnel THEN "tunnelled" ELSE "question", key |-> k, print |-> p, ts |-> now, nth |-> steps],
                     v, v # "silent")
Update(x, f) ==
    /\ tab' = [tab EXCEPT !.drift = CheckUpdate(tab.drift, x, f)]
    /\ Note(IF tab'.drift.alerts = tab.drift.alerts THEN "accepted" ELSE "refused", x, x, FALSE)
Timing(qs) ==
    /\ tab' = [tab EXCEPT !.timing = qs]
    /\ Note("timing", 0, 0, FALSE)
Pass == now < MaxClock /\ now' = now + 1 /\ UNCHANGED <<tab, seen, last, steps>>

Responses == \E k \in Keys, p \in Prints : SOA(k, p)
Addresses == \E k \in Keys, p \in Prints : AAAA(k, p)
Renewals == \E k \in Keys, rrs \in RRsets : RData(k, rrs)
Exchanges == \E k \in Keys, p \in Prints, r \in BOOLEAN : Exchange(k, p, r)
Rollups == \E k \in Keys, p \in Prints, h \in BOOLEAN : Rollup(k, p, h)
Guards == \E k \in Keys, p \in Prints, c \in {"ldh", "binary", "utf8"}, q \in BOOLEAN, lag \in 0..1 :
              Guard(k, p, c, q, now - lag)
Updates == \E x \in 1..(Budget + 2), f \in BOOLEAN : Update(x, f)
Timings == \E qs \in Questions : Timing(qs)

Next == Responses \/ Addresses \/ Renewals \/ Exchanges \/ Rollups \/ Guards \/ Updates \/ Timings \/ Pass
Spec == Init /\ [][Next]_vars

(***************************************************************************)
(* Properties.                                                             *)
(***************************************************************************)
Recent(call, key, span) == {o \in seen : o.call = call /\ o.key = key /\ o.ts >= last.at - span}
Distinct(S) == Cardinality({o.print : o \in S})

(* An alert is earned: the key itself showed enough distinct prints within *)
(* the window, whatever other keys shared, filled or were evicted from the *)
(* bucket, and a reordered or repeated answer section is not a new one.    *)
(* Two tunnel questions of the parent itself, or distinct sub-domains of   *)
(* it, make the guard speak (instants given late count as a unit of        *)
(* window), and questions of a window that ended do not.                   *)
Earned ==
    last.fired =>
        CASE last.call \in {"soa", "iid"} -> Distinct(Recent(last.call, last.key, Window)) >= Fire
          [] last.call = "rdata" -> Distinct(Recent("rdata", last.key, Window)) * 4 >= Fire * 3
          [] last.call = "tunnel" -> Cardinality(Recent("tunnelled", last.key, Window + 1)) >= 2
          [] last.call \in {"binary", "utf8"} ->
               Distinct(Recent("question", last.key, Window + 1) \cup Recent("tunnelled", last.key, Window + 1))
                 >= Fire + (IF last.call = "utf8" THEN 1 ELSE 0)

(* And it is not missed: a key that shows enough distinct prints within    *)
(* the window stays silent only when as many other keys as there are ways  *)
(* came through the bucket in the meantime.                                *)
NotMissed ==
    last.call \in {"soa", "iid"} /\ ~last.fired =>
        LET mine == Recent(last.call, last.key, Window)
            others == {o \in seen : o.call = last.call /\ o.key # last.key /\ \E m \in mine : o.ts >= m.ts}
        IN Distinct(mine) >= Fire => Cardinality({o.key : o \in others}) >= Ways

AlertsTrue == Earned /\ NotMissed

(* No key is ever split over two ways; a reply is matched with one pending *)
(* query and a pending query was really asked; a rollup slot only holds    *)
(* apexes of the client it names and its correlation stays a proportion;   *)
(* all accepted centroids stay within the drift budget of each other;      *)
(* merged A and AAAA questions are counted once and leave no inner gap.    *)
OneWayPerKey ==
    /\ \A t \in {tab.soa, tab.iid} : \A v, w \in 1..Ways :
         Held(t[v]) # {} /\ Held(t[w]) # {} /\ t[v].key = t[w].key => v = w
    /\ \A v, w \in 1..Ways : /\ tab.rdata[v].key = tab.rdata[w].key /\ tab.rdata[v].key # 0 => v = w
                             /\ tab.guard[v].key = tab.guard[w].key /\ tab.guard[v].key # 0 => v = w
                             /\ tab.episode[v].used /\ tab.episode[w].used
                                /\ tab.episode[v].key = tab.episode[w].key => v = w
RepliesOnce ==
    \A w \in 1..Ways : LET s == tab.episode[w] IN
        /\ s.matched + Cardinality(s.pend) <= s.queries
        /\ \A c \in s.pend : \E o \in seen : o.call = "query" /\ o.key = s.key /\ o.print = s.ring[c]
ClientAlone ==
    LET c == tab.rollup IN
    /\ \A a \in Range(c.apexes) : \E o \in seen : o.call \in {"high", "low"} /\ o.key = c.ip /\ o.print = a
    /\ c.switches + c.paced <= c.highObs /\ c.high \subseteq Range(c.apexes) /\ Len(c.apexes) <= Cells
DriftBounded ==
    \A o, q \in {x \in seen : x.call = "accepted"} : o.print - q.print <= Budget
TimingExact ==
    LET c == Collapse(tab.timing)  n == Len(tab.timing) IN
    n > 0 => /\ c.count + c.pairs = n
             /\ Cardinality(c.gaps) = c.count - 1 /\ c.burst + c.idle = c.count - 1
             /\ \A g \in c.gaps : g < n

TablesWhole == OneWayPerKey /\ RepliesOnce /\ ClientAlone /\ DriftBounded /\ TimingExact
=============================================================================
