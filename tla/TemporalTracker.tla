--------------------------- MODULE TemporalTracker ---------------------------
(***************************************************************************)
(* The temporal tracker of temporal_tracker.go: a fixed table of slots,    *)
(* one per followed parent domain, each with a ring of the last query      *)
(* times, a Bloom filter of the subdomains and the jitter computed from    *)
(* them.  RecordQuery holds the mutex of the table for its whole body, so  *)
(* it is one action; its time comes from the caller and may go back.       *)
(***************************************************************************)
EXTENDS Integers, Sequences, SequencesExt, FiniteSets, FiniteSetsExt

CONSTANTS
  ParentDomains, Home, Stride, \* a domain, the first slot it probes, its stride
  MaxTrackedDomains,    \* the slots of the table
  Probes,               \* 8: the slots that a domain may use
  Window,               \* HistoryWindowSize
  Inactivity,           \* MaxInactivitySec
  Subs, Bits,           \* a subdomain, the bits it sets in the filter
  Times, MaxQueries     \* bounds: the times of the callers, their calls

NoSub == "none"         \* an empty subdomain
Free == "free"          \* DomainLen = 0

(* The table and the ring have places, probes fall into the table, clocks  *)
(* and limits are natural numbers, and a subdomain sets a bit at least.    *)
ASSUME TrackerAssumption ==
  /\ MaxTrackedDomains \in Nat \ {0} /\ Probes \in Nat \ {0} /\ Window \in Nat \ {0} /\ Inactivity \in Nat
  /\ Free \notin ParentDomains /\ NoSub \notin Subs /\ Times \subseteq Nat
  /\ \A d \in ParentDomains : Home[d] \in Nat /\ Stride[d] \in Nat
  /\ \A s \in Subs : Bits[s] # {}

VARIABLES
  slot,        \* the table
  evictions,
  answer,      \* what the last call returned, and to whom
  queries,       \* the number of calls
  hist         \* history: the queries of every domain since it got its slot

trackerVars == <<slot, evictions, answer, queries, hist>>

Empty(d) == [domain |-> d, times |-> [i \in 0 .. Window - 1 |-> 0], head |-> 0, count |-> 0,
             last |-> 0, bloom |-> {}, unique |-> 0]

TrackerInit ==
  /\ slot = [i \in 0 .. MaxTrackedDomains - 1 |-> Empty(Free)]
  /\ evictions = 0
  /\ answer = [domain |-> Free, jitter |-> 100, unique |-> 0, count |-> 0]
  /\ queries = 0
  /\ hist = [d \in ParentDomains |-> <<>>]

-----------------------------------------------------------------------------
ProbeOf(d, i) == (Home[d] + (i - 1) * Stride[d]) % MaxTrackedDomains
Path(d) == {ProbeOf(d, i) : i \in 1 .. Probes}

Stale(s, now) == now >= s.last /\ now - s.last >= Inactivity
Recyclable(i, now) == slot[i].domain = Free \/ Stale(slot[i], now)

(* The first probe that holds the domain; if none, the first that can be   *)
(* recycled; 0 if there is none either.                                    *)
Chosen(d, now) ==
  LET held == {i \in 1 .. Probes : slot[ProbeOf(d, i)].domain = d}
      free == {i \in 1 .. Probes : Recyclable(ProbeOf(d, i), now)}
  IN Min(IF held # {} THEN held ELSE IF free # {} THEN free ELSE {0})

(* The least recently seen probe, the first of them.                       *)
Victim(d) ==
  Min({i \in 1 .. Probes : \A j \in 1 .. Probes : slot[ProbeOf(d, i)].last <= slot[ProbeOf(d, j)].last})

(* Mutant of resetWindow: the count survives.                              *)
resetWindowKeeps(s) == [s EXCEPT !.head = 0, !.last = 0, !.bloom = {}, !.unique = 0]

resetWindow(s) == [s EXCEPT !.head = 0, !.count = 0, !.last = 0, !.bloom = {}, !.unique = 0]

Timed(s, now) ==
  [s EXCEPT !.times = [s.times EXCEPT ![s.head] = now], !.head = (s.head + 1) % Window,
            !.count = IF s.count < Window THEN s.count + 1 ELSE s.count, !.last = now]

(* A subdomain with a bit not yet set is a new one.                        *)
Filtered(s, sub) ==
  IF sub = NoSub \/ Bits[sub] \subseteq s.bloom THEN s
  ELSE [s EXCEPT !.bloom = @ \cup Bits[sub], !.unique = @ + 1]

(* The ring from its oldest time to its newest.                            *)
Chronological(s) == [i \in 1 .. s.count |-> s.times[(s.head - s.count + i - 1 + Window) % Window]]

(* The coefficient of variation of the intervals in percent, in integers:  *)
(* for n intervals of sum S and sum of squares Q it is sqrt(nQ-SS)/S.      *)
Variation(ts) ==
  LET n == Len(ts) - 1
      delta == [i \in 1 .. n |-> IF ts[i + 1] >= ts[i] THEN ts[i + 1] - ts[i] ELSE 0]
      S == FoldFunction(LAMBDA x, y : x + y, 0, delta)
      Q == FoldFunction(LAMBDA x, y : x * x + y, 0, delta)
  IN IF 2 * S < n THEN 100
     ELSE Max({k \in 0 .. 100 : k * k * S * S <= 10000 * (n * Q - S * S)})

calculateJitter(s) == IF s.count < 4 THEN 100 ELSE Variation(Chronological(s))

(* The slot as it is when the time of a query is entered: a new one for a  *)
(* new domain, without a window after a silence or when the clock went     *)
(* back.                                                                   *)
Live(old, d, now) ==
  LET got == IF old.domain = d THEN old ELSE Empty(d)
  IN IF got.count > 0 /\ (now < got.last \/ now - got.last >= Inactivity) THEN resetWindow(got) ELSE got

(* The whole of RecordQuery, under the mutex.                              *)
RecordQuery(d, sub, now) ==
  \E c \in {Chosen(d, now)} :
  \E i \in {ProbeOf(d, IF c # 0 THEN c ELSE Victim(d))} :
  \E new \in {Filtered(Timed(Live(slot[i], d, now), now), sub)} :
    /\ evictions' = evictions + IF c = 0 THEN 1 ELSE 0
    /\ slot' = [slot EXCEPT ![i] = new]
    /\ answer' = [domain |-> d, jitter |-> calculateJitter(new), unique |-> new.unique, count |-> new.count]
    /\ hist' = [x \in ParentDomains |->
         IF x = d THEN Append(IF slot[i].domain = d THEN hist[d] ELSE <<>>, [time |-> now, sub |-> sub])
         ELSE IF x = slot[i].domain THEN <<>> ELSE hist[x]]

(* A name without a parent domain, or with one too long, is not followed.  *)
NotFollowed ==
  /\ answer' = [domain |-> Free, jitter |-> 100, unique |-> 0, count |-> 0]
  /\ UNCHANGED <<slot, evictions, queries, hist>>

(* A call for one of the domains D and subdomains S, at one of the times T. *)
Queries(D, S, T) ==
  \E d \in D, sub \in S, now \in T :
    queries < MaxQueries /\ queries' = queries + 1 /\ RecordQuery(d, sub, now)

TrackerNext == NotFollowed \/ Queries(ParentDomains, Subs \cup {NoSub}, Times)

TrackerSpec == TrackerInit /\ [][TrackerNext]_trackerVars

-----------------------------------------------------------------------------
RingsTyped == \A i \in DOMAIN slot : slot[i].head \in 0 .. Window - 1 /\ slot[i].count \in 0 .. Window

(* The queries of a domain since the clock last went back or an hour went  *)
(* by without one: the run that the answer must be about.                  *)
Breaks(h) == {i \in 2 .. Len(h) : h[i].time < h[i - 1].time \/ h[i].time - h[i - 1].time >= Inactivity}
RunStart(h) == Max(Breaks(h) \cup {1})
Run(h) == SubSeq(h, RunStart(h), Len(h))

(* The times of the last Window queries of a run.                          *)
LastTimes(r) ==
  SubSeq([i \in 1 .. Len(r) |-> r[i].time], IF Len(r) > Window THEN Len(r) - Window + 1 ELSE 1, Len(r))

(* The jitter and the count answered are those of the last Window queries  *)
(* of the current run: intervals from before a silence, a clock step or    *)
(* the previous owner of the slot never bias them.                         *)
AnswerFromRun ==
  answer.domain # Free =>
    LET w == LastTimes(Run(hist[answer.domain]))
    IN answer.count = Len(w) /\ answer.jitter = IF Len(w) < 4 THEN 100 ELSE Variation(w)

(* The cardinality never exceeds the distinct subdomains of the run, and   *)
(* is at least one when there is a subdomain.                              *)
NeverOvercounts ==
  answer.domain # Free =>
    LET r == Run(hist[answer.domain])
        subs == {r[i].sub : i \in DOMAIN r} \ {NoSub}
    IN answer.unique <= Cardinality(subs) /\ (subs # {} => answer.unique > 0)

(* A domain has at most one slot, on its own probe path: its history is    *)
(* never split between two slots.                                          *)
OneSlot ==
  \A i \in DOMAIN slot : slot[i].domain # Free =>
    /\ i \in Path(slot[i].domain)
    /\ \A j \in DOMAIN slot : slot[j].domain = slot[i].domain => i = j

(* An active history is lost only by a counted eviction, and it is then    *)
(* the least recently seen of the slots that were probed.                  *)
LossCounted ==
  [][\A i \in DOMAIN slot :
       LET d == slot'[i].domain IN
       slot[i].domain \notin {Free, d} =>
         \/ Stale(slot[i], slot'[i].last)
         \/ evictions' = evictions + 1 /\ \A j \in Path(d) : slot[i].last <= slot[j].last]_trackerVars

(* What the tracker answers is about the current run of the domain alone,  *)
(* and a history in use is neither split nor lost uncounted.               *)
HistoryTrue == [](RingsTyped /\ AnswerFromRun /\ NeverOvercounts /\ OneSlot) /\ LossCounted
=============================================================================
