------------------------------ MODULE GrayZone ------------------------------
(***************************************************************************)
(* GrayZoneDecider of internal/engine/grayzone.go: a decision falls in the *)
(* gray zone when neither the ontology nor the codebook settles it, and is *)
(* escalated to the slow path when it gets a token from the bucket of its  *)
(* source and one from the global bucket.                                  *)
(*                                                                         *)
(* Any number of goroutines call DecideWithSource; the buckets are made of *)
(* Go atomics, and an action is one access to one of them.  The source     *)
(* buckets are slots that unrelated sources may share (sipHashMix).        *)
(***************************************************************************)
EXTENDS Integers, FiniteSets

CONSTANTS
  Goroutines,
  Sources,            \* the identities of the callers, never 0
  Slots,              \* the source buckets, 256 in the code
  SlotOf,             \* sipHashMix
  MaxBurst, RefillPerSec, SourceMaxBurst, SourceRefillPerSec,
  Second,             \* the length of a second in ticks
  Word,               \* 2^32, the modulus of the tokens
  T0,                 \* the time at which the decider is made
  TEnd,               \* bound: the last tick
  MaxDecisions,       \* bound: the decisions of one behaviour
  MaxConcurrent       \* bound: the decisions of one in which two overlap

ASSUME GrayZoneAssumption ==
  /\ SlotOf \in [Sources -> Slots] /\ "global" \notin Slots /\ "none" \notin Sources
  /\ MaxBurst \in 1 .. Word - 1 /\ SourceMaxBurst \in 1 .. Word - 1
  /\ RefillPerSec \in Nat \ {0} /\ SourceRefillPerSec \in Nat \ {0}
  /\ Second \in Nat \ {0} /\ Word \in Nat /\ TEnd \in Nat /\ T0 \in 0 .. TEnd
  /\ MaxDecisions \in Nat /\ MaxConcurrent \in 0 .. MaxDecisions

Buckets == Slots \cup {"global"}
Cap(b)  == IF b = "global" THEN MaxBurst ELSE SourceMaxBurst
Rate(b) == IF b = "global" THEN RefillPerSec ELSE SourceRefillPerSec

VARIABLES
  now,        \* time.Now
  bucket,     \* sourceID, tokens and lastRefill of every bucket
  g,          \* the locals of every goroutine
  escalated, throttledGlobal, throttledSource,
  decisions,  \* how many decisions were begun
  raced,      \* history: the escalations granted while another goroutine
              \* held, in a refill, a global count it had already loaded
  overlap,    \* history: were two decisions ever under way together?
  alone       \* history: did nobody else write the bucket of a goroutine
              \* since its call began?

counters == <<escalated, throttledGlobal, throttledSource>>
history == <<raced, overlap, alone>>
grayVars == <<now, bucket, g, counters, decisions, history>>

IdleG == [pc |-> "idle", b |-> "global", src |-> "none", t |-> 0, last |-> 0,
          owner |-> "none", cur |-> 0, verdict |-> "none"]

(* NewGrayZoneDecider: a slot is all zero until a source takes it.         *)
GrayInit ==
  /\ now = T0
  /\ bucket = [b \in Buckets |-> IF b = "global"
                 THEN [src |-> "none", tokens |-> MaxBurst, last |-> T0]
                 ELSE [src |-> "none", tokens |-> 0, last |-> 0]]
  /\ g = [i \in Goroutines |-> IdleG]
  /\ escalated = 0 /\ throttledGlobal = 0 /\ throttledSource = 0
  /\ decisions = 0
  /\ raced = 0 /\ overlap = FALSE /\ alone = [i \in Goroutines |-> TRUE]

Tick ==
  /\ now' \in now + 1 .. TEnd
  /\ UNCHANGED <<bucket, g, counters, decisions, history>>

-----------------------------------------------------------------------------
(* The verdict of DecideWithSource outside of the gray zone: dist is what  *)
(* SearchNearest finds, within DistStrict, within DistFar, or nothing.     *)
Settled(onto, dist) ==
  CASE onto = "deny" -> "drop"
    [] onto # "deny" /\ dist = "strict" -> "drop"
    [] onto = "allow" /\ dist = "none" -> "pass"
    [] OTHER -> "gray"

DecideWithSource(i, s, onto, dist) ==
  /\ g[i].pc = "idle"
  /\ overlap' = (overlap \/ \E j \in Goroutines : g[j].pc # "idle")
  /\ decisions < IF overlap' THEN MaxConcurrent ELSE MaxDecisions
  /\ decisions' = decisions + 1
  /\ g' = [g EXCEPT ![i] =
             IF Settled(onto, dist) # "gray" THEN [IdleG EXCEPT !.verdict = Settled(onto, dist)]
             ELSE [IdleG EXCEPT !.pc = "owner", !.b = SlotOf[s], !.src = s]]
  /\ alone' = [alone EXCEPT ![i] = TRUE]
  /\ UNCHANGED <<now, bucket, counters, raced>>

At(i, pc) == g[i].pc = pc
Mine(i) == bucket[g[i].b]
GoTo(i, pc) == g' = [g EXCEPT ![i].pc = pc]

(* tryAcquireSourceToken up to the first load of sourceID.                 *)
LoadOwner(i) ==
  /\ At(i, "owner")
  /\ g' = [g EXCEPT ![i].t = now, ![i].owner = Mine(i).src,
                    ![i].pc = IF Mine(i).src # g[i].src THEN "inactive" ELSE "last"]
  /\ UNCHANGED <<now, bucket, counters, decisions>>

(* Mutant of LoadInactive: one second without a refill frees the slot.     *)
LoadInactiveSoon(i) ==
  /\ At(i, "inactive")
  /\ GoTo(i, IF g[i].owner = "none" \/ g[i].t - Mine(i).last > Second THEN "claim" ELSE "last")
  /\ UNCHANGED <<now, bucket, counters, decisions>>

(* Is the slot of another source free, or inactive for three seconds?      *)
LoadInactive(i) ==
  /\ At(i, "inactive")
  /\ GoTo(i, IF g[i].owner = "none" \/ g[i].t - Mine(i).last > 3 * Second THEN "claim" ELSE "last")
  /\ UNCHANGED <<now, bucket, counters, decisions>>

Claim(i) ==
  /\ At(i, "claim")
  /\ \/ /\ Mine(i).src = g[i].owner
        /\ bucket' = [bucket EXCEPT ![g[i].b].src = g[i].src]
        /\ GoTo(i, "fill")
     \/ /\ Mine(i).src # g[i].owner
        /\ GoTo(i, "last")
        /\ UNCHANGED bucket
  /\ UNCHANGED <<now, counters, decisions>>

Fill(i) ==
  /\ At(i, "fill")
  /\ bucket' = [bucket EXCEPT ![g[i].b].tokens = SourceMaxBurst]
  /\ GoTo(i, "stamp")
  /\ UNCHANGED <<now, counters, decisions>>

Stamp(i) ==
  /\ At(i, "stamp")
  /\ bucket' = [bucket EXCEPT ![g[i].b].last = g[i].t]
  /\ GoTo(i, "last")
  /\ UNCHANGED <<now, counters, decisions>>

-----------------------------------------------------------------------------
(* The refill and the acquisition, which are the same code for the two     *)
(* kinds of bucket.  The time of the global bucket is read afresh.         *)
Clock(i) == IF g[i].b = "global" THEN now ELSE g[i].t

LoadLast(i) ==
  /\ At(i, "last")
  /\ g' = [g EXCEPT ![i].t = Clock(i), ![i].last = Mine(i).last,
                    ![i].pc = IF Clock(i) - Mine(i).last > Second THEN "win" ELSE "take"]
  /\ UNCHANGED <<now, bucket, counters, decisions>>

(* Only the winner of the exchange refills.                                *)
Win(i) ==
  /\ At(i, "win")
  /\ \/ /\ Mine(i).last = g[i].last
        /\ bucket' = [bucket EXCEPT ![g[i].b].last = g[i].t]
        /\ GoTo(i, "load")
     \/ /\ Mine(i).last # g[i].last
        /\ GoTo(i, "take")
        /\ UNCHANGED bucket
  /\ UNCHANGED <<now, counters, decisions>>

LoadTokens(i) ==
  /\ At(i, "load")
  /\ g' = [g EXCEPT ![i].cur = Mine(i).tokens, ![i].pc = "refill"]
  /\ UNCHANGED <<now, bucket, counters, decisions>>

(* uint32 arithmetic: the product and the sum wrap.                        *)
Added(i) == (((g[i].t - g[i].last) \div Second) * Rate(g[i].b)) % Word

Topped(i) == LET n == (g[i].cur + Added(i)) % Word IN
             IF n < Cap(g[i].b) THEN n ELSE Cap(g[i].b)

Refill(i) ==
  /\ At(i, "refill")
  /\ bucket' = [bucket EXCEPT ![g[i].b].tokens = Topped(i)]
  /\ GoTo(i, "take")
  /\ UNCHANGED <<now, counters, decisions>>

(* The top of the acquisition loop: no token left, or one to take.         *)
TakeToken(i) ==
  /\ At(i, "take")
  /\ \/ /\ Mine(i).tokens = 0
        /\ g' = [g EXCEPT ![i] = [IdleG EXCEPT !.verdict = IF g[i].b = "global" THEN "queueFull"
                                                             ELSE "throttled"]]
        /\ throttledGlobal' = throttledGlobal + IF g[i].b = "global" THEN 1 ELSE 0
        /\ throttledSource' = throttledSource + IF g[i].b = "global" THEN 0 ELSE 1
     \/ /\ Mine(i).tokens # 0
        /\ g' = [g EXCEPT ![i].cur = Mine(i).tokens, ![i].pc = "spend"]
        /\ UNCHANGED <<throttledGlobal, throttledSource>>
  /\ UNCHANGED <<now, bucket, escalated, decisions>>

Spend(i) ==
  /\ At(i, "spend")
  /\ \/ /\ Mine(i).tokens = g[i].cur
        /\ bucket' = [bucket EXCEPT ![g[i].b].tokens = @ - 1]
        /\ g' = [g EXCEPT ![i] = IF g[i].b = "global" THEN [IdleG EXCEPT !.verdict = "escalate"]
                                   ELSE [@ EXCEPT !.b = "global", !.pc = "last"]]
        /\ escalated' = escalated + IF g[i].b = "global" THEN 1 ELSE 0
     \/ /\ Mine(i).tokens # g[i].cur
        /\ GoTo(i, "take")
        /\ UNCHANGED <<bucket, escalated>>
  /\ UNCHANGED <<now, throttledGlobal, throttledSource, decisions>>

-----------------------------------------------------------------------------
Access(i) ==
  \/ LoadOwner(i) \/ LoadInactive(i) \/ Claim(i) \/ Fill(i) \/ Stamp(i)
  \/ LoadLast(i) \/ Win(i) \/ LoadTokens(i) \/ Refill(i) \/ TakeToken(i) \/ Spend(i)

Refilling(j) == At(j, "refill") /\ g[j].b = "global"

(* An access of goroutine i, with what the histories make of it.           *)
Step(i) ==
  /\ Access(i)
  /\ raced' = raced + IF escalated' > escalated /\ \E j \in Goroutines \ {i} : Refilling(j)
                        THEN 1 ELSE 0
  /\ alone' = [j \in Goroutines |->
                 alone[j] /\ (j # i => bucket'[g[j].b] = bucket[g[j].b])]
  /\ UNCHANGED overlap

GrayNext ==
  \/ Tick
  \/ \E i \in Goroutines : Step(i)
  \/ \E i \in Goroutines, s \in Sources, onto \in {"deny", "allow", "ambiguous"},
        dist \in {"strict", "far", "none"} : DecideWithSource(i, s, onto, dist)

GraySpec == GrayInit /\ [][GrayNext]_grayVars

(* The Go scheduler runs every goroutine that can run.                     *)
GrayFairness == \A i \in Goroutines : WF_grayVars(Step(i))
GrayFairSpec == GraySpec /\ GrayFairness

-----------------------------------------------------------------------------
(* No interleaving takes a bucket below zero (uint32 would wrap to four    *)
(* billion tokens) or above its cap.                                       *)
BucketTypeOK ==
  /\ now \in T0 .. TEnd
  /\ \A b \in Buckets : /\ bucket[b].tokens \in 0 .. Cap(b)
                        /\ bucket[b].src \in Sources \cup {"none"} /\ bucket[b].last \in 0 .. TEnd
  /\ \A i \in Goroutines : g[i].b \in Buckets /\ g[i].src \in Sources \cup {"none"}
  /\ decisions \in 0 .. MaxDecisions

(* The promise of a token bucket: over any time the slow path receives at  *)
(* most the burst and what the elapsed seconds added, and, with several    *)
(* goroutines, no more than the escalations granted while a refill held a  *)
(* count it had loaded before (grayzone.go:100 to 102): the load and the   *)
(* store of that refill are the only way past the limit.                   *)
RateLaw == escalated <= MaxBurst + RefillPerSec * ((now - T0) \div Second) + raced

(* Both parts of the promise: the buckets and what they let through.       *)
BucketLaw == BucketTypeOK /\ RateLaw

(* A slot changes hands only when it was free, or was last refilled more   *)
(* than three seconds before: a source that is active keeps its quota,     *)
(* unless another goroutine wrote the slot during the call that claims it  *)
(* (it tests the last refill before it exchanges the owner).               *)
ActiveSlotKept ==
  [][ \A b \in Slots, i \in Goroutines :
        /\ bucket'[b].src # bucket[b].src /\ bucket[b].src # "none"
        /\ At(i, "claim") /\ g'[i].pc = "fill" /\ g[i].b = b /\ alone[i]
        => now - bucket[b].last > 3 * Second ]_grayVars

(* No bucket wraps or exceeds its cap, the slow path receives what the     *)
(* buckets allow and an active source keeps its slot.                      *)
BucketsHold == []BucketLaw /\ ActiveSlotKept

(* Every goroutine leaves the acquisition loop: the exchange it loses was  *)
(* won by another, which takes a token or refills.                         *)
DecisionsComplete == \A i \in Goroutines : g[i].pc # "idle" ~> g[i].pc = "idle"
=============================================================================
