------------------------- MODULE ProbeContextProofs -------------------------
(***************************************************************************)
(* Theorems about ProbeContext, for every ring size, table, window, cap,   *)
(* batch and set of observations.                                          *)
(***************************************************************************)
EXTENDS ProbeContext, SequenceTheorems, TLAPS

-----------------------------------------------------------------------------
(* The types of the state.                                                 *)

Rings == [Head : Nat, Tail : Nat, Drops : Nat, Slots : [0 .. Size - 1 -> Observations]]
Producers == [pc : {"idle", "slot", "head"}, c : Channels, ev : Observations, head : Nat]
Consumers ==
  [pc : {"idle", "scan", "slot", "tail", "rules", "correlate", "copy", "taken"},
   max : Nat, k : 1 .. 4, before : Nat, tail : Nat, ev : Observations,
   batch : Seq(Observations), i : Nat, due : SUBSET Channels]
TrackerEntries ==
  [Pid : Nat, Last_ts : Nat, Event_count : Nat, subsystems : SUBSET (Subsystems \cup {"none"}), score : Nat]

TypeInv ==
  /\ running \in BOOLEAN
  /\ chan \in [Channels -> Rings]
  /\ prod \in Producers
  /\ cons \in Consumers
  /\ cons.pc = "correlate" => cons.i >= 1
  /\ table \in [0 .. Entries - 1 -> TrackerEntries]
  /\ injected \in 0 .. MaxInject
  /\ delivered \in Seq(Observations)

LEMMA FourChannels == Len(ChannelOrder) = 4 /\ \A k \in 1 .. 4 : ChannelOrder[k] \in Channels
  BY DEF ChannelOrder, Channels

LEMMA NoEventTyped == NoEvent \in Observations
  BY DEF NoEvent, Observations, Actions

LEMMA ModTyped == ASSUME NEW a \in Nat PROVE a % Size \in 0 .. Size - 1 /\ a % Entries \in 0 .. Entries - 1
  BY ContextAssumption

(* Numbers less than Size apart have different slots.                      *)
LEMMA ModDistinct ==
  ASSUME NEW a \in Nat, NEW b \in Nat, a < b, b < a + Size
  PROVE  a % Size # b % Size
<1>1. Size \in Nat \ {0}
  BY ContextAssumption
<1>2. PICK q \in Int : a = Size * q + (a % Size)
  <2>1. a = Size * (a \div Size) + (a % Size) /\ a \div Size \in Int
    BY <1>1
  <2>2. QED
    BY <2>1
<1>3. PICK r \in Int : b = Size * r + (b % Size)
  <2>1. b = Size * (b \div Size) + (b % Size) /\ b \div Size \in Int
    BY <1>1
  <2>2. QED
    BY <2>1
<1>4. a % Size \in 0 .. Size - 1 /\ b % Size \in 0 .. Size - 1
  BY <1>1
<1>5. \A x \in Int : (x >= 1 => Size * x >= Size) /\ (x <= 0 => Size * x <= 0)
  BY <1>1
<1>6. Size * r - Size * q = Size * (r - q)
  BY <1>1
<1>7. r - q >= 1 \/ r - q <= 0
  OBVIOUS
<1>8. QED
  BY <1>1, <1>2, <1>3, <1>4, <1>5, <1>6, <1>7

LEMMA RuledTyped == ASSUME NEW e \in Observations PROVE Ruled(e) \in Observations
<1>1. Raised(e) \in SUBSET FlagBits
  BY DEF Raised, RaisedGPU, Veto, FlagBits
<1>2. QED
  BY <1>1 DEF Ruled, Observations, FlagBits

LEMMA AdvanceTyped ==
  ASSUME NEW st \in Consumers
  PROVE  /\ Advance(st) \in Consumers
         /\ Advance(st).pc \in {"scan", "rules"}
         /\ Advance(st).batch = st.batch
         /\ Advance(st).max = st.max
         /\ Advance(st).due = st.due
<1>1. Len(st.batch) \in Nat
  BY DEF Consumers
<1>2. CASE Len(st.batch) >= st.max
  BY <1>1, <1>2 DEF Advance, Consumers
<1>3. CASE ~(Len(st.batch) >= st.max) /\ st.k < 4
  <2>1. Advance(st) = [st EXCEPT !.pc = "scan", !.k = @ + 1]
    BY <1>3, FourChannels DEF Advance
  <2>2. st.k + 1 \in 1 .. 4
    BY <1>3 DEF Consumers
  <2>3. QED
    BY <2>1, <2>2 DEF Consumers
<1>4. CASE ~(Len(st.batch) >= st.max) /\ ~(st.k < 4) /\ Len(st.batch) = st.before
  BY <1>1, <1>4, FourChannels DEF Advance, Consumers
<1>5. CASE ~(Len(st.batch) >= st.max) /\ ~(st.k < 4) /\ Len(st.batch) # st.before
  <2>1. Advance(st) = [st EXCEPT !.pc = "scan", !.k = 1, !.before = Len(st.batch)]
    BY <1>5, FourChannels DEF Advance
  <2>2. 1 \in 1 .. 4
    OBVIOUS
  <2>3. QED
    BY <1>1, <2>1, <2>2 DEF Consumers
<1>6. QED
  BY <1>2, <1>3, <1>4, <1>5

LEMMA TrackedTyped ==
  ASSUME NEW n \in TrackerEntries, NEW e \in Observations
  PROVE  Tracked(n, e) \in TrackerEntries
<1> DEFINE base == IF Fresh(n, e) THEN [NoEntry EXCEPT !.Pid = e.Pid, !.Last_ts = e.Ts] ELSE n
           new  == Hostile(e) /\ e.subsystem \notin base.subsystems
<1>1. base \in TrackerEntries
  BY DEF NoEntry, TrackerEntries, Observations
<1>2. Tracked(n, e) = [base EXCEPT !.Event_count = IF base.Event_count < CountMax THEN base.Event_count + 1 ELSE base.Event_count,
                                   !.subsystems = IF new THEN base.subsystems \cup {e.subsystem} ELSE base.subsystems,
                                   !.score = IF new THEN base.score + 50 ELSE base.score]
  BY <1>1 DEF Tracked, TrackerEntries
<1> DEFINE count == IF base.Event_count < CountMax THEN base.Event_count + 1 ELSE base.Event_count
           subs  == IF new THEN base.subsystems \cup {e.subsystem} ELSE base.subsystems
           score == IF new THEN base.score + 50 ELSE base.score
<1> HIDE DEF base, new
<1>3. count \in Nat /\ score \in Nat
  BY <1>1, ContextAssumption DEF TrackerEntries
<1>4. subs \in SUBSET (Subsystems \cup {"none"})
  BY <1>1 DEF TrackerEntries, Observations
<1>5. Tracked(n, e) = [base EXCEPT !.Event_count = count, !.subsystems = subs, !.score = score]
  BY <1>2
<1> HIDE DEF count, subs, score
<1>6. QED
  BY <1>1, <1>3, <1>4, <1>5 DEF TrackerEntries

LEMMA CorrelatedTyped ==
  ASSUME NEW n, NEW e \in Observations
  PROVE  Correlated(n, e) \in Observations
<1>1. CASE Correlated(n, e) = [e EXCEPT !.Flags = (e.Flags \cup {"anomaly", "correlated"}) \ {"ok"}]
  BY <1>1 DEF Observations, FlagBits, Veto
<1>2. CASE Correlated(n, e) = [e EXCEPT !.Flags = e.Flags \ {"correlated"}]
  BY <1>2 DEF Observations
<1>3. QED
  BY <1>1, <1>2 DEF Correlated, Observations

-----------------------------------------------------------------------------
LEMMA InitTyped == Init => TypeInv
<1> SUFFICES ASSUME Init PROVE TypeInv
  OBVIOUS
<1>1. chan \in [Channels -> Rings]
  BY NoEventTyped DEF Init, Rings
<1>2. prod \in Producers
  BY NoEventTyped DEF Init, Producers, Channels
<1>3. cons \in Consumers
  BY NoEventTyped DEF Init, IdleCons, Consumers
<1>4. table \in [0 .. Entries - 1 -> TrackerEntries]
  BY DEF Init, NoEntry, TrackerEntries
<1>5. injected \in 0 .. MaxInject
  BY ContextAssumption DEF Init
<1>6. delivered \in Seq(Observations) /\ running \in BOOLEAN
  BY EmptySeq DEF Init
<1>7. cons.pc # "correlate"
  BY DEF Init, IdleCons
<1>8. QED
  BY <1>1, <1>2, <1>3, <1>4, <1>5, <1>6, <1>7 DEF TypeInv

(* One ring replaced.                                                      *)
LEMMA RingReplaced ==
  ASSUME NEW C \in [Channels -> Rings], NEW c \in Channels, NEW r \in Rings
  PROVE  /\ [C EXCEPT ![c] = r] \in [Channels -> Rings]
         /\ [C EXCEPT ![c] = r][c] = r
         /\ \A d \in Channels : d # c => [C EXCEPT ![c] = r][d] = C[d]
  OBVIOUS

(* One field of a ring replaced.                                           *)
LEMMA RingFields ==
  ASSUME NEW r \in Rings, NEW n \in Nat
  PROVE  /\ [r EXCEPT !.Head = n] \in Rings
         /\ [r EXCEPT !.Tail = n] \in Rings
         /\ [r EXCEPT !.Drops = n] \in Rings
         /\ [r EXCEPT !.Head = n].Head = n /\ [r EXCEPT !.Head = n].Tail = r.Tail
         /\ [r EXCEPT !.Head = n].Drops = r.Drops /\ [r EXCEPT !.Head = n].Slots = r.Slots
         /\ [r EXCEPT !.Tail = n].Tail = n /\ [r EXCEPT !.Tail = n].Head = r.Head
         /\ [r EXCEPT !.Tail = n].Drops = r.Drops /\ [r EXCEPT !.Tail = n].Slots = r.Slots
         /\ [r EXCEPT !.Drops = n].Drops = n /\ [r EXCEPT !.Drops = n].Head = r.Head
         /\ [r EXCEPT !.Drops = n].Tail = r.Tail /\ [r EXCEPT !.Drops = n].Slots = r.Slots
  BY DEF Rings

LEMMA RingSlot ==
  ASSUME NEW r \in Rings, NEW s \in 0 .. Size - 1, NEW e \in Observations
  PROVE  /\ [r EXCEPT !.Slots[s] = e] \in Rings
         /\ [r EXCEPT !.Slots[s] = e].Head = r.Head /\ [r EXCEPT !.Slots[s] = e].Tail = r.Tail
         /\ [r EXCEPT !.Slots[s] = e].Drops = r.Drops
         /\ [r EXCEPT !.Slots[s] = e].Slots[s] = e
         /\ \A t \in 0 .. Size - 1 : t # s => [r EXCEPT !.Slots[s] = e].Slots[t] = r.Slots[t]
  BY DEF Rings


-----------------------------------------------------------------------------
(* What each action does to the rings and to the locals of PollBatch.      *)
OtherRings(c) == \A d \in Channels : d # c => chan'[d] = chan[d]

LEMMA CurTyped ==
  ASSUME TypeInv
  PROVE  /\ Cur \in Channels /\ chan[Cur] \in Rings /\ cons.k \in 1 .. 4
         /\ Len(cons.batch) \in Nat /\ cons.tail \in Nat /\ cons.max \in Nat /\ cons.before \in Nat
         /\ \A j \in 1 .. Len(cons.batch) : cons.batch[j] \in Observations
<1>1. cons \in Consumers /\ chan \in [Channels -> Rings]
  BY DEF TypeInv
<1>2. cons.k \in 1 .. 4 /\ cons.tail \in Nat /\ cons.max \in Nat /\ cons.batch \in Seq(Observations) /\ cons.before \in Nat
  BY <1>1 DEF Consumers
<1>3. QED
  BY <1>1, <1>2, FourChannels DEF Cur

LEMMA RefuseEffect ==
  ASSUME TypeInv, NEW c \in Channels, chan' = [chan EXCEPT ![c].Drops = @ + 1]
  PROVE  /\ chan' \in [Channels -> Rings] /\ OtherRings(c)
         /\ chan'[c].Drops = chan[c].Drops + 1 /\ chan'[c].Head = chan[c].Head
         /\ chan'[c].Tail = chan[c].Tail /\ chan'[c].Slots = chan[c].Slots
<1>1. chan \in [Channels -> Rings] /\ chan[c] \in Rings
  BY DEF TypeInv
<1>2. chan[c].Drops + 1 \in Nat
  BY <1>1 DEF Rings
<1>3. chan' = [chan EXCEPT ![c] = [chan[c] EXCEPT !.Drops = chan[c].Drops + 1]]
  BY <1>1 DEF Rings
<1>4. PICK r : r = [chan[c] EXCEPT !.Drops = chan[c].Drops + 1]
  OBVIOUS
<1>5. r \in Rings /\ r.Drops = chan[c].Drops + 1 /\ r.Head = chan[c].Head /\ r.Tail = chan[c].Tail /\ r.Slots = chan[c].Slots
  BY <1>1, <1>2, RingFields, <1>4
<1>6. chan' = [chan EXCEPT ![c] = r]
  BY <1>3, <1>4
<1>7. QED
  BY <1>1, <1>5, <1>6, RingReplaced DEF OtherRings

LEMMA HeadEffect ==
  ASSUME TypeInv, NEW c \in Channels, NEW n \in Nat, chan' = [chan EXCEPT ![c].Head = n]
  PROVE  /\ chan' \in [Channels -> Rings] /\ OtherRings(c)
         /\ chan'[c].Drops = chan[c].Drops /\ chan'[c].Head = n
         /\ chan'[c].Tail = chan[c].Tail /\ chan'[c].Slots = chan[c].Slots
<1>1. chan \in [Channels -> Rings] /\ chan[c] \in Rings
  BY DEF TypeInv
<1>2. chan' = [chan EXCEPT ![c] = [chan[c] EXCEPT !.Head = n]]
  BY <1>1 DEF Rings
<1>3. PICK r : r = [chan[c] EXCEPT !.Head = n]
  OBVIOUS
<1>4. r \in Rings /\ r.Head = n /\ r.Tail = chan[c].Tail /\ r.Drops = chan[c].Drops /\ r.Slots = chan[c].Slots
  BY <1>1, RingFields, <1>3
<1>5. chan' = [chan EXCEPT ![c] = r]
  BY <1>2, <1>3
<1>6. QED
  BY <1>1, <1>4, <1>5, RingReplaced DEF OtherRings

LEMMA TailEffect ==
  ASSUME TypeInv, NEW c \in Channels, NEW n \in Nat, chan' = [chan EXCEPT ![c].Tail = n]
  PROVE  /\ chan' \in [Channels -> Rings] /\ OtherRings(c)
         /\ chan'[c].Drops = chan[c].Drops /\ chan'[c].Tail = n
         /\ chan'[c].Head = chan[c].Head /\ chan'[c].Slots = chan[c].Slots
<1>1. chan \in [Channels -> Rings] /\ chan[c] \in Rings
  BY DEF TypeInv
<1>2. chan' = [chan EXCEPT ![c] = [chan[c] EXCEPT !.Tail = n]]
  BY <1>1 DEF Rings
<1>3. PICK r : r = [chan[c] EXCEPT !.Tail = n]
  OBVIOUS
<1>4. r \in Rings /\ r.Tail = n /\ r.Head = chan[c].Head /\ r.Drops = chan[c].Drops /\ r.Slots = chan[c].Slots
  BY <1>1, RingFields, <1>3
<1>5. chan' = [chan EXCEPT ![c] = r]
  BY <1>2, <1>3
<1>6. QED
  BY <1>1, <1>4, <1>5, RingReplaced DEF OtherRings

LEMMA SlotEffect ==
  ASSUME TypeInv, NEW c \in Channels, NEW s \in 0 .. Size - 1, NEW e \in Observations,
         chan' = [chan EXCEPT ![c].Slots[s] = e]
  PROVE  /\ chan' \in [Channels -> Rings] /\ OtherRings(c)
         /\ chan'[c].Drops = chan[c].Drops /\ chan'[c].Tail = chan[c].Tail
         /\ chan'[c].Head = chan[c].Head /\ chan'[c].Slots[s] = e
         /\ \A t \in 0 .. Size - 1 : t # s => chan'[c].Slots[t] = chan[c].Slots[t]
<1>1. chan \in [Channels -> Rings] /\ chan[c] \in Rings
  BY DEF TypeInv
<1>2. chan' = [chan EXCEPT ![c] = [chan[c] EXCEPT !.Slots[s] = e]]
  BY <1>1 DEF Rings
<1>3. QED
  BY <1>1, <1>2, RingReplaced, RingSlot DEF OtherRings

LEMMA PollEffect ==
  ASSUME NEW n \in 0 .. MaxBatch, Poll(n)
  PROVE  /\ cons' \in Consumers /\ cons'.pc = (IF n > 0 THEN "scan" ELSE "rules") /\ cons'.max = n
         /\ cons'.k = 1 /\ cons'.before = 0 /\ cons'.tail = 0 /\ cons'.batch = << >>
         /\ cons'.due = { c \in Channels : chan[c].Tail < chan[c].Head }
<1> DEFINE p == IF n > 0 THEN "scan" ELSE "rules"
           due == { c \in Channels : chan[c].Tail < chan[c].Head }
<1>1. p \in {"scan", "rules"} /\ due \in SUBSET Channels /\ n \in Nat
  BY ContextAssumption
<1>2. IdleCons \in Consumers
  BY NoEventTyped, EmptySeq DEF IdleCons, Consumers
<1>3. cons' = [IdleCons EXCEPT !.pc = p, !.max = n, !.due = due]
  BY DEF Poll
<1> HIDE DEF p, due
<1>4. /\ cons' \in Consumers /\ cons'.pc = p /\ cons'.max = n /\ cons'.due = due
  BY <1>1, <1>2, <1>3 DEF Consumers
<1>5. cons'.k = 1 /\ cons'.before = 0 /\ cons'.tail = 0 /\ cons'.batch = << >>
  BY <1>3 DEF IdleCons
<1>6. QED
  BY <1>4, <1>5 DEF p, due

LEMMA BatchLoadEffect ==
  ASSUME TypeInv, NEW k \in 1 .. Len(ChannelOrder), NEW n \in 1 .. MaxBatch, BatchLoad(k, n)
  PROVE  LET c == ChannelOrder[k] IN
         /\ c \in Channels
         /\ cons' \in Consumers /\ cons'.pc = "copy" /\ cons'.k = k /\ cons'.tail = chan[c].Tail
         /\ cons'.batch = << >> /\ cons'.max >= 1 /\ chan[c].Tail + cons'.max <= chan[c].Head
<1> DEFINE c == ChannelOrder[k]  r == chan[c]
           count == IF r.Head - r.Tail > n THEN n ELSE r.Head - r.Tail
<1>1. k \in 1 .. 4 /\ c \in Channels
  BY FourChannels
<1>2. r \in Rings
  BY <1>1 DEF TypeInv
<1>3. r.Head \in Nat /\ r.Tail \in Nat /\ n \in Nat /\ n >= 1
  BY <1>2, ContextAssumption DEF Rings
<1>4. count > 0 /\ cons' = [IdleCons EXCEPT !.pc = "copy", !.max = count, !.k = k, !.tail = r.Tail]
  BY DEF BatchLoad
<1>5. count \in Nat /\ count >= 1 /\ r.Tail + count <= r.Head
  BY <1>3, <1>4
<1> HIDE DEF count, r
<1>6. IdleCons \in Consumers
  BY NoEventTyped, EmptySeq DEF IdleCons, Consumers
<1>7. /\ cons' \in Consumers /\ cons'.pc = "copy" /\ cons'.k = k /\ cons'.tail = r.Tail
      /\ cons'.max = count /\ cons'.batch = IdleCons.batch
  BY <1>1, <1>3, <1>4, <1>5, <1>6 DEF Consumers
<1>8. cons'.batch = << >>
  BY <1>7 DEF IdleCons
<1>9. QED
  BY <1>1, <1>5, <1>7, <1>8 DEF r

(* The position after a channel was tried, case by case.                   *)
LEMMA AdvanceCases ==
  ASSUME NEW st \in Consumers
  PROVE  \/ /\ Len(st.batch) >= st.max /\ Advance(st).pc = "rules"
         \/ /\ Len(st.batch) < st.max /\ st.k < 4 /\ Advance(st).pc = "scan"
            /\ Advance(st).k = st.k + 1 /\ Advance(st).before = st.before
         \/ /\ Len(st.batch) < st.max /\ st.k = 4 /\ Advance(st).pc = "rules" /\ Len(st.batch) = st.before
         \/ /\ Len(st.batch) < st.max /\ st.k = 4 /\ Advance(st).pc = "scan"
            /\ Advance(st).k = 1 /\ Advance(st).before = Len(st.batch)
<1>1. Len(st.batch) \in Nat /\ st.max \in Nat /\ st.k \in 1 .. 4
  BY DEF Consumers
<1>2. CASE Len(st.batch) >= st.max
  BY <1>1, <1>2 DEF Advance, Consumers
<1>3. CASE ~(Len(st.batch) >= st.max) /\ st.k < 4
  <2>1. Advance(st) = [st EXCEPT !.pc = "scan", !.k = @ + 1]
    BY <1>3, FourChannels DEF Advance
  <2>2. QED
    BY <1>1, <1>3, <2>1 DEF Consumers
<1>4. CASE ~(Len(st.batch) >= st.max) /\ ~(st.k < 4) /\ Len(st.batch) = st.before
  BY <1>1, <1>4, FourChannels DEF Advance, Consumers
<1>5. CASE ~(Len(st.batch) >= st.max) /\ ~(st.k < 4) /\ Len(st.batch) # st.before
  <2>1. Advance(st) = [st EXCEPT !.pc = "scan", !.k = 1, !.before = Len(st.batch)]
    BY <1>5, FourChannels DEF Advance
  <2>2. QED
    BY <1>1, <1>5, <2>1 DEF Consumers
<1>6. QED
  BY <1>2, <1>3, <1>4, <1>5

LEMMA FoundEffect ==
  ASSUME TypeInv, cons' = [cons EXCEPT !.pc = "slot", !.tail = chan[Cur].Tail]
  PROVE  /\ cons' \in Consumers /\ cons'.pc = "slot" /\ cons'.tail = chan[Cur].Tail
         /\ cons'.k = cons.k /\ cons'.max = cons.max /\ cons'.before = cons.before
         /\ cons'.batch = cons.batch /\ cons'.due = cons.due
<1>1. chan[Cur].Tail \in Nat /\ cons \in Consumers
  BY CurTyped DEF Rings, TypeInv
<1>2. QED
  BY <1>1 DEF Consumers

LEMMA ReadSlotEffect ==
  ASSUME TypeInv, ReadSlot
  PROVE  /\ cons' \in Consumers /\ cons'.pc = "tail" /\ cons'.tail = cons.tail
         /\ cons'.ev = chan[Cur].Slots[cons.tail % Size]
         /\ cons'.k = cons.k /\ cons'.max = cons.max /\ cons'.before = cons.before
         /\ cons'.batch = cons.batch /\ cons'.due = cons.due
<1>1. chan[Cur].Slots[cons.tail % Size] \in Observations /\ cons \in Consumers
  BY CurTyped, ModTyped DEF Rings, TypeInv
<1>2. QED
  BY <1>1 DEF Consumers, ReadSlot

(* The locals after ReadTail, before the position moves on.                *)
LEMMA TakenTyped ==
  ASSUME TypeInv
  PROVE  LET st == [cons EXCEPT !.batch = Append(cons.batch, cons.ev)] IN
         /\ st \in Consumers /\ st.batch = Append(cons.batch, cons.ev)
         /\ st.k = cons.k /\ st.max = cons.max /\ st.before = cons.before /\ st.due = cons.due
<1>1. cons \in Consumers /\ Append(cons.batch, cons.ev) \in Seq(Observations)
  BY DEF TypeInv, Consumers
<1>2. QED
  BY <1>1 DEF Consumers

LEMMA ReadTailEffect ==
  ASSUME TypeInv, ReadTail
  PROVE  /\ chan' \in [Channels -> Rings] /\ OtherRings(Cur)
         /\ chan'[Cur].Drops = chan[Cur].Drops /\ chan'[Cur].Tail = cons.tail + 1
         /\ chan'[Cur].Head = chan[Cur].Head /\ chan'[Cur].Slots = chan[Cur].Slots
         /\ cons' \in Consumers /\ cons'.pc \in {"scan", "rules"}
         /\ cons'.batch = Append(cons.batch, cons.ev) /\ cons'.max = cons.max /\ cons'.due = cons.due
<1>1. Cur \in Channels /\ cons.tail + 1 \in Nat
  BY CurTyped
<1>2. chan' = [chan EXCEPT ![Cur].Tail = cons.tail + 1]
  BY DEF ReadTail
<1>3. cons' = Advance([cons EXCEPT !.batch = Append(cons.batch, cons.ev)])
  BY DEF ReadTail
<1>4. PICK st : st = [cons EXCEPT !.batch = Append(cons.batch, cons.ev)]
  OBVIOUS
<1>5. st \in Consumers /\ st.batch = Append(cons.batch, cons.ev) /\ st.max = cons.max /\ st.due = cons.due
  BY <1>4, TakenTyped
<1>6. cons' = Advance(st)
  BY <1>3, <1>4
<1>7. /\ cons' \in Consumers /\ cons'.pc \in {"scan", "rules"}
      /\ cons'.batch = Append(cons.batch, cons.ev) /\ cons'.max = cons.max /\ cons'.due = cons.due
  BY <1>5, <1>6, AdvanceTyped
<1>8. QED
  BY <1>1, <1>2, <1>7, TailEffect

LEMMA EvalRulesEffect ==
  ASSUME TypeInv, EvalRules
  PROVE  /\ cons' \in Consumers /\ cons'.pc = "correlate" /\ cons'.i = 1 /\ cons'.max = cons.max
         /\ Len(cons'.batch) = Len(cons.batch)
         /\ \A j \in 1 .. Len(cons.batch) : cons'.batch[j] = Ruled(cons.batch[j])
<1>1. PICK b : b = [j \in 1 .. Len(cons.batch) |-> Ruled(cons.batch[j])]
  OBVIOUS
<1>2. b \in Seq(Observations) /\ Len(b) = Len(cons.batch)
  BY <1>1, CurTyped, RuledTyped
<1>3. cons \in Consumers /\ cons' = [cons EXCEPT !.pc = "correlate", !.i = 1, !.batch = b]
  BY <1>1 DEF EvalRules, TypeInv
<1>4. cons' \in Consumers /\ cons'.pc = "correlate" /\ cons'.i = 1 /\ cons'.max = cons.max /\ cons'.batch = b
  BY <1>2, <1>3 DEF Consumers
<1>5. QED
  BY <1>1, <1>2, <1>4

LEMMA CorrelateEffect ==
  ASSUME TypeInv, Correlate
  PROVE  LET e == cons.batch[cons.i]  x == e.Pid % Entries IN
         /\ cons.i \in 1 .. Len(cons.batch) /\ e \in Observations /\ x \in 0 .. Entries - 1
         /\ table[x] \in TrackerEntries
         /\ delivered' = Append(delivered, Correlated(table[x], e)) /\ Correlated(table[x], e) \in Observations
         /\ table' = IF e.Pid = 0 THEN table ELSE [table EXCEPT ![x] = Tracked(table[x], e)]
         /\ Tracked(table[x], e) \in TrackerEntries
         /\ cons' \in Consumers /\ cons'.pc = "correlate" /\ cons'.i = cons.i + 1
         /\ cons'.batch = cons.batch /\ cons'.max = cons.max
<1> DEFINE e == cons.batch[cons.i]  x == e.Pid % Entries
<1>1. cons \in Consumers /\ cons.pc = "correlate" /\ cons.i >= 1 /\ cons.i <= Len(cons.batch)
  BY DEF TypeInv, Correlate
<1>2. cons.i \in Nat /\ cons.i \in 1 .. Len(cons.batch)
  BY <1>1, CurTyped DEF Consumers
<1>3. e \in Observations
  BY <1>2, CurTyped
<1>4. e.Pid \in Nat
  BY <1>3 DEF Observations
<1>5. x \in 0 .. Entries - 1
  BY <1>4, ModTyped
<1>6. table[x] \in TrackerEntries
  BY <1>5 DEF TypeInv
<1>7. Tracked(table[x], e) \in TrackerEntries /\ Correlated(table[x], e) \in Observations
  BY <1>3, <1>6, TrackedTyped, CorrelatedTyped
<1>8. cons' = [cons EXCEPT !.i = cons.i + 1] /\ cons.i + 1 \in Nat
  BY <1>2 DEF Correlate
<1>9. /\ cons' \in Consumers /\ cons'.pc = "correlate" /\ cons'.i = cons.i + 1
      /\ cons'.batch = cons.batch /\ cons'.max = cons.max
  BY <1>1, <1>8 DEF Consumers
<1>10. /\ delivered' = Append(delivered, Correlated(table[x], e))
       /\ table' = IF e.Pid = 0 THEN table ELSE [table EXCEPT ![x] = Tracked(table[x], e)]
  BY DEF Correlate
<1>11. QED
  BY <1>2, <1>3, <1>5, <1>6, <1>7, <1>9, <1>10

LEMMA IdleEffect ==
  ASSUME cons' = IdleCons
  PROVE  cons' \in Consumers /\ cons'.pc = "idle" /\ cons'.batch = << >> /\ cons'.max = 0 /\ cons'.k = 1
<1>1. IdleCons \in Consumers
  BY NoEventTyped, EmptySeq DEF IdleCons, Consumers
<1>2. QED
  BY <1>1 DEF IdleCons

LEMMA BatchSlotEffect ==
  ASSUME TypeInv, BatchSlot
  PROVE  /\ cons' \in Consumers /\ cons'.pc = "copy" /\ cons'.tail = cons.tail
         /\ cons'.k = cons.k /\ cons'.max = cons.max
         /\ chan[Cur].Slots[(cons.tail + Len(cons.batch)) % Size] \in Observations
         /\ cons'.batch = Append(cons.batch, chan[Cur].Slots[(cons.tail + Len(cons.batch)) % Size])
<1>1. PICK e : e = chan[Cur].Slots[(cons.tail + Len(cons.batch)) % Size]
  OBVIOUS
<1>2. cons.tail + Len(cons.batch) \in Nat
  BY CurTyped
<1>3. e \in Observations
  BY <1>1, <1>2, CurTyped, ModTyped DEF Rings
<1>4. cons \in Consumers /\ Append(cons.batch, e) \in Seq(Observations)
  BY <1>3 DEF TypeInv, Consumers
<1>5. cons' = [cons EXCEPT !.batch = Append(cons.batch, e)] /\ cons.pc = "copy"
  BY <1>1 DEF BatchSlot
<1>6. /\ cons' \in Consumers /\ cons'.pc = "copy" /\ cons'.tail = cons.tail
      /\ cons'.k = cons.k /\ cons'.max = cons.max /\ cons'.batch = Append(cons.batch, e)
  BY <1>4, <1>5 DEF Consumers
<1>7. QED
  BY <1>1, <1>3, <1>6

LEMMA BatchTailEffect ==
  ASSUME TypeInv, BatchTail
  PROVE  /\ chan' \in [Channels -> Rings] /\ OtherRings(Cur)
         /\ chan'[Cur].Drops = chan[Cur].Drops /\ chan'[Cur].Tail = cons.tail + cons.max
         /\ chan'[Cur].Head = chan[Cur].Head /\ chan'[Cur].Slots = chan[Cur].Slots
         /\ cons' \in Consumers /\ cons'.pc = "taken" /\ cons'.batch = cons.batch /\ cons'.max = cons.max
<1>1. Cur \in Channels /\ cons.tail + cons.max \in Nat
  BY CurTyped
<1>2. chan' = [chan EXCEPT ![Cur].Tail = cons.tail + cons.max]
  BY DEF BatchTail
<1>3. cons \in Consumers /\ cons' = [cons EXCEPT !.pc = "taken"]
  BY DEF BatchTail, TypeInv
<1>4. cons' \in Consumers /\ cons'.pc = "taken" /\ cons'.batch = cons.batch /\ cons'.max = cons.max
  BY <1>3 DEF Consumers
<1>5. QED
  BY <1>1, <1>2, <1>4, TailEffect

LEMMA InjectEffect ==
  ASSUME TypeInv, NEW e \in Events, Inject(e)
  PROVE  LET c == ChannelOf(e.subsystem) IN
         /\ c \in Channels /\ e \in Observations /\ chan[c].Head \in Nat /\ chan[c].Tail \in Nat
         /\ prod.pc = "idle" /\ injected' = injected + 1 /\ injected' \in 0 .. MaxInject
         /\ UNCHANGED <<running, cons, table, delivered>>
         /\ \/ /\ chan[c].Head - chan[c].Tail >= Size /\ UNCHANGED prod
               /\ chan' \in [Channels -> Rings] /\ OtherRings(c)
               /\ chan'[c].Drops = chan[c].Drops + 1 /\ chan'[c].Head = chan[c].Head
               /\ chan'[c].Tail = chan[c].Tail /\ chan'[c].Slots = chan[c].Slots
            \/ /\ chan[c].Head - chan[c].Tail < Size /\ UNCHANGED chan
               /\ prod' \in Producers /\ prod'.pc = "slot" /\ prod'.c = c /\ prod'.ev = e
               /\ prod'.head = chan[c].Head
<1> DEFINE c == ChannelOf(e.subsystem)
<1>1. c \in Channels /\ e \in Observations
  BY ObservationAssumption DEF ChannelOf, Channels
<1>2. chan[c] \in Rings
  BY <1>1 DEF TypeInv
<1>3. chan[c].Head \in Nat /\ chan[c].Tail \in Nat
  BY <1>2 DEF Rings
<1>4. prod.pc = "idle" /\ injected' = injected + 1 /\ UNCHANGED <<running, cons, table, delivered>> /\ injected < MaxInject
  BY DEF Inject
<1>5. injected' \in 0 .. MaxInject
  BY <1>4, ContextAssumption DEF TypeInv
<1>6. \/ /\ chan[c].Head - chan[c].Tail >= Size /\ UNCHANGED prod
         /\ chan' = [chan EXCEPT ![c].Drops = @ + 1]
      \/ /\ chan[c].Head - chan[c].Tail < Size /\ UNCHANGED chan
         /\ prod' = [pc |-> "slot", c |-> c, ev |-> e, head |-> chan[c].Head]
  BY DEF Inject
<1> HIDE DEF c
<1>7. CASE /\ chan[c].Head - chan[c].Tail >= Size /\ UNCHANGED prod
           /\ chan' = [chan EXCEPT ![c].Drops = @ + 1]
  <2>1. /\ chan' \in [Channels -> Rings] /\ OtherRings(c)
        /\ chan'[c].Drops = chan[c].Drops + 1 /\ chan'[c].Head = chan[c].Head
        /\ chan'[c].Tail = chan[c].Tail /\ chan'[c].Slots = chan[c].Slots
    BY <1>1, <1>7, RefuseEffect
  <2>2. QED
    BY <1>1, <1>3, <1>4, <1>5, <1>7, <2>1 DEF c
<1>8. CASE /\ chan[c].Head - chan[c].Tail < Size /\ UNCHANGED chan
           /\ prod' = [pc |-> "slot", c |-> c, ev |-> e, head |-> chan[c].Head]
  <2>1. prod' \in Producers /\ prod'.pc = "slot" /\ prod'.c = c /\ prod'.ev = e /\ prod'.head = chan[c].Head
    BY <1>1, <1>3, <1>8 DEF Producers
  <2>2. QED
    BY <1>1, <1>3, <1>4, <1>5, <1>8, <2>1 DEF c
<1>9. QED
  BY <1>6, <1>7, <1>8

LEMMA InjectSlotEffect ==
  ASSUME TypeInv, InjectSlot
  PROVE  LET s == prod.head % Size IN
         /\ prod.c \in Channels /\ prod.head \in Nat /\ prod.ev \in Observations /\ s \in 0 .. Size - 1
         /\ prod' \in Producers /\ prod'.pc = "head" /\ prod'.c = prod.c /\ prod'.ev = prod.ev
         /\ prod'.head = prod.head
         /\ chan' \in [Channels -> Rings] /\ OtherRings(prod.c)
         /\ chan'[prod.c].Drops = chan[prod.c].Drops /\ chan'[prod.c].Tail = chan[prod.c].Tail
         /\ chan'[prod.c].Head = chan[prod.c].Head /\ chan'[prod.c].Slots[s] = prod.ev
         /\ \A t \in 0 .. Size - 1 : t # s => chan'[prod.c].Slots[t] = chan[prod.c].Slots[t]
<1>1. prod \in Producers
  BY DEF TypeInv
<1>2. prod.c \in Channels /\ prod.head \in Nat /\ prod.ev \in Observations
  BY <1>1 DEF Producers
<1>3. prod.head % Size \in 0 .. Size - 1
  BY <1>2, ModTyped
<1>4. /\ prod' \in Producers /\ prod'.pc = "head" /\ prod'.c = prod.c /\ prod'.ev = prod.ev
      /\ prod'.head = prod.head
  BY <1>1 DEF InjectSlot, Producers
<1>5. chan' = [chan EXCEPT ![prod.c].Slots[prod.head % Size] = prod.ev]
  BY DEF InjectSlot
<1>6. PICK s \in 0 .. Size - 1 : s = prod.head % Size
  BY <1>3
<1>7. chan' = [chan EXCEPT ![prod.c].Slots[s] = prod.ev]
  BY <1>5, <1>6
<1>8. /\ chan' \in [Channels -> Rings] /\ OtherRings(prod.c)
      /\ chan'[prod.c].Drops = chan[prod.c].Drops /\ chan'[prod.c].Tail = chan[prod.c].Tail
      /\ chan'[prod.c].Head = chan[prod.c].Head /\ chan'[prod.c].Slots[s] = prod.ev
      /\ \A t \in 0 .. Size - 1 : t # s => chan'[prod.c].Slots[t] = chan[prod.c].Slots[t]
  BY <1>2, <1>7, SlotEffect
<1>9. QED
  BY <1>2, <1>3, <1>4, <1>6, <1>8

LEMMA InjectHeadEffect ==
  ASSUME TypeInv, InjectHead
  PROVE  /\ prod.c \in Channels /\ prod.head \in Nat /\ prod.ev \in Observations
         /\ prod' \in Producers /\ prod'.pc = "idle"
         /\ chan' \in [Channels -> Rings] /\ OtherRings(prod.c)
         /\ chan'[prod.c].Drops = chan[prod.c].Drops /\ chan'[prod.c].Head = prod.head + 1
         /\ chan'[prod.c].Tail = chan[prod.c].Tail /\ chan'[prod.c].Slots = chan[prod.c].Slots
<1>1. prod \in Producers
  BY DEF TypeInv
<1>2. prod.c \in Channels /\ prod.head \in Nat /\ prod.head + 1 \in Nat /\ prod.ev \in Observations
  BY <1>1 DEF Producers
<1>3. prod' \in Producers /\ prod'.pc = "idle"
  BY <1>1 DEF InjectHead, Producers
<1>4. chan' = [chan EXCEPT ![prod.c].Head = prod.head + 1]
  BY DEF InjectHead
<1>5. QED
  BY <1>2, <1>3, <1>4, HeadEffect

-----------------------------------------------------------------------------
(* Every step keeps the types.                                             *)
LEMMA NextTyped == TypeInv /\ [Next]_vars => TypeInv'
<1> SUFFICES ASSUME TypeInv, [Next]_vars PROVE TypeInv'
  OBVIOUS
<1>1. CASE Start \/ Stop
  BY <1>1 DEF Start, Stop, TypeInv
<1>2. ASSUME NEW e \in Events, Inject(e) PROVE TypeInv'
  <2>1. chan' \in [Channels -> Rings] /\ prod' \in Producers
    BY <1>2, InjectEffect DEF TypeInv
  <2>2. injected' \in 0 .. MaxInject /\ UNCHANGED <<running, cons, table, delivered>>
    BY <1>2, InjectEffect
  <2>3. QED
    BY <2>1, <2>2 DEF TypeInv
<1>3. CASE InjectSlot
  <2>1. chan' \in [Channels -> Rings] /\ prod' \in Producers
    BY <1>3, InjectSlotEffect
  <2>2. QED
    BY <1>3, <2>1 DEF TypeInv, InjectSlot
<1>4. CASE InjectHead
  <2>1. chan' \in [Channels -> Rings] /\ prod' \in Producers
    BY <1>4, InjectHeadEffect
  <2>2. QED
    BY <1>4, <2>1 DEF TypeInv, InjectHead
<1>5. ASSUME NEW n \in 0 .. MaxBatch, Poll(n) PROVE TypeInv'
  <2>1. cons' \in Consumers /\ cons'.pc # "correlate"
    BY <1>5, PollEffect
  <2>2. QED
    BY <1>5, <2>1 DEF TypeInv, Poll
<1>6. CASE ReadLoad
  <2>1. CASE cons' = Advance(cons)
    <3>1. cons' \in Consumers /\ cons'.pc # "correlate"
      BY <2>1, AdvanceTyped DEF TypeInv
    <3>2. QED
      BY <1>6, <3>1 DEF TypeInv, ReadLoad
  <2>2. CASE cons' = [cons EXCEPT !.pc = "slot", !.tail = chan[Cur].Tail]
    <3>1. cons' \in Consumers /\ cons'.pc # "correlate"
      BY <2>2, FoundEffect
    <3>2. QED
      BY <1>6, <3>1 DEF TypeInv, ReadLoad
  <2>3. QED
    BY <1>6, <2>1, <2>2 DEF ReadLoad
<1>7. CASE ReadSlot
  <2>1. cons' \in Consumers /\ cons'.pc # "correlate"
    BY <1>7, ReadSlotEffect
  <2>2. QED
    BY <1>7, <2>1 DEF TypeInv, ReadSlot
<1>8. CASE ReadTail
  <2>1. chan' \in [Channels -> Rings] /\ cons' \in Consumers /\ cons'.pc # "correlate"
    BY <1>8, ReadTailEffect
  <2>2. QED
    BY <1>8, <2>1 DEF TypeInv, ReadTail
<1>9. CASE EvalRules
  <2>1. cons' \in Consumers /\ cons'.i = 1
    BY <1>9, EvalRulesEffect
  <2>2. QED
    BY <1>9, <2>1 DEF TypeInv, EvalRules
<1>10. CASE Correlate
  <2> DEFINE e == cons.batch[cons.i]  x == e.Pid % Entries
  <2>1. cons.i \in Nat /\ cons.i >= 1 /\ cons' \in Consumers /\ cons'.i = cons.i + 1
    BY <1>10, CorrelateEffect, CurTyped
  <2>2. delivered' \in Seq(Observations)
    <3>1. PICK d \in Observations : delivered' = Append(delivered, d)
      BY <1>10, CorrelateEffect
    <3>2. QED
      BY <3>1 DEF TypeInv
  <2>3. table' \in [0 .. Entries - 1 -> TrackerEntries]
    BY <1>10, CorrelateEffect DEF TypeInv
  <2>4. cons'.i >= 1
    BY <2>1
  <2>5. QED
    BY <1>10, <2>1, <2>2, <2>3, <2>4 DEF TypeInv, Correlate
<1>11. CASE PollReturn \/ BatchReturn
  <2>1. cons' = IdleCons
    BY <1>11 DEF PollReturn, BatchReturn
  <2>2. cons' \in Consumers /\ cons'.pc # "correlate"
    BY <2>1, IdleEffect
  <2>3. QED
    BY <1>11, <2>2 DEF TypeInv, PollReturn, BatchReturn
<1>12. ASSUME NEW k \in 1 .. Len(ChannelOrder), NEW n \in 1 .. MaxBatch, BatchLoad(k, n) PROVE TypeInv'
  <2>1. cons' \in Consumers /\ cons'.pc # "correlate"
    BY <1>12, BatchLoadEffect
  <2>2. UNCHANGED <<running, chan, prod, table, injected, delivered>>
    BY <1>12 DEF BatchLoad
  <2>3. QED
    BY <2>1, <2>2 DEF TypeInv
<1>13. CASE BatchSlot
  <2>1. cons' \in Consumers /\ cons'.pc # "correlate"
    BY <1>13, BatchSlotEffect
  <2>2. QED
    BY <1>13, <2>1 DEF TypeInv, BatchSlot
<1>14. CASE BatchTail
  <2>1. chan' \in [Channels -> Rings] /\ cons' \in Consumers /\ cons'.pc # "correlate"
    BY <1>14, BatchTailEffect
  <2>2. QED
    BY <1>14, <2>1 DEF TypeInv, BatchTail
<1>15. CASE UNCHANGED vars
  BY <1>15 DEF vars, TypeInv
<1>16. QED
  BY <1>1, <1>2, <1>3, <1>4, <1>5, <1>6, <1>7, <1>8, <1>9, <1>10, <1>11, <1>12, <1>13, <1>14, <1>15
     DEF Next, Producer, Consumer

-----------------------------------------------------------------------------
(* The inductive invariant, part by part.                                  *)

(* A ring never holds more than it has slots, and the observation being    *)
(* injected is counted already.                                            *)
RingInv ==
  /\ \A c \in Channels :
       /\ chan[c].Tail <= chan[c].Head /\ chan[c].Head - chan[c].Tail <= Size
       /\ chan[c].Head <= injected
  /\ prod.pc # "idle" => chan[prod.c].Head < injected

(* The producer owns the slot at Head from the comparison to the store.    *)
ProdInv ==
  prod.pc # "idle" =>
    /\ prod.head = chan[prod.c].Head /\ prod.head - chan[prod.c].Tail < Size
    /\ prod.ev \in Events /\ prod.c = ChannelOf(prod.ev.subsystem)
    /\ prod.pc = "head" => chan[prod.c].Slots[prod.head % Size] = prod.ev

(* Between Tail and Head are observations of that ring.                    *)
ContentsInv ==
  \A c \in Channels : \A i \in chan[c].Tail .. chan[c].Head - 1 :
    /\ chan[c].Slots[i % Size] \in Events
    /\ ChannelOf(chan[c].Slots[i % Size].subsystem) = c

(* What the consumer knows of the ring it reads.                           *)
ConsInv ==
  /\ Len(cons.batch) <= cons.max
  /\ cons.pc \in {"scan", "slot", "tail"} => Len(cons.batch) < cons.max
  /\ cons.pc \in {"slot", "tail"} => cons.tail = chan[Cur].Tail /\ chan[Cur].Tail < chan[Cur].Head
  /\ cons.pc = "tail" => cons.ev = chan[Cur].Slots[cons.tail % Size]
  /\ cons.pc = "copy" =>
       /\ cons.max >= 1 /\ cons.tail = chan[Cur].Tail /\ cons.tail + cons.max <= chan[Cur].Head
       /\ \A j \in 1 .. Len(cons.batch) : cons.batch[j] = chan[Cur].Slots[(cons.tail + j - 1) % Size]

(* The channels that held something when the poll began are served, or     *)
(* still hold it; the first round has passed the ones before the current.  *)
Served(st, c) == \E j \in 1 .. Len(st.batch) : ChannelOf(st.batch[j].subsystem) = c
Due(st, k) == ChannelOrder[k] \in st.due => Served(st, ChannelOrder[k])
Passed(st, n) ==
  /\ st.before = 0 => Len(st.batch) <= n /\ \A k \in 1 .. 4 : k <= n => Due(st, k)
  /\ st.before # 0 => \A k \in 1 .. 4 : Due(st, k)
ServeInv ==
  /\ cons.pc \in {"scan", "slot", "tail"} =>
       /\ \A c \in cons.due : Served(cons, c) \/ chan[c].Tail < chan[c].Head
       /\ Passed(cons, cons.k - 1)
  /\ cons.pc = "rules" /\ cons.max >= 4 => \A k \in 1 .. 4 : Due(cons, k)

(* The verdict bit of what the rules have seen.                            *)
Settled(e) == ("ok" \in e.Flags) <=> (e.Flags \cap Veto = {})
SettledInv ==
  /\ cons.pc = "correlate" => \A j \in 1 .. Len(cons.batch) : Settled(cons.batch[j])
  /\ \A j \in 1 .. Len(delivered) : Settled(delivered[j])

(* What an entry of the tracker claims was seen: each subsystem it names   *)
(* has a hostile observation of its process in its window, and its score   *)
(* counts them.                                                            *)
Witnessed(log, n, s) ==
  \E i \in 1 .. Len(log) :
    /\ log[i].Pid = n.Pid /\ log[i].Pid # 0 /\ log[i].subsystem = s
    /\ Hostile(log[i])
    /\ n.Last_ts <= log[i].Ts /\ log[i].Ts < n.Last_ts + Window
Scored(n) ==
  /\ n.subsystems = {} => n.score = 0
  /\ \A s \in n.subsystems : n.subsystems \subseteq {s} => n.score <= 50
TrackerInv ==
  \A x \in 0 .. Entries - 1 :
    /\ Scored(table[x])
    /\ \A s \in table[x].subsystems : Witnessed(delivered, table[x], s)

IInv ==
  /\ TypeInv /\ RingInv /\ ProdInv /\ ContentsInv /\ ConsInv
  /\ ServeInv /\ SettledInv /\ TrackerInv /\ NoFalseCorrelation

LEMMA RingNats ==
  ASSUME NEW C \in [Channels -> Rings], NEW c \in Channels
  PROVE  C[c] \in Rings /\ C[c].Head \in Nat /\ C[c].Tail \in Nat
<1>1. C[c] \in Rings
  OBVIOUS
<1>2. QED
  BY <1>1 DEF Rings

(* The steps that change a ring or what the producer holds.                *)
LEMMA RingSteps ==
  ASSUME [Next]_vars
  PROVE  \/ \E e \in Events : Inject(e)
         \/ InjectSlot \/ InjectHead \/ ReadTail \/ BatchTail
         \/ UNCHANGED <<chan, prod, injected>>
  BY DEF Next, Producer, Consumer, vars, Start, Stop, Poll, ReadLoad, ReadSlot, EvalRules, Correlate,
         PollReturn, BatchLoad, BatchSlot, BatchReturn

(* The store of Tail gives back only slots that were filled.               *)
TailMoves ==
  /\ Cur \in Channels /\ OtherRings(Cur) /\ UNCHANGED <<prod, injected>>
  /\ chan'[Cur].Head = chan[Cur].Head /\ chan'[Cur].Slots = chan[Cur].Slots
  /\ chan[Cur].Tail <= chan'[Cur].Tail /\ chan'[Cur].Tail <= chan[Cur].Head

LEMMA TailMoved ==
  ASSUME TypeInv, ConsInv, ReadTail \/ BatchTail
  PROVE  TailMoves
<1>0. Cur \in Channels /\ cons.tail \in Nat /\ cons.max \in Nat /\ chan[Cur].Head \in Nat /\ chan[Cur].Tail \in Nat
  BY CurTyped, RingNats DEF TypeInv
<1>1. CASE ReadTail
  <2>1. cons.tail = chan[Cur].Tail /\ chan[Cur].Tail < chan[Cur].Head /\ UNCHANGED <<prod, injected>>
    BY <1>1 DEF ReadTail, ConsInv
  <2>2. /\ OtherRings(Cur) /\ chan'[Cur].Tail = cons.tail + 1 /\ chan'[Cur].Head = chan[Cur].Head
        /\ chan'[Cur].Slots = chan[Cur].Slots
    BY <1>1, ReadTailEffect
  <2>3. QED
    BY <1>0, <2>1, <2>2 DEF TailMoves
<1>2. CASE BatchTail
  <2>1. cons.tail = chan[Cur].Tail /\ cons.tail + cons.max <= chan[Cur].Head /\ UNCHANGED <<prod, injected>>
    BY <1>2 DEF BatchTail, ConsInv
  <2>2. /\ OtherRings(Cur) /\ chan'[Cur].Tail = cons.tail + cons.max /\ chan'[Cur].Head = chan[Cur].Head
        /\ chan'[Cur].Slots = chan[Cur].Slots
    BY <1>2, BatchTailEffect
  <2>3. QED
    BY <1>0, <2>1, <2>2 DEF TailMoves
<1>3. QED
  BY <1>1, <1>2

LEMMA RingKept ==
  ASSUME TypeInv, RingInv, ProdInv, ConsInv, [Next]_vars, TypeInv'
  PROVE  RingInv'
<1> USE ContextAssumption
<1>0. /\ \A d \in Channels : chan[d].Head \in Nat /\ chan[d].Tail \in Nat
      /\ \A d \in Channels : chan'[d].Head \in Nat /\ chan'[d].Tail \in Nat
      /\ injected \in Nat /\ injected' \in Nat /\ Size \in Nat
  BY SMTT(30), RingNats DEF TypeInv
<1>1. ASSUME NEW e \in Events, Inject(e) PROVE RingInv'
  <2> DEFINE c == ChannelOf(e.subsystem)
  <2>1. c \in Channels /\ prod.pc = "idle" /\ injected' = injected + 1
    BY <1>1, InjectEffect
  <2>2. CASE UNCHANGED prod /\ OtherRings(c) /\ chan'[c].Head = chan[c].Head /\ chan'[c].Tail = chan[c].Tail
    <3>1. \A d \in Channels : chan'[d].Head = chan[d].Head /\ chan'[d].Tail = chan[d].Tail
      BY <2>2 DEF OtherRings
    <3>2. QED
      BY <1>0, <2>1, <2>2, <3>1 DEF RingInv
  <2>3. CASE UNCHANGED chan /\ prod'.c = c
    BY <1>0, <2>1, <2>3 DEF RingInv
  <2>4. QED
    BY <1>1, <2>2, <2>3, InjectEffect
<1>2. CASE InjectSlot
  <2>1. /\ prod.c \in Channels /\ OtherRings(prod.c) /\ prod'.c = prod.c /\ prod.pc # "idle"
        /\ chan'[prod.c].Head = chan[prod.c].Head /\ chan'[prod.c].Tail = chan[prod.c].Tail
        /\ injected' = injected
    BY <1>2, InjectSlotEffect DEF InjectSlot
  <2>2. \A d \in Channels : chan'[d].Head = chan[d].Head /\ chan'[d].Tail = chan[d].Tail
    BY <2>1 DEF OtherRings
  <2>3. QED
    BY <2>1, <2>2 DEF RingInv
<1>3. CASE InjectHead
  <2>1. /\ prod.c \in Channels /\ OtherRings(prod.c) /\ prod'.pc = "idle" /\ prod.pc # "idle"
        /\ chan'[prod.c].Head = prod.head + 1 /\ chan'[prod.c].Tail = chan[prod.c].Tail
        /\ injected' = injected
    BY <1>3, InjectHeadEffect DEF InjectHead
  <2>2. prod.head = chan[prod.c].Head /\ prod.head - chan[prod.c].Tail < Size /\ chan[prod.c].Head < injected
    BY <2>1 DEF ProdInv, RingInv
  <2>3. ASSUME NEW d \in Channels
        PROVE  /\ chan'[d].Tail <= chan'[d].Head /\ chan'[d].Head - chan'[d].Tail <= Size
               /\ chan'[d].Head <= injected'
    <3>1. CASE d = prod.c
      BY <1>0, <2>1, <2>2, <3>1 DEF RingInv
    <3>2. CASE d # prod.c
      BY <2>1, <3>2 DEF RingInv, OtherRings
    <3>3. QED
      BY <3>1, <3>2
  <2>4. QED
    BY <2>1, <2>3 DEF RingInv
<1>4. CASE ReadTail \/ BatchTail
  <2>1. TailMoves
    BY <1>4, TailMoved
  <2>2. ASSUME NEW d \in Channels
        PROVE  /\ chan'[d].Tail <= chan'[d].Head /\ chan'[d].Head - chan'[d].Tail <= Size
               /\ chan'[d].Head <= injected' /\ chan'[d].Head = chan[d].Head
    <3>1. CASE d = Cur
      BY <1>0, <2>1, <3>1 DEF RingInv, TailMoves
    <3>2. CASE d # Cur
      BY <2>1, <3>2 DEF RingInv, OtherRings, TailMoves
    <3>3. QED
      BY <3>1, <3>2
  <2>3. prod.c \in Channels
    BY DEF TypeInv, Producers
  <2>4. QED
    BY <2>1, <2>2, <2>3 DEF RingInv, TailMoves
<1>5. CASE UNCHANGED <<chan, prod, injected>>
  BY <1>5 DEF RingInv
<1>6. QED
  BY <1>1, <1>2, <1>3, <1>4, <1>5, RingSteps

LEMMA ProdKept ==
  ASSUME TypeInv, RingInv, ProdInv, ConsInv, [Next]_vars, TypeInv'
  PROVE  ProdInv'
<1> USE ContextAssumption
<1>0. /\ \A d \in Channels : chan[d].Head \in Nat /\ chan[d].Tail \in Nat
      /\ \A d \in Channels : chan'[d].Head \in Nat /\ chan'[d].Tail \in Nat
      /\ Size \in Nat /\ prod.c \in Channels /\ prod.head \in Nat
      /\ prod.pc \in {"idle", "slot", "head"}
  BY RingNats DEF TypeInv, Producers
<1>1. ASSUME NEW e \in Events, Inject(e) PROVE ProdInv'
  <2>1. CASE UNCHANGED prod
    BY <1>1, <2>1, InjectEffect DEF ProdInv
  <2>2. CASE ~ UNCHANGED prod
    <3>1. /\ UNCHANGED chan /\ prod'.pc = "slot" /\ prod'.c = ChannelOf(e.subsystem) /\ prod'.ev = e
          /\ prod'.head = chan[prod'.c].Head /\ chan[prod'.c].Head - chan[prod'.c].Tail < Size
      BY <1>1, <2>2, InjectEffect
    <3>2. QED
      BY <3>1 DEF ProdInv
  <2>3. QED
    BY <2>1, <2>2
<1>2. CASE InjectSlot
  <2>1. prod.pc = "slot"
    BY <1>2 DEF InjectSlot
  <2>2. /\ prod.head = chan[prod.c].Head /\ prod.head - chan[prod.c].Tail < Size
        /\ prod.ev \in Events /\ prod.c = ChannelOf(prod.ev.subsystem)
    BY <2>1 DEF ProdInv
  <2>3. /\ prod'.head = prod.head /\ prod'.c = prod.c /\ prod'.ev = prod.ev
        /\ chan'[prod.c].Head = chan[prod.c].Head /\ chan'[prod.c].Tail = chan[prod.c].Tail
        /\ chan'[prod.c].Slots[prod.head % Size] = prod.ev
    BY <1>2, InjectSlotEffect
  <2>4. QED
    BY <2>2, <2>3 DEF ProdInv
<1>3. CASE InjectHead
  BY <1>3, InjectHeadEffect DEF ProdInv
<1>4. CASE ReadTail \/ BatchTail
  <2>1. TailMoves
    BY <1>4, TailMoved
  <2>2. /\ chan'[prod.c].Head = chan[prod.c].Head /\ chan[prod.c].Tail <= chan'[prod.c].Tail
        /\ chan'[prod.c].Slots = chan[prod.c].Slots /\ prod' = prod
    <3>1. CASE prod.c = Cur
      BY <2>1, <3>1 DEF TailMoves
    <3>2. CASE prod.c # Cur
      BY <1>0, <2>1, <3>2 DEF TailMoves, OtherRings
    <3>3. QED
      BY <3>1, <3>2
  <2>3. chan'[prod.c].Tail \in Nat /\ chan[prod.c].Tail \in Nat
    BY <1>0
  <2>4. prod.head - chan[prod.c].Tail < Size => prod.head - chan'[prod.c].Tail < Size
    BY <1>0, <2>2, <2>3
  <2>5. QED
    BY <2>2, <2>4 DEF ProdInv
<1>5. CASE UNCHANGED <<chan, prod, injected>>
  BY <1>5 DEF ProdInv
<1>6. QED
  BY <1>1, <1>2, <1>3, <1>4, <1>5, RingSteps

(* The slots of a full ring and the one being filled are different.        *)
LEMMA SlotFree ==
  ASSUME TypeInv, ProdInv, prod.pc # "idle",
         NEW i \in chan[prod.c].Tail .. chan[prod.c].Head - 1
  PROVE  i % Size # prod.head % Size /\ i % Size \in 0 .. Size - 1
<1>1. prod.c \in Channels /\ prod.head \in Nat
  BY DEF TypeInv, Producers
<1>2. chan[prod.c].Head \in Nat /\ chan[prod.c].Tail \in Nat
  BY <1>1, RingNats DEF TypeInv
<1>3. i \in Nat /\ chan[prod.c].Tail <= i /\ i < chan[prod.c].Head
  BY <1>2
<1>4. prod.head = chan[prod.c].Head /\ prod.head - chan[prod.c].Tail < Size
  BY DEF ProdInv
<1>5. i < prod.head /\ prod.head < i + Size
  BY <1>1, <1>2, <1>3, <1>4, ContextAssumption
<1>6. QED
  BY <1>1, <1>3, <1>5, ModDistinct, ModTyped

LEMMA ContentsKept ==
  ASSUME TypeInv, RingInv, ProdInv, ConsInv, ContentsInv, [Next]_vars, TypeInv'
  PROVE  ContentsInv'
<1> USE ContextAssumption
<1>0. /\ \A d \in Channels : chan[d].Head \in Nat /\ chan[d].Tail \in Nat
      /\ \A d \in Channels : chan'[d].Head \in Nat /\ chan'[d].Tail \in Nat
      /\ prod.c \in Channels /\ prod.head \in Nat
  BY RingNats DEF TypeInv, Producers
<1>1. ASSUME NEW e \in Events, Inject(e) PROVE ContentsInv'
  <2>1. \A d \in Channels : /\ chan'[d].Head = chan[d].Head /\ chan'[d].Tail = chan[d].Tail
                            /\ chan'[d].Slots = chan[d].Slots
    BY <1>1, InjectEffect DEF OtherRings
  <2>2. QED
    BY <2>1 DEF ContentsInv
<1>2. CASE InjectSlot
  <2>1. SUFFICES ASSUME NEW d \in Channels, NEW i \in chan'[d].Tail .. chan'[d].Head - 1
                 PROVE  /\ chan'[d].Slots[i % Size] \in Events
                        /\ ChannelOf(chan'[d].Slots[i % Size].subsystem) = d
    BY DEF ContentsInv
  <2>2. chan'[d].Head = chan[d].Head /\ chan'[d].Tail = chan[d].Tail
    BY <1>2, InjectSlotEffect DEF OtherRings
  <2>3. chan'[d].Slots[i % Size] = chan[d].Slots[i % Size]
    <3>1. CASE d # prod.c
      BY <1>2, <3>1, InjectSlotEffect DEF OtherRings
    <3>2. CASE d = prod.c
      <4>1. prod.pc # "idle" /\ i \in chan[prod.c].Tail .. chan[prod.c].Head - 1
        BY <1>2, <2>2, <3>2 DEF InjectSlot
      <4>2. i % Size # prod.head % Size /\ i % Size \in 0 .. Size - 1
        BY <4>1, SlotFree
      <4>3. QED
        BY <1>2, <3>2, <4>2, InjectSlotEffect
    <3>3. QED
      BY <3>1, <3>2
  <2>4. QED
    BY <2>2, <2>3 DEF ContentsInv
<1>3. CASE InjectHead
  <2>1. SUFFICES ASSUME NEW d \in Channels, NEW i \in chan'[d].Tail .. chan'[d].Head - 1
                 PROVE  /\ chan'[d].Slots[i % Size] \in Events
                        /\ ChannelOf(chan'[d].Slots[i % Size].subsystem) = d
    BY DEF ContentsInv
  <2>2. prod.pc = "head"
    BY <1>3 DEF InjectHead
  <2>3. /\ prod.head = chan[prod.c].Head /\ prod.ev \in Events /\ prod.c = ChannelOf(prod.ev.subsystem)
        /\ chan[prod.c].Slots[prod.head % Size] = prod.ev
    BY <2>2 DEF ProdInv
  <2>4. CASE d # prod.c
    <3>1. chan'[d] = chan[d]
      BY <1>3, <2>4, InjectHeadEffect DEF OtherRings
    <3>2. QED
      BY <3>1 DEF ContentsInv
  <2>5. CASE d = prod.c
    <3>1. /\ chan'[d].Head = prod.head + 1 /\ chan'[d].Tail = chan[d].Tail
          /\ chan'[d].Slots = chan[d].Slots
      BY <1>3, <2>5, InjectHeadEffect
    <3>2. i = prod.head \/ i \in chan[d].Tail .. chan[d].Head - 1
      BY <1>0, <2>3, <2>5, <3>1
    <3>3. QED
      BY <2>3, <2>5, <3>1, <3>2 DEF ContentsInv
  <2>6. QED
    BY <2>4, <2>5
<1>4. CASE ReadTail \/ BatchTail
  <2>1. TailMoves
    BY <1>4, TailMoved
  <2>2. ASSUME NEW d \in Channels
        PROVE  /\ chan'[d].Head = chan[d].Head /\ chan'[d].Slots = chan[d].Slots
               /\ chan[d].Tail <= chan'[d].Tail
    <3>1. CASE d = Cur
      BY <2>1, <3>1 DEF TailMoves
    <3>2. CASE d # Cur
      BY <1>0, <2>1, <3>2 DEF TailMoves, OtherRings
    <3>3. QED
      BY <3>1, <3>2
  <2>3. \A d \in Channels : chan'[d].Tail .. chan'[d].Head - 1 \subseteq chan[d].Tail .. chan[d].Head - 1
    BY <1>0, <2>2
  <2>4. QED
    BY <2>2, <2>3 DEF ContentsInv
<1>5. CASE UNCHANGED <<chan, prod, injected>>
  BY <1>5 DEF ContentsInv
<1>6. QED
  BY <1>1, <1>2, <1>3, <1>4, <1>5, RingSteps

(* A step of the producer leaves the consumer's side of the rings alone.   *)
LEMMA ProducerApart ==
  ASSUME TypeInv, ProdInv, Producer
  PROVE  /\ UNCHANGED <<cons, table, delivered>>
         /\ \A d \in Channels :
              /\ chan'[d].Tail = chan[d].Tail /\ chan[d].Head <= chan'[d].Head
              /\ \A i \in chan[d].Tail .. chan[d].Head - 1 :
                   chan'[d].Slots[i % Size] = chan[d].Slots[i % Size]
<1>0. \A d \in Channels : chan[d].Head \in Nat /\ chan[d].Tail \in Nat
  BY RingNats DEF TypeInv
<1>1. ASSUME NEW e \in Events, Inject(e), NEW d \in Channels
      PROVE  /\ chan'[d].Tail = chan[d].Tail /\ chan[d].Head = chan'[d].Head
             /\ chan'[d].Slots = chan[d].Slots
  BY <1>1, InjectEffect DEF OtherRings
<1>2. ASSUME InjectSlot, NEW d \in Channels
      PROVE  /\ chan'[d].Tail = chan[d].Tail /\ chan[d].Head = chan'[d].Head
             /\ \A i \in chan[d].Tail .. chan[d].Head - 1 :
                   chan'[d].Slots[i % Size] = chan[d].Slots[i % Size]
  <2>1. CASE d # prod.c
    <3>1. chan'[d] = chan[d]
      BY <1>2, <2>1, InjectSlotEffect DEF OtherRings
    <3>2. QED
      BY <3>1
  <2>2. CASE d = prod.c
    <3>1. prod.pc # "idle"
      BY <1>2 DEF InjectSlot
    <3>2. \A i \in chan[d].Tail .. chan[d].Head - 1 :
            i % Size # prod.head % Size /\ i % Size \in 0 .. Size - 1
      BY <2>2, <3>1, SlotFree
    <3>3. /\ chan'[d].Tail = chan[d].Tail /\ chan'[d].Head = chan[d].Head
          /\ \A t \in 0 .. Size - 1 : t # prod.head % Size => chan'[d].Slots[t] = chan[d].Slots[t]
      BY <1>2, <2>2, InjectSlotEffect
    <3>4. QED
      BY <3>2, <3>3
  <2>3. QED
    BY <2>1, <2>2
<1>3. ASSUME InjectHead, NEW d \in Channels
      PROVE  /\ chan'[d].Tail = chan[d].Tail /\ chan[d].Head <= chan'[d].Head
             /\ chan'[d].Slots = chan[d].Slots
  <2>1. prod.head = chan[prod.c].Head
    BY <1>3 DEF InjectHead, ProdInv
  <2>2. CASE d # prod.c
    <3>1. chan'[d] = chan[d]
      BY <1>3, <2>2, InjectHeadEffect DEF OtherRings
    <3>2. QED
      BY <1>0, <3>1
  <2>3. CASE d = prod.c
    BY <1>0, <1>3, <2>1, <2>3, InjectHeadEffect
  <2>4. QED
    BY <2>2, <2>3
<1>4. UNCHANGED <<cons, table, delivered>>
  BY DEF Producer, Inject, InjectSlot, InjectHead
<1>5. CASE \E e \in Events : Inject(e)
  BY <1>0, <1>1, <1>4, <1>5
<1>6. CASE InjectSlot
  BY <1>0, <1>2, <1>4, <1>6
<1>7. CASE InjectHead
  BY <1>3, <1>4, <1>7
<1>8. QED
  BY <1>5, <1>6, <1>7 DEF Producer

LEMMA ConsKept ==
  ASSUME TypeInv, RingInv, ProdInv, ConsInv, [Next]_vars, TypeInv'
  PROVE  ConsInv'
<1>0. /\ \A d \in Channels : chan[d].Head \in Nat /\ chan[d].Tail \in Nat
      /\ \A d \in Channels : chan'[d].Head \in Nat /\ chan'[d].Tail \in Nat
      /\ Cur \in Channels /\ Len(cons.batch) \in Nat /\ cons.max \in Nat /\ cons.tail \in Nat
      /\ cons \in Consumers
  BY RingNats, CurTyped DEF TypeInv
<1>1. CASE Producer
  <2>1. cons' = cons /\ Cur' = Cur
    BY <1>1, ProducerApart DEF Cur
  <2>2. /\ chan'[Cur].Tail = chan[Cur].Tail /\ chan[Cur].Head <= chan'[Cur].Head
        /\ \A i \in chan[Cur].Tail .. chan[Cur].Head - 1 :
             chan'[Cur].Slots[i % Size] = chan[Cur].Slots[i % Size]
    BY <1>0, <1>1, ProducerApart
  <2>3. /\ chan[Cur].Head \in Nat /\ chan'[Cur].Head \in Nat /\ chan[Cur].Tail \in Nat
    BY <1>0
  <2>4. CASE cons.pc \in {"slot", "tail"}
    <3>1. cons.tail = chan[Cur].Tail /\ chan[Cur].Tail < chan[Cur].Head
      BY <2>4 DEF ConsInv
    <3>2. cons.tail \in chan[Cur].Tail .. chan[Cur].Head - 1
      BY <2>3, <3>1
    <3>3. cons.tail = chan'[Cur].Tail /\ chan'[Cur].Tail < chan'[Cur].Head
      BY <2>2, <2>3, <3>1
    <3>4. chan'[Cur].Slots[cons.tail % Size] = chan[Cur].Slots[cons.tail % Size]
      BY <2>2, <3>2
    <3>5. QED
      BY <2>1, <2>4, <3>3, <3>4 DEF ConsInv
  <2>5. CASE cons.pc = "copy"
    <3>1. /\ cons.max >= 1 /\ cons.tail = chan[Cur].Tail /\ cons.tail + cons.max <= chan[Cur].Head
          /\ Len(cons.batch) <= cons.max
          /\ \A j \in 1 .. Len(cons.batch) : cons.batch[j] = chan[Cur].Slots[(cons.tail + j - 1) % Size]
      BY <2>5 DEF ConsInv
    <3>2. \A j \in 1 .. Len(cons.batch) : cons.tail + j - 1 \in chan[Cur].Tail .. chan[Cur].Head - 1
      BY <1>0, <2>3, <3>1
    <3>3. \A j \in 1 .. Len(cons.batch) : cons.batch[j] = chan'[Cur].Slots[(cons.tail + j - 1) % Size]
      BY <2>2, <3>1, <3>2
    <3>4. cons.tail = chan'[Cur].Tail /\ cons.tail + cons.max <= chan'[Cur].Head
      BY <1>0, <2>2, <2>3, <3>1
    <3>5. QED
      BY <2>1, <2>5, <3>1, <3>3, <3>4 DEF ConsInv
  <2>6. CASE cons.pc \notin {"slot", "tail", "copy"}
    BY <2>1, <2>6 DEF ConsInv
  <2>7. QED
    BY <2>4, <2>5, <2>6
<1>2. CASE UNCHANGED cons /\ UNCHANGED chan
  BY <1>2 DEF ConsInv, Cur
<1>3. ASSUME NEW n \in 0 .. MaxBatch, Poll(n) PROVE ConsInv'
  <2>1. /\ cons'.pc = (IF n > 0 THEN "scan" ELSE "rules") /\ cons'.max = n /\ cons'.batch = << >>
    BY <1>3, PollEffect
  <2>2. Len(cons'.batch) = 0 /\ n >= 0 /\ (n > 0 \/ n = 0)
    BY <2>1, ContextAssumption
  <2>3. Len(cons'.batch) <= cons'.max /\ (cons'.pc = "scan" => Len(cons'.batch) < cons'.max)
        /\ cons'.pc \in {"scan", "rules"}
    BY <2>1, <2>2
  <2>4. QED
    BY <2>3 DEF ConsInv
<1>4. CASE ReadLoad
  <2>1. CASE cons' = Advance(cons)
    <3>1. cons'.batch = cons.batch /\ cons'.max = cons.max /\ cons'.pc \in {"scan", "rules"}
      BY <1>0, <2>1, AdvanceTyped
    <3>2. Len(cons.batch) < cons.max
      BY <1>4 DEF ReadLoad, ConsInv
    <3>3. QED
      BY <1>0, <3>1, <3>2 DEF ConsInv
  <2>2. CASE chan[Cur].Tail < chan[Cur].Head /\ cons' = [cons EXCEPT !.pc = "slot", !.tail = chan[Cur].Tail]
    <3>1. /\ cons'.pc = "slot" /\ cons'.tail = chan[Cur].Tail /\ cons'.k = cons.k /\ cons'.max = cons.max
          /\ cons'.batch = cons.batch
      BY <2>2, FoundEffect
    <3>2. Len(cons.batch) < cons.max /\ chan' = chan
      BY <1>4 DEF ReadLoad, ConsInv
    <3>3. Cur' = Cur
      BY <3>1 DEF Cur
    <3>4. QED
      BY <1>0, <2>2, <3>1, <3>2, <3>3 DEF ConsInv
  <2>3. QED
    BY <1>4, <2>1, <2>2 DEF ReadLoad
<1>5. CASE ReadSlot
  <2>1. /\ cons'.pc = "tail" /\ cons'.tail = cons.tail /\ cons'.k = cons.k /\ cons'.max = cons.max
        /\ cons'.ev = chan[Cur].Slots[cons.tail % Size] /\ cons'.batch = cons.batch
    BY <1>5, ReadSlotEffect
  <2>2. Len(cons.batch) < cons.max /\ chan' = chan /\ cons.tail = chan[Cur].Tail /\ chan[Cur].Tail < chan[Cur].Head
    BY <1>5 DEF ReadSlot, ConsInv
  <2>3. Cur' = Cur
    BY <2>1 DEF Cur
  <2>4. QED
    BY <1>0, <2>1, <2>2, <2>3 DEF ConsInv
<1>6. CASE ReadTail
  <2>1. cons'.batch = Append(cons.batch, cons.ev) /\ cons'.max = cons.max /\ cons'.pc \in {"scan", "rules"}
    BY <1>6, ReadTailEffect
  <2>2. Len(cons.batch) < cons.max
    BY <1>6 DEF ReadTail, ConsInv
  <2>3. Len(cons'.batch) = Len(cons.batch) + 1
    BY <1>0, <2>1 DEF Consumers
  <2>4. Len(cons'.batch) <= cons'.max
    BY <1>0, <2>1, <2>2, <2>3
  <2>5. cons'.pc = "scan" => Len(cons'.batch) < cons'.max
    <3>1. PICK st : st = [cons EXCEPT !.batch = Append(cons.batch, cons.ev)]
      OBVIOUS
    <3>2. st \in Consumers /\ st.batch = cons'.batch /\ st.max = cons'.max
      BY <2>1, <3>1, TakenTyped
    <3>3. cons' = Advance(st)
      BY <1>6, <3>1 DEF ReadTail
    <3>4. QED
      BY <3>2, <3>3, AdvanceCases
  <2>6. QED
    BY <2>1, <2>4, <2>5 DEF ConsInv
<1>7. CASE EvalRules
  <2>1. Len(cons'.batch) = Len(cons.batch) /\ cons'.max = cons.max /\ cons'.pc = "correlate"
    BY <1>7, EvalRulesEffect
  <2>2. QED
    BY <2>1 DEF ConsInv
<1>8. CASE Correlate
  <2>1. cons'.batch = cons.batch /\ cons'.max = cons.max /\ cons'.pc = "correlate"
    BY <1>8, CorrelateEffect
  <2>2. QED
    BY <2>1 DEF ConsInv
<1>9. CASE PollReturn \/ BatchReturn
  <2>1. cons'.batch = << >> /\ cons'.max = 0 /\ cons'.pc = "idle"
    BY <1>9, IdleEffect DEF PollReturn, BatchReturn
  <2>2. Len(cons'.batch) = 0
    BY <2>1
  <2>3. QED
    BY <2>1, <2>2 DEF ConsInv
<1>10. ASSUME NEW k \in 1 .. Len(ChannelOrder), NEW n \in 1 .. MaxBatch, BatchLoad(k, n) PROVE ConsInv'
  <2> DEFINE c == ChannelOrder[k]
  <2>1. /\ cons'.pc = "copy" /\ cons'.k = k /\ cons'.tail = chan[c].Tail /\ cons' \in Consumers
        /\ cons'.batch = << >> /\ cons'.max >= 1 /\ chan[c].Tail + cons'.max <= chan[c].Head
    BY <1>10, BatchLoadEffect
  <2>2. Len(cons'.batch) = 0 /\ cons'.max \in Nat
    BY <2>1 DEF Consumers
  <2>3. Cur' = c /\ chan' = chan
    BY <1>10, <2>1 DEF Cur, BatchLoad
  <2>4. QED
    BY <2>1, <2>2, <2>3 DEF ConsInv
<1>11. CASE BatchSlot
  <2> DEFINE e == chan[Cur].Slots[(cons.tail + Len(cons.batch)) % Size]
  <2>1. /\ cons'.pc = "copy" /\ cons'.tail = cons.tail /\ cons'.k = cons.k /\ cons'.max = cons.max
        /\ cons'.batch = Append(cons.batch, e) /\ cons.batch \in Seq(Observations)
    BY <1>0, <1>11, BatchSlotEffect DEF Consumers
  <2>2. /\ cons.max >= 1 /\ cons.tail = chan[Cur].Tail /\ cons.tail + cons.max <= chan[Cur].Head
        /\ Len(cons.batch) < cons.max /\ chan' = chan
        /\ \A j \in 1 .. Len(cons.batch) : cons.batch[j] = chan[Cur].Slots[(cons.tail + j - 1) % Size]
    BY <1>11 DEF BatchSlot, ConsInv
  <2>3. Cur' = Cur
    BY <2>1 DEF Cur
  <2>4. Len(cons'.batch) = Len(cons.batch) + 1
    BY <2>1
  <2>5. ASSUME NEW j \in 1 .. Len(cons'.batch)
        PROVE  cons'.batch[j] = chan[Cur].Slots[(cons.tail + j - 1) % Size]
    <3>1. CASE j = Len(cons.batch) + 1
      <4>1. cons'.batch[j] = e
        BY <1>0, <2>1, <3>1
      <4>2. cons.tail + j - 1 = cons.tail + Len(cons.batch)
        BY <1>0, <3>1
      <4>3. QED
        BY <4>1, <4>2
    <3>2. CASE j # Len(cons.batch) + 1
      <4>1. j \in 1 .. Len(cons.batch)
        BY <1>0, <2>4, <3>2
      <4>2. cons'.batch[j] = cons.batch[j]
        BY <2>1, <4>1
      <4>3. QED
        BY <2>2, <4>1, <4>2
    <3>3. QED
      BY <3>1, <3>2
  <2>6. Len(cons'.batch) <= cons.max
    BY <1>0, <2>2, <2>4
  <2>7. QED
    BY <2>1, <2>2, <2>3, <2>5, <2>6 DEF ConsInv
<1>12. CASE BatchTail
  <2>1. cons'.batch = cons.batch /\ cons'.max = cons.max /\ cons'.pc = "taken"
    BY <1>12, BatchTailEffect
  <2>2. QED
    BY <2>1 DEF ConsInv
<1>13. CASE Start \/ Stop \/ UNCHANGED vars
  BY <1>2, <1>13 DEF Start, Stop, vars
<1>14. QED
  BY <1>1, <1>3, <1>4, <1>5, <1>6, <1>7, <1>8, <1>9, <1>10, <1>11, <1>12, <1>13
     DEF Next, Consumer

-----------------------------------------------------------------------------
(* The poll is fair to the channels.                                       *)
LEMMA AdvancePasses ==
  ASSUME NEW st \in Consumers, Passed(st, st.k)
  PROVE  LET a == Advance(st) IN
         /\ a.pc = "scan" => Passed(a, a.k - 1)
         /\ a.pc = "rules" /\ a.max >= 4 => \A k \in 1 .. 4 : Due(a, k)
<1> DEFINE a == Advance(st)
<1>1. /\ a.batch = st.batch /\ a.max = st.max /\ a.due = st.due
      /\ \A k \in 1 .. 4 : Due(st, k) => Due(a, k)
  BY AdvanceTyped DEF Due, Served
<1>2. Len(st.batch) \in Nat /\ st.max \in Nat /\ st.k \in 1 .. 4 /\ st.before \in Nat
  BY DEF Consumers
<1>3. CASE Len(st.batch) >= st.max /\ a.pc = "rules"
  <2>1. CASE st.max < 4
    BY <1>1, <1>2, <1>3, <2>1
  <2>2. CASE st.max >= 4 /\ st.before = 0
    <3>1. st.k = 4
      BY <1>2, <1>3, <2>2 DEF Passed
    <3>2. \A k \in 1 .. 4 : k <= st.k
      BY <3>1
    <3>3. \A k \in 1 .. 4 : Due(st, k)
      BY <2>2, <3>2 DEF Passed
    <3>4. QED
      BY <1>1, <1>3, <3>3
  <2>3. CASE st.before # 0
    BY <1>1, <1>3, <2>3 DEF Passed
  <2>4. QED
    BY <1>2, <2>1, <2>2, <2>3
<1>4. CASE st.k < 4 /\ a.pc = "scan" /\ a.k = st.k + 1 /\ a.before = st.before
  <2>1. a.k - 1 = st.k
    BY <1>2, <1>4
  <2>2. Passed(a, st.k)
    BY <1>1, <1>4 DEF Passed
  <2>3. QED
    BY <1>4, <2>1, <2>2
<1>5. CASE st.k = 4
  <2>1. \A k \in 1 .. 4 : Due(a, k)
    <3>1. \A k \in 1 .. 4 : k <= st.k
      BY <1>5
    <3>2. QED
      BY <1>1, <3>1 DEF Passed
  <2>2. CASE a.pc = "rules"
    BY <2>1, <2>2
  <2>3. CASE a.pc = "scan" /\ a.k = 1 /\ a.before = Len(st.batch)
    <3>1. a.k - 1 = 0 /\ (a.before = 0 => Len(a.batch) <= 0)
      BY <1>1, <1>2, <2>3
    <3>2. Passed(a, 0)
      BY <2>1, <3>1 DEF Passed
    <3>3. QED
      BY <2>3, <3>1, <3>2
  <2>4. QED
    BY <1>2, <1>5, <2>2, <2>3, AdvanceCases
<1>6. QED
  BY <1>3, <1>4, <1>5, AdvanceCases

LEMMA ServeKept ==
  ASSUME TypeInv, ProdInv, ContentsInv, ConsInv, ServeInv, [Next]_vars, TypeInv'
  PROVE  ServeInv'
<1>0. /\ \A d \in Channels : chan[d].Head \in Nat /\ chan[d].Tail \in Nat
      /\ \A d \in Channels : chan'[d].Head \in Nat /\ chan'[d].Tail \in Nat
      /\ Cur \in Channels /\ Cur = ChannelOrder[cons.k] /\ Len(cons.batch) \in Nat /\ cons.k \in 1 .. 4
      /\ cons \in Consumers /\ cons.due \subseteq Channels
  BY RingNats, CurTyped DEF TypeInv, Cur, Consumers
<1>1. CASE Producer
  <2>1. cons' = cons
    BY <1>1, ProducerApart
  <2>2. \A d \in Channels : chan[d].Tail < chan[d].Head => chan'[d].Tail < chan'[d].Head
    BY <1>0, <1>1, ProducerApart
  <2>3. QED
    BY <1>0, <2>1, <2>2 DEF ServeInv
<1>2. CASE UNCHANGED cons /\ UNCHANGED chan
  BY <1>2 DEF ServeInv
<1>3. ASSUME NEW n \in 0 .. MaxBatch, Poll(n) PROVE ServeInv'
  <2>1. /\ cons'.pc = (IF n > 0 THEN "scan" ELSE "rules") /\ cons'.max = n /\ cons'.batch = << >>
        /\ cons'.k = 1 /\ cons'.before = 0 /\ cons'.due = { c \in Channels : chan[c].Tail < chan[c].Head }
    BY <1>3, PollEffect
  <2>2. chan' = chan /\ n \in Nat /\ Len(cons'.batch) = 0
    BY <1>3, <2>1, ContextAssumption DEF Poll
  <2>3. cons'.k - 1 = 0 /\ \A k \in 1 .. 4 : ~(k <= 0)
    BY <2>1
  <2>4. Passed(cons', cons'.k - 1)
    BY <2>1, <2>2, <2>3 DEF Passed
  <2>5. \A c \in cons'.due : chan'[c].Tail < chan'[c].Head
    BY <2>1, <2>2
  <2>6. ~(cons'.pc = "rules" /\ cons'.max >= 4)
    BY <2>1, <2>2
  <2>7. QED
    BY <2>4, <2>5, <2>6 DEF ServeInv
<1>4. CASE ReadLoad
  <2>1. /\ cons.pc = "scan" /\ Passed(cons, cons.k - 1) /\ chan' = chan
        /\ \A c \in cons.due : Served(cons, c) \/ chan[c].Tail < chan[c].Head
    BY <1>4 DEF ReadLoad, ServeInv
  <2>2. CASE chan[Cur].Tail >= chan[Cur].Head /\ cons' = Advance(cons)
    <3>1. Due(cons, cons.k)
      <4>1. ~(chan[Cur].Tail < chan[Cur].Head)
        BY <1>0, <2>2
      <4>2. QED
        BY <1>0, <2>1, <4>1 DEF Due
    <3>2. Passed(cons, cons.k)
      <4>1. \A k \in 1 .. 4 : k <= cons.k => k <= cons.k - 1 \/ k = cons.k
        BY <1>0
      <4>2. Len(cons.batch) <= cons.k - 1 => Len(cons.batch) <= cons.k
        BY <1>0
      <4>3. QED
        BY <2>1, <3>1, <4>1, <4>2 DEF Passed
    <3>3. /\ cons'.pc = "scan" => Passed(cons', cons'.k - 1)
          /\ cons'.pc = "rules" /\ cons'.max >= 4 => \A k \in 1 .. 4 : Due(cons', k)
      BY <1>0, <2>2, <3>2, AdvancePasses
    <3>4. cons'.pc \in {"scan", "rules"} /\ cons'.batch = cons.batch /\ cons'.due = cons.due
      BY <1>0, <2>2, AdvanceTyped
    <3>5. \A c \in cons'.due : Served(cons', c) \/ chan'[c].Tail < chan'[c].Head
      BY <2>1, <3>4 DEF Served
    <3>6. QED
      BY <3>3, <3>4, <3>5 DEF ServeInv
  <2>3. CASE cons' = [cons EXCEPT !.pc = "slot", !.tail = chan[Cur].Tail]
    <3>1. /\ cons'.pc = "slot" /\ cons'.k = cons.k /\ cons'.before = cons.before
          /\ cons'.batch = cons.batch /\ cons'.due = cons.due
      BY <2>3, FoundEffect
    <3>2. QED
      BY <2>1, <3>1 DEF ServeInv, Passed, Due, Served
  <2>4. QED
    BY <1>4, <2>2, <2>3 DEF ReadLoad
<1>5. CASE ReadSlot
  <2>1. /\ cons.pc = "slot" /\ Passed(cons, cons.k - 1) /\ chan' = chan
        /\ \A c \in cons.due : Served(cons, c) \/ chan[c].Tail < chan[c].Head
    BY <1>5 DEF ReadSlot, ServeInv
  <2>2. /\ cons'.pc = "tail" /\ cons'.k = cons.k /\ cons'.before = cons.before
        /\ cons'.batch = cons.batch /\ cons'.due = cons.due
    BY <1>5, ReadSlotEffect
  <2>3. QED
    BY <2>1, <2>2 DEF ServeInv, Passed, Due, Served
<1>6. CASE ReadTail
  <2>1. /\ cons.pc = "tail" /\ Passed(cons, cons.k - 1)
        /\ \A c \in cons.due : Served(cons, c) \/ chan[c].Tail < chan[c].Head
    BY <1>6 DEF ReadTail, ServeInv
  <2>2. ChannelOf(cons.ev.subsystem) = Cur
    <3>1. /\ cons.ev = chan[Cur].Slots[cons.tail % Size] /\ cons.tail = chan[Cur].Tail
          /\ chan[Cur].Tail < chan[Cur].Head
      BY <2>1 DEF ConsInv
    <3>2. cons.tail \in chan[Cur].Tail .. chan[Cur].Head - 1
      BY <1>0, <3>1
    <3>3. QED
      BY <1>0, <3>1, <3>2 DEF ContentsInv
  <2>3. PICK st : st = [cons EXCEPT !.batch = Append(cons.batch, cons.ev)]
    OBVIOUS
  <2>4. /\ st \in Consumers /\ st.batch = Append(cons.batch, cons.ev) /\ st.k = cons.k
        /\ st.before = cons.before /\ st.due = cons.due /\ cons.batch \in Seq(Observations)
    BY <1>0, <2>3, TakenTyped DEF Consumers
  <2>5. /\ Len(st.batch) = Len(cons.batch) + 1 /\ st.batch[Len(cons.batch) + 1] = cons.ev
        /\ \A j \in 1 .. Len(cons.batch) : st.batch[j] = cons.batch[j]
    BY <2>4
  <2>6. Served(st, Cur) /\ \A c : Served(cons, c) => Served(st, c)
    <3>1. Len(cons.batch) + 1 \in 1 .. Len(st.batch)
      BY <1>0, <2>5
    <3>2. 1 .. Len(cons.batch) \subseteq 1 .. Len(st.batch)
      BY <1>0, <2>5
    <3>3. QED
      BY <2>2, <2>5, <3>1, <3>2 DEF Served
  <2>7. Passed(st, st.k)
    <3>1. \A k \in 1 .. 4 : k <= cons.k => k <= cons.k - 1 \/ k = cons.k
      BY <1>0
    <3>2. Len(cons.batch) <= cons.k - 1 => Len(st.batch) <= cons.k
      BY <1>0, <2>5
    <3>3. \A k \in 1 .. 4 : Due(cons, k) => Due(st, k)
      BY <2>4, <2>6 DEF Due
    <3>4. Due(st, cons.k)
      BY <1>0, <2>6 DEF Due
    <3>5. QED
      BY <2>1, <2>4, <3>1, <3>2, <3>3, <3>4 DEF Passed
  <2>8. cons' = Advance(st)
    BY <1>6, <2>3 DEF ReadTail
  <2>9. /\ cons'.pc = "scan" => Passed(cons', cons'.k - 1)
        /\ cons'.pc = "rules" /\ cons'.max >= 4 => \A k \in 1 .. 4 : Due(cons', k)
    BY <2>4, <2>7, <2>8, AdvancePasses
  <2>10. cons'.pc \in {"scan", "rules"} /\ cons'.batch = st.batch /\ cons'.due = cons.due
    BY <2>4, <2>8, AdvanceTyped
  <2>11. \A c \in cons'.due : Served(cons', c) \/ chan'[c].Tail < chan'[c].Head
    <3>1. SUFFICES ASSUME NEW c \in cons.due, ~ Served(st, c) PROVE chan'[c].Tail < chan'[c].Head
      BY <2>10 DEF Served
    <3>2. c # Cur /\ chan[c].Tail < chan[c].Head
      BY <2>1, <2>6, <3>1
    <3>3. chan'[c] = chan[c]
      BY <1>0, <1>6, <3>2, ReadTailEffect DEF OtherRings
    <3>4. QED
      BY <3>2, <3>3
  <2>12. QED
    BY <2>9, <2>10, <2>11 DEF ServeInv
<1>7. CASE cons'.pc \notin {"scan", "slot", "tail", "rules"}
  BY <1>7 DEF ServeInv
<1>8. CASE EvalRules \/ Correlate \/ PollReturn \/ BatchReturn \/ BatchSlot \/ BatchTail
  BY <1>7, <1>8, EvalRulesEffect, CorrelateEffect, IdleEffect, BatchSlotEffect, BatchTailEffect
     DEF PollReturn, BatchReturn
<1>9. ASSUME NEW k \in 1 .. Len(ChannelOrder), NEW n \in 1 .. MaxBatch, BatchLoad(k, n) PROVE ServeInv'
  BY <1>7, <1>9, BatchLoadEffect
<1>10. CASE Start \/ Stop \/ UNCHANGED vars
  BY <1>2, <1>10 DEF Start, Stop, vars
<1>11. QED
  BY <1>1, <1>3, <1>4, <1>5, <1>6, <1>8, <1>9, <1>10 DEF Next, Consumer

-----------------------------------------------------------------------------
(* The verdict bit and the correlations.                                   *)
LEMMA RuledSettled == ASSUME NEW e \in Observations PROVE Settled(Ruled(e))
<1> DEFINE f == e.Flags \cup Raised(e)
<1>1. CASE f \cap Veto # {}
  <2>1. Ruled(e).Flags = f \ {"ok"}
    BY <1>1 DEF Ruled, Observations
  <2>2. QED
    BY <1>1, <2>1 DEF Settled, Veto
<1>2. CASE f \cap Veto = {}
  <2>1. Ruled(e).Flags = f \cup {"ok"}
    BY <1>2 DEF Ruled, Observations
  <2>2. QED
    BY <1>2, <2>1 DEF Settled, Veto
<1>3. QED
  BY <1>1, <1>2

(* What the correlator hands back: the observation, with the correlated    *)
(* bit its own decision.                                                   *)
LEMMA CorrelatedFields ==
  ASSUME NEW n, NEW e \in Observations
  PROVE  LET d == Correlated(n, e) IN
         /\ d.Pid = e.Pid /\ d.Ts = e.Ts /\ d.subsystem = e.subsystem /\ d.Action = e.Action
         /\ \/ /\ e.Pid # 0 /\ Hostile(e) /\ Tracked(n, e).score >= 100
               /\ d.Flags = (e.Flags \cup {"anomaly", "correlated"}) \ {"ok"}
            \/ d.Flags = e.Flags \ {"correlated"}
<1>1. CASE e.Pid # 0 /\ Hostile(e) /\ Tracked(n, e).score >= 100
  <2>1. Correlated(n, e) = [e EXCEPT !.Flags = (e.Flags \cup {"anomaly", "correlated"}) \ {"ok"}]
    BY <1>1 DEF Correlated
  <2>2. QED
    BY <1>1, <2>1 DEF Observations
<1>2. CASE ~(e.Pid # 0 /\ Hostile(e) /\ Tracked(n, e).score >= 100)
  <2>1. Correlated(n, e) = [e EXCEPT !.Flags = e.Flags \ {"correlated"}]
    BY <1>2 DEF Correlated
  <2>2. QED
    BY <2>1 DEF Observations
<1>3. QED
  BY <1>1, <1>2

LEMMA CorrelatedKeeps ==
  ASSUME NEW n, NEW e \in Observations
  PROVE  /\ Settled(e) => Settled(Correlated(n, e))
         /\ Hostile(e) => Hostile(Correlated(n, e))
<1> DEFINE d == Correlated(n, e)
<1>1. d.subsystem = e.subsystem /\ d.Action = e.Action
  BY CorrelatedFields
<1>2. \/ d.Flags = (e.Flags \cup {"anomaly", "correlated"}) \ {"ok"}
      \/ d.Flags = e.Flags \ {"correlated"}
  BY CorrelatedFields
<1> HIDE DEF d
<1>3. Settled(e) => Settled(d)
  BY <1>2 DEF Settled, Veto
<1>4. Hostile(e) => Hostile(d)
  <2>1. \A b \in {"lolbas", "blocked", "anomaly", "beaconing", "suspiciousMCP", "drift", "crypto"} :
          b \in e.Flags => b \in d.Flags
    BY <1>2
  <2>2. QED
    BY <1>1, <2>1 DEF Hostile, Veto
<1>5. QED
  BY <1>3, <1>4 DEF d

LEMMA SettledKept ==
  ASSUME TypeInv, SettledInv, [Next]_vars, TypeInv'
  PROVE  SettledInv'
<1>1. CASE Correlate
  <2> DEFINE e == cons.batch[cons.i]  x == e.Pid % Entries  d == Correlated(table[x], e)
  <2>1. /\ cons.i \in 1 .. Len(cons.batch) /\ e \in Observations /\ delivered' = Append(delivered, d)
        /\ cons'.batch = cons.batch /\ cons.pc = "correlate" /\ d \in Observations
    BY <1>1, CorrelateEffect DEF Correlate
  <2>2. Settled(d)
    BY <2>1, CorrelatedKeeps DEF SettledInv
  <2> HIDE DEF d, x, e
  <2>3. \A j \in 1 .. Len(delivered') : Settled(delivered'[j])
    BY <2>1, <2>2 DEF SettledInv, TypeInv
  <2>4. QED
    BY <2>1, <2>3 DEF SettledInv
<1>2. CASE EvalRules
  <2>1. /\ Len(cons'.batch) = Len(cons.batch) /\ delivered' = delivered
        /\ \A j \in 1 .. Len(cons.batch) : cons'.batch[j] = Ruled(cons.batch[j])
    BY <1>2, EvalRulesEffect DEF EvalRules
  <2>2. \A j \in 1 .. Len(cons.batch) : Settled(Ruled(cons.batch[j]))
    BY CurTyped, RuledSettled
  <2>3. QED
    BY <2>1, <2>2 DEF SettledInv
<1>3. CASE UNCHANGED delivered /\ cons'.pc # "correlate"
  BY <1>3 DEF SettledInv
<1>4. CASE UNCHANGED <<delivered, cons>>
  BY <1>4 DEF SettledInv
<1>5. CASE Producer
  BY <1>4, <1>5 DEF Producer, Inject, InjectSlot, InjectHead
<1>6. CASE Start \/ Stop \/ UNCHANGED vars
  BY <1>4, <1>6 DEF Start, Stop, vars
<1>7. ASSUME NEW n \in 0 .. MaxBatch, Poll(n) PROVE SettledInv'
  <2>1. cons'.pc # "correlate"
    BY <1>7, PollEffect
  <2>2. UNCHANGED delivered
    BY <1>7 DEF Poll
  <2>3. QED
    BY <1>3, <2>1, <2>2
<1>8. CASE ReadLoad
  <2>1. cons \in Consumers
    BY DEF TypeInv
  <2>2. cons'.pc # "correlate" /\ UNCHANGED delivered
    BY <1>8, <2>1, AdvanceTyped, FoundEffect DEF ReadLoad
  <2>3. QED
    BY <1>3, <2>2
<1>9. CASE ReadSlot
  BY <1>3, <1>9, ReadSlotEffect DEF ReadSlot
<1>10. CASE ReadTail
  BY <1>3, <1>10, ReadTailEffect DEF ReadTail
<1>11. CASE PollReturn \/ BatchReturn
  BY <1>3, <1>11, IdleEffect DEF PollReturn, BatchReturn
<1>12. ASSUME NEW k \in 1 .. Len(ChannelOrder), NEW n \in 1 .. MaxBatch, BatchLoad(k, n) PROVE SettledInv'
  BY <1>3, <1>12, BatchLoadEffect DEF BatchLoad
<1>13. CASE BatchSlot
  BY <1>3, <1>13, BatchSlotEffect DEF BatchSlot
<1>14. CASE BatchTail
  BY <1>3, <1>14, BatchTailEffect DEF BatchTail
<1>15. QED
  BY <1>1, <1>2, <1>5, <1>6, <1>7, <1>8, <1>9, <1>10, <1>11, <1>12, <1>13, <1>14 DEF Next, Consumer

(* The entry an observation leaves behind.                                 *)
LEMMA TrackedFields ==
  ASSUME NEW n \in TrackerEntries, NEW e \in Observations
  PROVE  LET m == Tracked(n, e) IN
         /\ m.Pid = e.Pid /\ m.Last_ts \in Nat /\ m.Last_ts <= e.Ts /\ e.Ts < m.Last_ts + Window
         /\ \/ /\ m.Last_ts = e.Ts
               /\ \/ Hostile(e) /\ m.subsystems = {e.subsystem} /\ m.score = 50
                  \/ ~ Hostile(e) /\ m.subsystems = {} /\ m.score = 0
            \/ /\ n.Pid = e.Pid /\ m.Last_ts = n.Last_ts
               /\ \/ /\ Hostile(e) /\ e.subsystem \notin n.subsystems
                     /\ m.subsystems = n.subsystems \cup {e.subsystem} /\ m.score = n.score + 50
                  \/ m.subsystems = n.subsystems /\ m.score = n.score
<1> DEFINE base == IF Fresh(n, e) THEN [NoEntry EXCEPT !.Pid = e.Pid, !.Last_ts = e.Ts] ELSE n
           new  == Hostile(e) /\ e.subsystem \notin base.subsystems
           m    == Tracked(n, e)
<1>0. /\ e.Pid \in Nat /\ e.Ts \in Nat /\ Window \in Nat /\ Window > 0
      /\ n.Pid \in Nat /\ n.Last_ts \in Nat /\ n.Event_count \in Nat
  BY ContextAssumption DEF Observations, TrackerEntries
<1>1. base \in TrackerEntries
  BY <1>0 DEF NoEntry, TrackerEntries
<1>2. /\ m.Pid = base.Pid /\ m.Last_ts = base.Last_ts
      /\ m.subsystems = IF new THEN base.subsystems \cup {e.subsystem} ELSE base.subsystems
      /\ m.score = IF new THEN base.score + 50 ELSE base.score
  <2>1. m = [base EXCEPT !.Event_count = IF @ < CountMax THEN @ + 1 ELSE @,
                         !.subsystems = IF new THEN @ \cup {e.subsystem} ELSE @,
                         !.score = IF new THEN @ + 50 ELSE @]
    BY DEF Tracked
  <2> HIDE DEF base, new, m
  <2>2. QED
    BY <1>1, <2>1 DEF TrackerEntries
<1>3. CASE Fresh(n, e)
  <2>1. base.Pid = e.Pid /\ base.Last_ts = e.Ts /\ base.subsystems = {} /\ base.score = 0
    BY <1>3 DEF NoEntry
  <2> HIDE DEF base, m
  <2>2. new <=> Hostile(e)
    BY <2>1
  <2>3. /\ m.Pid = e.Pid /\ m.Last_ts = e.Ts
        /\ \/ Hostile(e) /\ m.subsystems = {e.subsystem} /\ m.score = 50
           \/ ~ Hostile(e) /\ m.subsystems = {} /\ m.score = 0
    BY <1>2, <2>1, <2>2
  <2>4. m.Last_ts \in Nat /\ m.Last_ts <= e.Ts /\ e.Ts < m.Last_ts + Window
    BY <1>0, <2>3
  <2>5. QED
    BY <2>3, <2>4 DEF m
<1>4. CASE ~ Fresh(n, e)
  <2>1. base = n
    BY <1>4
  <2>2. n.Pid = e.Pid /\ n.Last_ts <= e.Ts /\ e.Ts < n.Last_ts + Window
    BY <1>0, <1>4 DEF Fresh
  <2> HIDE DEF base, m
  <2>3. /\ m.Pid = e.Pid /\ m.Last_ts = n.Last_ts
        /\ \/ /\ Hostile(e) /\ e.subsystem \notin n.subsystems
              /\ m.subsystems = n.subsystems \cup {e.subsystem} /\ m.score = n.score + 50
           \/ m.subsystems = n.subsystems /\ m.score = n.score
    BY <1>2, <2>1, <2>2
  <2>4. QED
    BY <1>0, <2>2, <2>3 DEF m
<1>5. QED
  BY <1>3, <1>4

LEMMA TrackedScored ==
  ASSUME NEW n \in TrackerEntries, NEW e \in Observations, Scored(n)
  PROVE  Scored(Tracked(n, e))
<1> DEFINE m == Tracked(n, e)
<1>1. CASE m.subsystems = {e.subsystem} /\ m.score = 50
  BY <1>1 DEF Scored
<1>2. CASE m.subsystems = {} /\ m.score = 0
  BY <1>2 DEF Scored
<1>3. CASE /\ e.subsystem \notin n.subsystems
           /\ m.subsystems = n.subsystems \cup {e.subsystem} /\ m.score = n.score + 50
  <2>1. m.subsystems # {}
    BY <1>3
  <2>2. ASSUME NEW s \in m.subsystems, m.subsystems \subseteq {s} PROVE m.score <= 50
    <3>1. n.subsystems = {}
      BY <1>3, <2>2
    <3>2. n.score = 0
      BY <3>1 DEF Scored
    <3>3. QED
      BY <1>3, <3>2
  <2>3. QED
    BY <2>1, <2>2 DEF Scored
<1>4. CASE m.subsystems = n.subsystems /\ m.score = n.score
  BY <1>4 DEF Scored
<1>5. QED
  BY <1>1, <1>2, <1>3, <1>4, TrackedFields

(* A raised correlation has a companion among what was handed back.        *)
LEMMA CorrelationHasCompanion ==
  ASSUME NEW n \in TrackerEntries, NEW e \in Observations, Scored(n), Hostile(e),
         Tracked(n, e).score >= 100
  PROVE  \E s \in n.subsystems : s # e.subsystem /\ n.Pid = e.Pid
                                 /\ n.Last_ts <= e.Ts /\ e.Ts < n.Last_ts + Window
<1> DEFINE m == Tracked(n, e)
<1>1. m.score \in Nat /\ n.score \in Nat /\ m.score >= 100
  BY TrackedTyped DEF TrackerEntries
<1>2. /\ n.Pid = e.Pid /\ m.Last_ts = n.Last_ts /\ m.Last_ts <= e.Ts /\ e.Ts < m.Last_ts + Window
      /\ \/ /\ Hostile(e) /\ e.subsystem \notin n.subsystems
            /\ m.subsystems = n.subsystems \cup {e.subsystem} /\ m.score = n.score + 50
         \/ m.subsystems = n.subsystems /\ m.score = n.score
  BY <1>1, TrackedFields
<1>3. n.score >= 50
  BY <1>1, <1>2
<1>4. n.subsystems # {}
  BY <1>3 DEF Scored
<1>5. \E s \in n.subsystems : s # e.subsystem
  <2>1. SUFFICES ASSUME n.subsystems \subseteq {e.subsystem} PROVE FALSE
    OBVIOUS
  <2>2. e.subsystem \in n.subsystems
    BY <1>4, <2>1
  <2>3. n.score <= 50 /\ m.score = n.score
    BY <1>2, <2>1, <2>2 DEF Scored
  <2>4. QED
    BY <1>1, <2>3
<1>6. QED
  BY <1>2, <1>5

LEMMA TrackerKept ==
  ASSUME TypeInv, TrackerInv, NoFalseCorrelation, [Next]_vars, TypeInv'
  PROVE  TrackerInv' /\ NoFalseCorrelation'
<1>1. CASE Correlate
  <2> DEFINE e == cons.batch[cons.i]  x == e.Pid % Entries  n == table[x]
             d == Correlated(n, e)  m == Tracked(n, e)  l == Len(delivered)
  <2>1. /\ e \in Observations /\ x \in 0 .. Entries - 1 /\ n \in TrackerEntries /\ m \in TrackerEntries
        /\ delivered' = Append(delivered, d) /\ d \in Observations
        /\ table' = IF e.Pid = 0 THEN table ELSE [table EXCEPT ![x] = m]
    BY <1>1, CorrelateEffect
  <2>2. /\ l \in Nat /\ Len(delivered') = l + 1 /\ delivered'[l + 1] = d
        /\ \A i \in 1 .. l : delivered'[i] = delivered[i] /\ delivered[i] \in Observations
        /\ 1 .. l \subseteq 1 .. l + 1
    <3>1. delivered \in Seq(Observations)
      BY DEF TypeInv
    <3>2. l \in Nat
      BY <3>1
    <3> HIDE DEF d
    <3>3. QED
      BY <2>1, <3>1, <3>2
  <2>3. Scored(n) /\ \A s \in n.subsystems : Witnessed(delivered, n, s)
    BY <2>1 DEF TrackerInv
  <2>4. d.Pid = e.Pid /\ d.Ts = e.Ts /\ d.subsystem = e.subsystem /\ (Hostile(e) => Hostile(d))
    BY SMTT(30), <2>1, CorrelatedFields, CorrelatedKeeps
  <2>5. /\ m.Pid = e.Pid /\ m.Last_ts <= e.Ts /\ e.Ts < m.Last_ts + Window
        /\ \/ m.subsystems = {}
           \/ Hostile(e) /\ m.subsystems = {e.subsystem}
           \/ /\ n.Pid = e.Pid /\ m.Last_ts = n.Last_ts
              /\ \/ Hostile(e) /\ m.subsystems = n.subsystems \cup {e.subsystem}
                 \/ m.subsystems = n.subsystems
    BY <2>1, TrackedFields
  <2>6. Scored(m)
    BY <2>1, <2>3, TrackedScored
  <2>7. "correlated" \in d.Flags => e.Pid # 0 /\ Hostile(e) /\ m.score >= 100
    BY SMTT(30), <2>1, CorrelatedFields
  <2>8. Hostile(e) /\ m.score >= 100 =>
          \E s \in n.subsystems : s # e.subsystem /\ n.Pid = e.Pid
                                 /\ n.Last_ts <= e.Ts /\ e.Ts < n.Last_ts + Window
    BY <2>1, <2>3, CorrelationHasCompanion
  <2>9. /\ e.Pid \in Nat /\ e.Ts \in Nat /\ n.Last_ts \in Nat /\ Window \in Nat
        /\ \A i \in 1 .. l : delivered[i].Ts \in Nat
    BY <2>1, <2>2, ContextAssumption DEF Observations, TrackerEntries
  <2> HIDE DEF d, m, n, x, e
  <2>10. ASSUME NEW t, NEW s, Witnessed(delivered, t, s) PROVE Witnessed(delivered', t, s)
    BY <2>2, <2>10 DEF Witnessed
  <2>11. TrackerInv'
    <3>1. CASE e.Pid = 0
      BY <2>1, <2>10, <3>1 DEF TrackerInv
    <3>2. CASE e.Pid # 0
      <4>1. table' = [table EXCEPT ![x] = m]
        BY <2>1, <3>2
      <4>2. Hostile(e) => Witnessed(delivered', m, e.subsystem)
        <5>1. l + 1 \in 1 .. Len(delivered')
          BY <2>2
        <5>2. QED
          BY <2>2, <2>4, <2>5, <3>2, <5>1 DEF Witnessed
      <4>3. ASSUME NEW s \in n.subsystems, n.Pid = e.Pid, m.Last_ts = n.Last_ts
            PROVE  Witnessed(delivered', m, s)
        <5>1. Witnessed(delivered, n, s)
          BY <2>3
        <5>2. Witnessed(delivered, m, s)
          BY <2>5, <4>3, <5>1 DEF Witnessed
        <5>3. QED
          BY <2>10, <5>2
      <4>4. \A s \in m.subsystems : Witnessed(delivered', m, s)
        BY <2>5, <4>2, <4>3
      <4>5. ASSUME NEW y \in 0 .. Entries - 1
            PROVE  Scored(table'[y]) /\ \A s \in table'[y].subsystems : Witnessed(delivered', table'[y], s)
        <5>1. CASE y = x
          <6>1. table'[y] = m
            BY <2>1, <4>1, <5>1 DEF TypeInv
          <6>2. QED
            BY <2>6, <4>4, <6>1
        <5>2. CASE y # x
          <6>1. table'[y] = table[y]
            BY <4>1, <5>2 DEF TypeInv
          <6>2. \A s \in table[y].subsystems : Witnessed(delivered, table[y], s)
            BY DEF TrackerInv
          <6>3. QED
            BY <2>10, <6>1, <6>2 DEF TrackerInv
        <5>3. QED
          BY <5>1, <5>2
      <4>6. QED
        BY <4>5 DEF TrackerInv, Scored
    <3>3. QED
      BY <3>1, <3>2
  <2>12. NoFalseCorrelation'
    <3>1. ASSUME "correlated" \in d.Flags
          PROVE  \E i \in 1 .. l : /\ delivered[i].Pid = d.Pid /\ delivered[i].Pid # 0
                                   /\ delivered[i].subsystem # d.subsystem
                                   /\ Hostile(delivered[i]) /\ Hostile(d)
                                   /\ delivered[i].Ts - d.Ts < Window /\ d.Ts - delivered[i].Ts < Window
      <4>1. PICK s \in n.subsystems : /\ s # e.subsystem /\ n.Pid = e.Pid
                                      /\ n.Last_ts <= e.Ts /\ e.Ts < n.Last_ts + Window
        BY <2>7, <2>8, <3>1
      <4>2. PICK i \in 1 .. l : /\ delivered[i].Pid = n.Pid /\ delivered[i].Pid # 0
                                /\ delivered[i].subsystem = s /\ Hostile(delivered[i])
                                /\ n.Last_ts <= delivered[i].Ts /\ delivered[i].Ts < n.Last_ts + Window
        BY <2>3 DEF Witnessed
      <4>3. delivered[i].Ts - e.Ts < Window /\ e.Ts - delivered[i].Ts < Window
        BY <2>9, <4>1, <4>2
      <4>4. QED
        BY <2>4, <2>7, <3>1, <4>1, <4>2, <4>3
    <3>2. SUFFICES ASSUME NEW j \in 1 .. Len(delivered'), "correlated" \in delivered'[j].Flags
                   PROVE  \E i \in 1 .. j - 1 :
                            /\ delivered'[i].Pid = delivered'[j].Pid /\ delivered'[i].Pid # 0
                            /\ delivered'[i].subsystem # delivered'[j].subsystem
                            /\ Hostile(delivered'[i]) /\ Hostile(delivered'[j])
                            /\ delivered'[i].Ts - delivered'[j].Ts < Window
                            /\ delivered'[j].Ts - delivered'[i].Ts < Window
      BY DEF NoFalseCorrelation, Hostile
    <3>3. CASE j = l + 1
      <4>1. delivered'[j] = d /\ 1 .. l = 1 .. j - 1
        BY <2>2, <3>3
      <4>2. QED
        BY <2>2, <3>1, <3>2, <4>1
    <3>4. CASE j # l + 1
      <4>1. j \in 1 .. l /\ 1 .. j - 1 \subseteq 1 .. l
        BY <2>2, <3>4
      <4>2. delivered'[j] = delivered[j]
        BY <2>2, <4>1
      <4>3. PICK i \in 1 .. j - 1 :
                            /\ delivered[i].Pid = delivered[j].Pid /\ delivered[i].Pid # 0
                            /\ delivered[i].subsystem # delivered[j].subsystem
                            /\ Hostile(delivered[i]) /\ Hostile(delivered[j])
                            /\ delivered[i].Ts - delivered[j].Ts < Window
                            /\ delivered[j].Ts - delivered[i].Ts < Window
        BY <3>2, <4>1, <4>2 DEF NoFalseCorrelation
      <4>4. QED
        BY <2>2, <4>1, <4>2, <4>3
    <3>5. QED
      BY <3>3, <3>4
  <2>13. QED
    BY <2>11, <2>12
<1>2. CASE UNCHANGED <<table, delivered>>
  BY <1>2 DEF TrackerInv, NoFalseCorrelation, Witnessed
<1>3. Correlate \/ UNCHANGED <<table, delivered>>
  BY DEF Next, Producer, Consumer, vars, Start, Stop, Inject, InjectSlot, InjectHead, Poll, ReadLoad,
         ReadSlot, ReadTail, EvalRules, PollReturn, BatchLoad, BatchSlot, BatchTail, BatchReturn
<1>4. QED
  BY <1>1, <1>2, <1>3

-----------------------------------------------------------------------------
(* The invariant is inductive, and what it implies.                        *)
LEMMA InitInv == Init => IInv
<1> SUFFICES ASSUME Init PROVE IInv
  OBVIOUS
<1>1. TypeInv
  BY InitTyped
<1>2. /\ \A c \in Channels : chan[c].Head = 0 /\ chan[c].Tail = 0
      /\ prod.pc = "idle" /\ injected = 0
  BY DEF Init
<1>3. cons.pc = "idle" /\ cons.batch = << >> /\ cons.max = 0
  BY DEF Init, IdleCons
<1>4. RingInv
  BY <1>2, ContextAssumption DEF RingInv
<1>5. ProdInv
  BY <1>2 DEF ProdInv
<1>6. ContentsInv
  BY <1>2 DEF ContentsInv
<1>7. ConsInv
  <2>1. Len(cons.batch) = 0
    BY <1>3
  <2>2. QED
    BY <1>3, <2>1 DEF ConsInv
<1>8. ServeInv
  BY <1>3 DEF ServeInv
<1>9. Len(delivered) = 0
  BY DEF Init
<1>10. SettledInv /\ NoFalseCorrelation
  BY <1>3, <1>9 DEF SettledInv, NoFalseCorrelation
<1>11. TrackerInv
  BY DEF Init, TrackerInv, Scored, NoEntry
<1>12. QED
  BY <1>1, <1>4, <1>5, <1>6, <1>7, <1>8, <1>10, <1>11 DEF IInv

LEMMA NextInv == IInv /\ [Next]_vars => IInv'
<1> SUFFICES ASSUME IInv, [Next]_vars PROVE IInv'
  OBVIOUS
<1>1. TypeInv'
  BY NextTyped DEF IInv
<1>2. RingInv' /\ ProdInv' /\ ContentsInv' /\ ConsInv'
  BY <1>1, RingKept, ProdKept, ContentsKept, ConsKept DEF IInv
<1>3. ServeInv' /\ SettledInv'
  BY <1>1, ServeKept, SettledKept DEF IInv
<1>4. TrackerInv' /\ NoFalseCorrelation'
  BY <1>1, TrackerKept DEF IInv
<1>5. QED
  BY <1>1, <1>2, <1>3, <1>4 DEF IInv

(* For every ring size and every interleaving of the two threads, the      *)
(* copies of C2bt_channel_write never meet those of C2bt_channel_read and  *)
(* C2bt_channel_read_batch in one slot.                                    *)
THEOREM SlotsNeverRace == Spec => []NoSlotRace
<1>1. IInv => NoSlotRace
  <2> SUFFICES ASSUME IInv, prod.pc = "slot", prod.c = Cur,
                      \/ cons.pc = "slot" /\ prod.head % Size = cons.tail % Size
                      \/ /\ cons.pc = "copy" /\ Len(cons.batch) < cons.max
                         /\ prod.head % Size = (cons.tail + Len(cons.batch)) % Size
               PROVE  FALSE
    BY DEF NoSlotRace
  <2>1. TypeInv /\ ProdInv /\ ConsInv /\ prod.pc # "idle"
    BY DEF IInv
  <2>2. /\ Cur \in Channels /\ Len(cons.batch) \in Nat /\ cons.tail \in Nat /\ cons.max \in Nat
        /\ chan[Cur].Head \in Nat /\ chan[Cur].Tail \in Nat
    BY <2>1, CurTyped, RingNats DEF TypeInv
  <2>3. CASE cons.pc = "slot" /\ prod.head % Size = cons.tail % Size
    <3>1. cons.tail = chan[Cur].Tail /\ chan[Cur].Tail < chan[Cur].Head
      BY <2>1, <2>3 DEF ConsInv
    <3>2. cons.tail \in chan[prod.c].Tail .. chan[prod.c].Head - 1
      BY <2>2, <3>1
    <3>3. QED
      BY <2>1, <2>3, <3>2, SlotFree
  <2>4. CASE /\ cons.pc = "copy" /\ Len(cons.batch) < cons.max
             /\ prod.head % Size = (cons.tail + Len(cons.batch)) % Size
    <3>1. cons.tail = chan[Cur].Tail /\ cons.tail + cons.max <= chan[Cur].Head
      BY <2>1, <2>4 DEF ConsInv
    <3>2. cons.tail + Len(cons.batch) \in chan[prod.c].Tail .. chan[prod.c].Head - 1
      BY <2>2, <2>4, <3>1
    <3>3. QED
      BY <2>1, <2>4, <3>2, SlotFree
  <2>5. QED
    BY <2>3, <2>4
<1>2. QED
  BY <1>1, InitInv, NextInv, PTL DEF Spec

(* For every set of observations, every table size and every window: what  *)
(* PollBatch hands back never carries the OK bit beside a veto, a          *)
(* correlation always has its companion, and a poll with room for one per  *)
(* channel leaves no waiting channel out.                                  *)
THEOREM PollsAreSound == Spec => []PollSound
<1>1. IInv => PollSound
  <2> SUFFICES ASSUME IInv PROVE PollSound
    OBVIOUS
  <2>1. TypeInv /\ RingInv /\ ConsInv /\ ServeInv /\ SettledInv /\ NoFalseCorrelation
    BY DEF IInv
  <2>2. TypeOK
    <3>1. running \in BOOLEAN
      BY <2>1 DEF TypeInv
    <3>2. \A c \in Channels :
            /\ chan[c].Head \in 0 .. MaxInject /\ chan[c].Tail \in 0 .. chan[c].Head
            /\ chan[c].Head - chan[c].Tail <= Size
      <4>1. injected \in 0 .. MaxInject /\ \A c \in Channels : chan[c].Head \in Nat /\ chan[c].Tail \in Nat
        BY <2>1, RingNats DEF TypeInv
      <4>2. QED
        BY <2>1, <4>1, ContextAssumption DEF RingInv
    <3>3. prod.pc \in {"idle", "slot", "head"} /\ prod.c \in Channels
      BY <2>1 DEF TypeInv, Producers
    <3>4. /\ cons.pc \in {"idle", "scan", "slot", "tail", "rules", "correlate", "copy", "taken"}
          /\ cons.k \in 1 .. Len(ChannelOrder)
      BY <2>1, FourChannels DEF TypeInv, Consumers
    <3>5. Len(cons.batch) <= cons.max
      BY <2>1 DEF ConsInv
    <3>6. QED
      BY <3>1, <3>2, <3>3, <3>4, <3>5 DEF TypeOK
  <2>3. VerdictConsistent
    BY <2>1 DEF SettledInv, Settled, VerdictConsistent
  <2>4. PollServesAll
    <3>1. SUFFICES ASSUME cons.pc = "rules", cons.max >= Len(ChannelOrder), NEW c \in cons.due
                   PROVE  Served(cons, c)
      BY DEF PollServesAll, Served
    <3>2. \A k \in 1 .. 4 : Due(cons, k)
      BY <2>1, <3>1, FourChannels DEF ServeInv
    <3>3. c \in Channels
      BY <2>1 DEF TypeInv, Consumers
    <3>4. \E k \in 1 .. 4 : c = ChannelOrder[k]
      BY <3>3 DEF Channels, ChannelOrder
    <3>5. QED
      BY <3>1, <3>2, <3>4 DEF Due
  <2>5. QED
    BY <2>1, <2>2, <2>3, <2>4 DEF PollSound, VerdictSound
<1>2. QED
  BY <1>1, InitInv, NextInv, PTL DEF Spec

-----------------------------------------------------------------------------
(* The rings implement the queues of ObservationFifo.  The contents of a   *)
(* ring as a sequence, and what the three kinds of stores do to it.        *)
LEMMA QueueFields ==
  ASSUME NEW r \in Rings, r.Tail <= r.Head
  PROVE  /\ r.Head \in Nat /\ r.Tail \in Nat /\ r.Head - r.Tail \in Nat
         /\ RingQueue(r) \in Seq(Observations) /\ Len(RingQueue(r)) = r.Head - r.Tail
         /\ \A j \in 1 .. r.Head - r.Tail : RingQueue(r)[j] = r.Slots[(r.Tail + j - 1) % Size]
<1>1. /\ r.Head \in Nat /\ r.Tail \in Nat /\ r.Slots \in [0 .. Size - 1 -> Observations]
  BY DEF Rings
<1>2. r.Head - r.Tail \in Nat
  BY <1>1
<1>3. \A j \in 1 .. r.Head - r.Tail : r.Tail + j - 1 \in Nat
  BY <1>1
<1>4. \A j \in 1 .. r.Head - r.Tail : r.Slots[(r.Tail + j - 1) % Size] \in Observations
  BY <1>1, <1>3, ModTyped
<1>5. QED
  BY <1>1, <1>2, <1>4 DEF RingQueue

LEMMA QueueSame ==
  ASSUME NEW r \in Rings, NEW t \in Rings, r.Tail <= r.Head, t.Head = r.Head, t.Tail = r.Tail,
         \A i \in r.Tail .. r.Head - 1 : t.Slots[i % Size] = r.Slots[i % Size]
  PROVE  RingQueue(t) = RingQueue(r)
<1>1. r.Head \in Nat /\ r.Tail \in Nat
  BY QueueFields
<1>2. \A j \in 1 .. r.Head - r.Tail : r.Tail + j - 1 \in r.Tail .. r.Head - 1
  BY <1>1
<1>3. QED
  BY <1>2 DEF RingQueue

LEMMA QueueFilled ==
  ASSUME NEW r \in Rings, NEW t \in Rings, NEW e \in Observations, r.Tail <= r.Head,
         t.Head = r.Head + 1, t.Tail = r.Tail, t.Slots = r.Slots, r.Slots[r.Head % Size] = e
  PROVE  RingQueue(t) = Append(RingQueue(r), e)
<1>1. /\ r.Head \in Nat /\ r.Tail \in Nat /\ RingQueue(r) \in Seq(Observations)
      /\ Len(RingQueue(r)) = r.Head - r.Tail
      /\ \A j \in 1 .. r.Head - r.Tail : RingQueue(r)[j] = r.Slots[(r.Tail + j - 1) % Size]
  BY QueueFields
<1>2. /\ RingQueue(t) \in Seq(Observations) /\ Len(RingQueue(t)) = r.Head + 1 - r.Tail
      /\ \A j \in 1 .. r.Head + 1 - r.Tail : RingQueue(t)[j] = r.Slots[(r.Tail + j - 1) % Size]
  <2>1. t.Tail <= t.Head /\ t.Head - t.Tail = r.Head + 1 - r.Tail
    BY <1>1
  <2>2. /\ RingQueue(t) \in Seq(Observations) /\ Len(RingQueue(t)) = t.Head - t.Tail
        /\ \A j \in 1 .. t.Head - t.Tail : RingQueue(t)[j] = t.Slots[(t.Tail + j - 1) % Size]
    BY <2>1, QueueFields
  <2>3. QED
    BY <2>1, <2>2
<1>3. /\ Append(RingQueue(r), e) \in Seq(Observations)
      /\ Len(Append(RingQueue(r), e)) = r.Head + 1 - r.Tail
      /\ \A j \in 1 .. r.Head - r.Tail : Append(RingQueue(r), e)[j] = RingQueue(r)[j]
      /\ Append(RingQueue(r), e)[r.Head - r.Tail + 1] = e
  BY <1>1, AppendProperties
<1>4. ASSUME NEW j \in 1 .. r.Head + 1 - r.Tail PROVE RingQueue(t)[j] = Append(RingQueue(r), e)[j]
  <2>1. CASE j \in 1 .. r.Head - r.Tail
    BY <1>1, <1>2, <1>3, <2>1
  <2>2. CASE j = r.Head - r.Tail + 1
    <3>1. r.Tail + j - 1 = r.Head
      BY <1>1, <2>2
    <3>2. QED
      BY <1>2, <1>3, <2>2, <3>1
  <2>3. QED
    BY <1>1, <2>1, <2>2
<1>5. QED
  BY <1>2, <1>3, <1>4, SeqEqual

LEMMA QueueEmptied ==
  ASSUME NEW r \in Rings, NEW t \in Rings, NEW n \in Nat, r.Tail + n <= r.Head,
         t.Head = r.Head, t.Tail = r.Tail + n, t.Slots = r.Slots
  PROVE  RingQueue(t) = SubSeq(RingQueue(r), n + 1, Len(RingQueue(r)))
<1> DEFINE q == RingQueue(r)  l == r.Head - r.Tail
<1>1. /\ r.Head \in Nat /\ r.Tail \in Nat /\ r.Tail <= r.Head
  BY DEF Rings
<1>2. /\ l \in Nat /\ Len(q) = l /\ \A j \in 1 .. l : q[j] \in Observations
      /\ \A j \in 1 .. l : q[j] = r.Slots[(r.Tail + j - 1) % Size]
  BY <1>1, QueueFields
<1>3. /\ RingQueue(t) \in Seq(Observations) /\ Len(RingQueue(t)) = l - n
      /\ \A j \in 1 .. l - n : RingQueue(t)[j] = r.Slots[(r.Tail + n + j - 1) % Size]
  <2>1. t.Tail <= t.Head /\ t.Head - t.Tail = l - n
    BY <1>1
  <2>2. QED
    BY <2>1, QueueFields
<1> HIDE DEF q, l
<1>4. \A i \in n + 1 .. l : q[i] \in Observations
  BY <1>2
<1>5. /\ SubSeq(q, n + 1, l) \in Seq(Observations)
      /\ Len(SubSeq(q, n + 1, l)) = IF n + 1 <= l THEN l - (n + 1) + 1 ELSE 0
      /\ \A i \in 1 .. l - (n + 1) + 1 : SubSeq(q, n + 1, l)[i] = q[n + 1 + i - 1]
  <2>1. l \in Int /\ n + 1 \in Int
    BY <1>2
  <2>2. QED
    BY <1>4, <2>1, SubSeqProperties
<1>6. n <= l
  BY <1>1 DEF l
<1>7. Len(SubSeq(q, n + 1, l)) = l - n
  BY <1>2, <1>5, <1>6
<1>8. ASSUME NEW j \in 1 .. l - n PROVE RingQueue(t)[j] = SubSeq(q, n + 1, l)[j]
  <2>1. SubSeq(q, n + 1, l)[j] = q[n + j]
    <3>1. j \in 1 .. l - (n + 1) + 1 /\ n + 1 + j - 1 = n + j
      BY <1>2
    <3>2. QED
      BY <1>5, <3>1
  <2>2. n + j \in 1 .. l
    BY <1>2, <1>6
  <2>3. r.Tail + (n + j) - 1 = r.Tail + n + j - 1
    BY <1>1
  <2>4. QED
    BY <1>2, <1>3, <2>1, <2>2, <2>3
<1>9. RingQueue(t) = SubSeq(q, n + 1, l)
  BY <1>3, <1>5, <1>7, <1>8, SeqEqual
<1>10. QED
  BY <1>2, <1>9 DEF q

LEMMA QueueFront ==
  ASSUME NEW r \in Rings, NEW b \in Seq(Observations), r.Tail + Len(b) <= r.Head,
         \A j \in 1 .. Len(b) : b[j] = r.Slots[(r.Tail + j - 1) % Size]
  PROVE  SubSeq(RingQueue(r), 1, Len(b)) = b
<1> DEFINE q == RingQueue(r)  n == Len(b)
<1>1. r.Head \in Nat /\ r.Tail \in Nat /\ n \in Nat
  BY DEF Rings
<1>2. r.Tail <= r.Head
  BY <1>1
<1>3. /\ Len(q) = r.Head - r.Tail /\ \A j \in 1 .. r.Head - r.Tail : q[j] \in Observations
      /\ \A j \in 1 .. r.Head - r.Tail : q[j] = r.Slots[(r.Tail + j - 1) % Size]
  BY <1>2, QueueFields
<1> HIDE DEF q
<1>4. \A i \in 1 .. n : i \in 1 .. r.Head - r.Tail
  BY <1>1
<1>5. /\ SubSeq(q, 1, n) \in Seq(Observations)
      /\ Len(SubSeq(q, 1, n)) = IF 1 <= n THEN n - 1 + 1 ELSE 0
      /\ \A i \in 1 .. n - 1 + 1 : SubSeq(q, 1, n)[i] = q[1 + i - 1]
  <2>1. \A i \in 1 .. n : q[i] \in Observations
    BY <1>3, <1>4
  <2>2. 1 \in Int /\ n \in Int
    BY <1>1
  <2> HIDE DEF n
  <2>3. QED
    BY <2>1, <2>2, SubSeqProperties
<1>6. Len(SubSeq(q, 1, n)) = n
  BY <1>1, <1>5
<1>7. ASSUME NEW j \in 1 .. n PROVE SubSeq(q, 1, n)[j] = b[j]
  <2>1. j \in 1 .. n - 1 + 1 /\ 1 + j - 1 = j
    BY <1>1
  <2>2. QED
    BY <1>3, <1>4, <1>5, <2>1
<1>8. QED
  BY <1>5, <1>6, <1>7, SeqEqual DEF q

(* The abstract state a state of the context stands for.                   *)
Queues == [c \in Channels |-> RingQueue(chan[c])]
Dropped == [c \in Channels |-> chan[c].Drops]
Taking == {"scan", "slot", "tail", "rules", "taken"}
Taken == IF cons.pc \in Taking THEN cons.batch ELSE << >>

LEMMA FifoStutter ==
  ASSUME UNCHANGED <<Queues, Dropped, Taken>>
  PROVE  UNCHANGED Fifo!fifoVars
  BY DEF Fifo!fifoVars, Queues, Dropped, Taken, Taking

LEMMA FifoStep ==
  ASSUME IInv, TypeInv', [Next]_vars
  PROVE  [Fifo!FifoNext]_(Fifo!fifoVars)
<1>0. /\ TypeInv /\ RingInv /\ ProdInv /\ ConsInv
      /\ \A c \in Channels : chan[c] \in Rings /\ chan'[c] \in Rings
      /\ \A c \in Channels : chan[c].Tail <= chan[c].Head /\ chan[c].Head - chan[c].Tail <= Size
      /\ \A c \in Channels : chan[c].Head \in Nat /\ chan[c].Tail \in Nat
      /\ Size \in Nat
  BY RingNats, ContextAssumption DEF IInv, TypeInv, RingInv
<1>1. ASSUME NEW e \in Events, Inject(e) PROVE [Fifo!FifoNext]_(Fifo!fifoVars)
  <2> DEFINE c == ChannelOf(e.subsystem)
  <2>1. c \in Channels /\ UNCHANGED cons /\ (UNCHANGED chan \/ ~ UNCHANGED chan)
    BY <1>0, <1>1, InjectEffect
  <2>2. CASE UNCHANGED chan
    BY <2>1, <2>2, FifoStutter DEF Queues, Dropped, Taken
  <2>3. CASE ~ UNCHANGED chan
    <3>1. /\ chan[c].Head - chan[c].Tail >= Size
          /\ OtherRings(c)
          /\ chan'[c].Drops = chan[c].Drops + 1 /\ chan'[c].Head = chan[c].Head
          /\ chan'[c].Tail = chan[c].Tail /\ chan'[c].Slots = chan[c].Slots
      BY <1>0, <1>1, <2>3, InjectEffect
    <3> HIDE DEF c
    <3>2. Len(Queues[c]) = Size
      <4>1. chan[c].Head - chan[c].Tail = Size /\ Len(RingQueue(chan[c])) = chan[c].Head - chan[c].Tail
        BY <1>0, <2>1, <3>1, QueueFields
      <4>2. QED
        BY <2>1, <4>1 DEF Queues
    <3>3. Queues' = Queues
      <4>1. ASSUME NEW d \in Channels PROVE RingQueue(chan'[d]) = RingQueue(chan[d])
        <5>1. CASE d = c
          BY <1>0, <3>1, <5>1, QueueSame
        <5>2. CASE d # c
          BY <3>1, <5>2 DEF OtherRings
        <5>3. QED
          BY <5>1, <5>2
      <4>2. QED
        BY <4>1 DEF Queues
    <3>4. Dropped' = [Dropped EXCEPT ![c] = Dropped[c] + 1]
      BY <2>1, <3>1 DEF Dropped, OtherRings
    <3>5. Taken' = Taken
      BY <2>1 DEF Taken
    <3>6. Fifo!Refuse(c)
      BY <3>2, <3>3, <3>4, <3>5 DEF Fifo!Refuse, Queues, Dropped, Taken, Taking
    <3>7. QED
      BY <2>1, <3>6 DEF Fifo!FifoNext
  <2>4. QED
    BY <2>2, <2>3
<1>2. CASE InjectSlot
  <2>1. Producer
    BY <1>2 DEF Producer
  <2>2. UNCHANGED cons
    BY <1>0, <2>1, ProducerApart
  <2>3. ASSUME NEW d \in Channels
        PROVE  chan'[d].Drops = chan[d].Drops /\ RingQueue(chan'[d]) = RingQueue(chan[d])
    <3>1. chan'[d].Drops = chan[d].Drops /\ chan'[d].Head = chan[d].Head
      BY <1>0, <1>2, InjectSlotEffect DEF OtherRings
    <3>2. /\ chan'[d].Tail = chan[d].Tail
          /\ \A i \in chan[d].Tail .. chan[d].Head - 1 :
               chan'[d].Slots[i % Size] = chan[d].Slots[i % Size]
      BY <1>0, <2>1, ProducerApart
    <3>3. QED
      BY <1>0, <3>1, <3>2, QueueSame
  <2>4. UNCHANGED <<Queues, Dropped, Taken>>
    BY <2>2, <2>3 DEF Queues, Dropped, Taken
  <2>5. QED
    BY <2>4, FifoStutter
<1>3. CASE InjectHead
  <2> DEFINE c == prod.c  e == prod.ev
  <2>1. /\ c \in Channels /\ e \in Observations /\ OtherRings(c)
        /\ chan'[c].Drops = chan[c].Drops /\ chan'[c].Head = prod.head + 1
        /\ chan'[c].Tail = chan[c].Tail /\ chan'[c].Slots = chan[c].Slots
    BY <1>0, <1>3, InjectHeadEffect
  <2>2. /\ prod.head = chan[c].Head /\ chan[c].Head - chan[c].Tail < Size /\ e \in Events
        /\ chan[c].Slots[chan[c].Head % Size] = e /\ UNCHANGED cons
    BY <1>0, <1>3 DEF InjectHead, ProdInv
  <2> HIDE DEF c, e
  <2>3. Len(Queues[c]) < Size
    <3>1. Len(RingQueue(chan[c])) = chan[c].Head - chan[c].Tail
      BY <1>0, <2>1, QueueFields
    <3>2. QED
      BY <2>1, <2>2, <3>1 DEF Queues
  <2>4. RingQueue(chan'[c]) = Append(RingQueue(chan[c]), e)
    BY <1>0, <2>1, <2>2, QueueFilled
  <2>5. Queues' = [Queues EXCEPT ![c] = Append(Queues[c], e)]
    BY <2>1, <2>4 DEF Queues, OtherRings
  <2>6. Dropped' = Dropped
    BY <2>1 DEF Dropped, OtherRings
  <2>7. Taken' = Taken
    BY <2>2 DEF Taken
  <2>8. Fifo!Enqueue(c, e)
    BY <2>3, <2>5, <2>6, <2>7 DEF Fifo!Enqueue, Queues, Dropped, Taken, Taking
  <2>9. QED
    BY <2>1, <2>2, <2>8 DEF Fifo!FifoNext
<1>4. ASSUME NEW n \in Nat \ {0}, NEW b \in Seq(Observations), Len(b) = n,
             Cur \in Channels, chan[Cur].Tail + n <= chan[Cur].Head,
             \A j \in 1 .. n : b[j] = chan[Cur].Slots[(chan[Cur].Tail + j - 1) % Size],
             OtherRings(Cur), chan'[Cur].Drops = chan[Cur].Drops,
             chan'[Cur].Tail = chan[Cur].Tail + n, chan'[Cur].Head = chan[Cur].Head,
             chan'[Cur].Slots = chan[Cur].Slots, Taken' = Taken \o b
      PROVE  [Fifo!FifoNext]_(Fifo!fifoVars)
  <2> DEFINE c == Cur
  <2>1. /\ c \in Channels /\ Queues[c] = RingQueue(chan[c])
        /\ Len(RingQueue(chan[c])) = chan[c].Head - chan[c].Tail
    BY <1>0, <1>4, QueueFields DEF Queues
  <2>2. n \in 1 .. Len(Queues[c]) /\ n \in 1 .. Size
    BY <1>0, <1>4, <2>1
  <2>3. SubSeq(Queues[c], 1, n) = b
    BY <1>0, <1>4, <2>1, QueueFront
  <2>4. RingQueue(chan'[c]) = SubSeq(Queues[c], n + 1, Len(Queues[c]))
    <3>1. PICK r \in Rings : r = chan[Cur]
      BY <1>0, <1>4
    <3>2. PICK t \in Rings : t = chan'[Cur]
      BY <1>0, <1>4
    <3>3. n \in Nat /\ r.Tail + n <= r.Head /\ t.Head = r.Head /\ t.Tail = r.Tail + n /\ t.Slots = r.Slots
      BY <1>4, <3>1, <3>2
    <3>4. RingQueue(t) = SubSeq(RingQueue(r), n + 1, Len(RingQueue(r)))
      BY <3>3, QueueEmptied
    <3>5. QED
      BY <2>1, <3>1, <3>2, <3>4
  <2>5. Queues' = [Queues EXCEPT ![c] = SubSeq(Queues[c], n + 1, Len(Queues[c]))]
    <3> HIDE DEF c
    <3>1. \A d \in Channels : d # c => chan'[d] = chan[d]
      BY <1>4 DEF OtherRings, c
    <3>2. QED
      BY <2>1, <2>4, <3>1 DEF Queues
  <2>6. Dropped' = Dropped
    BY <1>4 DEF Dropped, OtherRings
  <2>7. Taken' = Taken \o SubSeq(Queues[c], 1, n)
    BY <1>4, <2>3
  <2> HIDE DEF c
  <2>8. Fifo!Take(c, n)
    BY <2>2, <2>5, <2>6, <2>7 DEF Fifo!Take, Queues, Dropped, Taken, Taking
  <2>9. QED
    BY <2>1, <2>2, <2>8 DEF Fifo!FifoNext
<1>5. CASE ReadTail
  <2>1. /\ cons.pc = "tail" /\ cons.tail = chan[Cur].Tail /\ chan[Cur].Tail < chan[Cur].Head
        /\ cons.ev = chan[Cur].Slots[cons.tail % Size]
    BY <1>0, <1>5 DEF ReadTail, ConsInv
  <2>2. /\ OtherRings(Cur) /\ chan'[Cur].Drops = chan[Cur].Drops /\ chan'[Cur].Tail = cons.tail + 1
        /\ chan'[Cur].Head = chan[Cur].Head /\ chan'[Cur].Slots = chan[Cur].Slots
        /\ cons'.pc \in {"scan", "rules"} /\ cons'.batch = Append(cons.batch, cons.ev)
    BY <1>0, <1>5, ReadTailEffect
  <2>3. /\ Cur \in Channels /\ cons.batch \in Seq(Observations) /\ cons.ev \in Observations
        /\ chan[Cur].Head \in Nat /\ chan[Cur].Tail \in Nat
    BY <1>0, CurTyped DEF TypeInv, Consumers
  <2>4. <<cons.ev>> \in Seq(Observations) /\ Len(<<cons.ev>>) = 1 /\ <<cons.ev>>[1] = cons.ev
    BY <2>3
  <2>5. Append(cons.batch, cons.ev) = cons.batch \o <<cons.ev>>
    BY <2>3, AppendIsConcat
  <2>6. Taken' = Taken \o <<cons.ev>>
    BY <2>1, <2>2, <2>5 DEF Taken, Taking
  <2>7. \A j \in 1 .. 1 : <<cons.ev>>[j] = chan[Cur].Slots[(chan[Cur].Tail + j - 1) % Size]
    <3>1. chan[Cur].Tail + 1 - 1 = cons.tail
      BY <2>1, <2>3
    <3>2. QED
      BY <2>1, <2>4, <3>1
  <2>8. chan[Cur].Tail + 1 <= chan[Cur].Head
    BY <2>1, <2>3
  <2>9. PICK b \in Seq(Observations) : b = <<cons.ev>>
    BY <2>4
  <2>10. 1 \in Nat \ {0} /\ Len(b) = 1 /\ Taken' = Taken \o b
    BY <2>4, <2>6, <2>9
  <2>11. \A j \in 1 .. 1 : b[j] = chan[Cur].Slots[(chan[Cur].Tail + j - 1) % Size]
    BY <2>7, <2>9
  <2>12. chan'[Cur].Tail = chan[Cur].Tail + 1
    BY <2>1, <2>2
  <2>13. QED
    BY <1>4, <2>2, <2>3, <2>8, <2>10, <2>11, <2>12
<1>6. CASE BatchTail
  <2>1. /\ cons.pc = "copy" /\ Len(cons.batch) = cons.max /\ cons.max >= 1
        /\ cons.tail = chan[Cur].Tail /\ cons.tail + cons.max <= chan[Cur].Head
        /\ \A j \in 1 .. Len(cons.batch) : cons.batch[j] = chan[Cur].Slots[(cons.tail + j - 1) % Size]
    BY <1>0, <1>6 DEF BatchTail, ConsInv
  <2>2. /\ OtherRings(Cur) /\ chan'[Cur].Drops = chan[Cur].Drops
        /\ chan'[Cur].Tail = cons.tail + cons.max
        /\ chan'[Cur].Head = chan[Cur].Head /\ chan'[Cur].Slots = chan[Cur].Slots
        /\ cons'.pc = "taken" /\ cons'.batch = cons.batch
    BY <1>0, <1>6, BatchTailEffect
  <2>3. Cur \in Channels /\ cons.batch \in Seq(Observations) /\ cons.max \in Nat \ {0}
    BY SMTT(30), <1>0, <2>1, CurTyped DEF TypeInv, Consumers
  <2>4. Taken' = Taken \o cons.batch
    <3>1. Taken = << >> /\ Taken' = cons.batch
      BY <2>1, <2>2 DEF Taken, Taking
    <3>2. QED
      BY <2>3, <3>1, ConcatEmptySeq
  <2>5. QED
    BY <1>4, <2>1, <2>2, <2>3, <2>4
<1>7. CASE EvalRules \/ BatchReturn
  <2>1. UNCHANGED chan /\ cons'.pc \in {"correlate", "idle"}
    BY <1>0, <1>7, EvalRulesEffect, IdleEffect DEF EvalRules, BatchReturn
  <2>2. Queues' = Queues /\ Dropped' = Dropped
    BY <2>1 DEF Queues, Dropped
  <2>3. Taken' = << >>
    BY <2>1 DEF Taken, Taking
  <2>4. Fifo!Finish
    BY <2>2, <2>3 DEF Fifo!Finish, Queues, Dropped, Taken, Taking
  <2>5. QED
    BY <2>4 DEF Fifo!FifoNext
<1>8. ASSUME UNCHANGED chan, Taken' = Taken PROVE [Fifo!FifoNext]_(Fifo!fifoVars)
  <2>1. UNCHANGED <<Queues, Dropped, Taken>>
    BY <1>8 DEF Queues, Dropped
  <2>2. QED
    BY <2>1, FifoStutter
<1>9. ASSUME NEW n \in 0 .. MaxBatch, Poll(n) PROVE [Fifo!FifoNext]_(Fifo!fifoVars)
  <2>1. cons.pc = "idle" /\ UNCHANGED chan /\ cons'.batch = << >>
    BY <1>9, PollEffect DEF Poll
  <2>2. Taken' = Taken
    BY <2>1 DEF Taken, Taking
  <2>3. QED
    BY <1>8, <2>1, <2>2
<1>10. CASE ReadLoad
  <2>1. cons.pc = "scan" /\ UNCHANGED chan
    BY <1>10 DEF ReadLoad
  <2>2. cons \in Consumers
    BY <1>0 DEF TypeInv
  <2>3. cons'.pc \in {"scan", "rules", "slot"} /\ cons'.batch = cons.batch
    BY <1>0, <1>10, <2>2, AdvanceTyped, FoundEffect DEF ReadLoad
  <2>4. Taken' = Taken
    BY <2>1, <2>3 DEF Taken, Taking
  <2>5. QED
    BY <1>8, <2>1, <2>4
<1>11. CASE ReadSlot
  <2>1. cons.pc = "slot" /\ UNCHANGED chan /\ cons'.pc = "tail" /\ cons'.batch = cons.batch
    BY <1>0, <1>11, ReadSlotEffect DEF ReadSlot
  <2>2. Taken' = Taken
    BY <2>1 DEF Taken, Taking
  <2>3. QED
    BY <1>8, <2>1, <2>2
<1>12. CASE Correlate \/ PollReturn \/ BatchSlot
  <2>1. /\ cons.pc \in {"correlate", "copy"} /\ cons'.pc \in {"correlate", "copy", "idle"}
        /\ UNCHANGED chan
    BY <1>0, <1>12, CorrelateEffect, IdleEffect, BatchSlotEffect DEF Correlate, PollReturn, BatchSlot
  <2>2. Taken' = Taken
    BY <2>1 DEF Taken, Taking
  <2>3. QED
    BY <1>8, <2>1, <2>2
<1>13. ASSUME NEW k \in 1 .. Len(ChannelOrder), NEW n \in 1 .. MaxBatch, BatchLoad(k, n)
       PROVE  [Fifo!FifoNext]_(Fifo!fifoVars)
  <2>1. cons.pc = "idle" /\ UNCHANGED chan /\ cons'.pc = "copy"
    BY <1>0, <1>13, BatchLoadEffect DEF BatchLoad
  <2>2. Taken' = Taken
    BY <2>1 DEF Taken, Taking
  <2>3. QED
    BY <1>8, <2>1, <2>2
<1>14. CASE Start \/ Stop \/ UNCHANGED vars
  <2>1. UNCHANGED <<chan, cons>>
    BY <1>14 DEF Start, Stop, vars
  <2>2. QED
    BY <1>8, <2>1 DEF Taken
<1>15. QED
  BY <1>1, <1>2, <1>3, <1>5, <1>6, <1>7, <1>9, <1>10, <1>11, <1>12, <1>13, <1>14
     DEF Next, Producer, Consumer

(* For every ring size and every interleaving, the rings are the bounded   *)
(* queues InjectObservation and PollBatch promise: what is accepted is     *)
(* polled once, whole and in the order of its channel, and what is refused *)
(* is counted.                                                             *)
THEOREM RingsImplementFifo == Spec => ImplementsFifo
<1>1. Init => Fifo!FifoInit
  <2> SUFFICES ASSUME Init PROVE Fifo!FifoInit
    OBVIOUS
  <2>1. ASSUME NEW c \in Channels PROVE chan[c].Drops = 0 /\ RingQueue(chan[c]) = << >>
    <3>1. chan[c].Drops = 0 /\ chan[c].Head = 0 /\ chan[c].Tail = 0
      BY DEF Init
    <3>2. QED
      BY <3>1 DEF RingQueue
  <2>2. Queues = [c \in Channels |-> << >>] /\ Dropped = [c \in Channels |-> 0]
    BY <2>1 DEF Queues, Dropped
  <2>3. Taken = << >>
    BY DEF Init, IdleCons, Taken, Taking
  <2>4. QED
    BY <2>2, <2>3 DEF Fifo!FifoInit, Queues, Dropped, Taken, Taking
<1>2. IInv /\ [Next]_vars => [Fifo!FifoNext]_(Fifo!fifoVars)
  BY FifoStep, NextTyped DEF IInv
<1>3. QED
  BY <1>1, <1>2, InitInv, NextInv, PTL DEF Spec, ImplementsFifo, Fifo!FifoSpec
=============================================================================
