---------------------------- MODULE ProbeContext ----------------------------
(***************************************************************************)
(* The observation context of c2blue55.go: four single-producer            *)
(* single-consumer rings (internal/engine/ring_buffer_gen.go), the         *)
(* round-robin poll (context.go), the rules (rules.go) and the per-process *)
(* correlator (correlator.go).                                             *)
(*                                                                         *)
(* One producer calls InjectObservation while one consumer calls PollBatch *)
(* ("injection is SPSC").  Head, Tail and Drops are Go atomics and one     *)
(* action is one access to shared memory; the slots are ordinary memory,   *)
(* so copying a slot is a step of its own.  A counter is a natural number: *)
(* 2^64 observations are never reached.                                    *)
(***************************************************************************)
EXTENDS Integers, Sequences, FiniteSets

CONSTANTS
  Size,          \* slots of a ring, 0x400 in the code
  Events,        \* the observations the caller injects
  Entries,       \* entries of the tracker table, 1024 in the code
  Window,        \* the correlation window, 1 s in the code
  CountMax,      \* the cap of Event_count, 65535 in the code
  MaxBatch,      \* bound: the largest maxEvents of a PollBatch
  MaxInject      \* bound: the injections of one behaviour

ASSUME ContextAssumption ==
  /\ Size \in Nat \ {0} /\ Entries \in Nat \ {0} /\ CountMax \in Nat \ {0}
  /\ Window \in Nat \ {0} /\ MaxBatch \in Nat /\ MaxInject \in Nat

(* The order of the array in C2bt_poll_batch.                              *)
ChannelOrder == <<"proc", "file", "net", "mcp">>
Channels == {"proc", "file", "net", "mcp"}

(* An observation: subsystem is one of proc, file, net, mcp, entropy and   *)
(* gpu (1..6), Flags is the set of the flag bits that are up, and signs    *)
(* tells what the text searches of rules.go find in its payload.           *)
Veto == {"blocked", "anomaly"}
Subsystems == {"proc", "file", "net", "mcp", "entropy", "gpu"}
Actions == {"none", "exec", "write", "toolCall", "connect"}
FlagBits == Veto \cup {"ok", "lolbas", "beaconing", "suspiciousMCP", "drift", "crypto", "base64",
                       "hex", "correlated", "burst", "long"}
Signs == {"lolbas", "piped", "destructive", "doctrine", "class2", "class3", "class4", "dense"}
Observations ==
  [subsystem : Subsystems \cup {"none"}, Action : Actions, Pid : Nat, Ts : Nat,
   Flags : SUBSET FlagBits, signs : SUBSET Signs]

ASSUME ObservationAssumption == Events \subseteq Observations

VARIABLES
  running,    \* ctx.Running
  chan,       \* the four rings
  prod,       \* the locals and the program counter of InjectObservation
  cons,       \* the locals and the program counter of PollBatch; due
              \* (history): the channels that held something when it began
  table,      \* ctx.Tracker_table
  injected,   \* history: how many observations were injected
  delivered   \* history: the observations handed back by PollBatch

vars == <<running, chan, prod, cons, table, injected, delivered>>

NoEvent == [subsystem |-> "none", Action |-> "none", Pid |-> 0, Ts |-> 0,
            Flags |-> {}, signs |-> {}]
NoEntry == [Pid |-> 0, Last_ts |-> 0, Event_count |-> 0, subsystems |-> {},
            score |-> 0]
IdleCons == [pc |-> "idle", max |-> 0, k |-> 1, before |-> 0, tail |-> 0,
             ev |-> NoEvent, batch |-> << >>, i |-> 0, due |-> {}]

Init ==
  /\ running = FALSE
  /\ chan = [c \in Channels |-> [Head |-> 0, Tail |-> 0, Drops |-> 0,
                                 Slots |-> [s \in 0 .. Size - 1 |-> NoEvent]]]
  /\ prod = [pc |-> "idle", c |-> "proc", ev |-> NoEvent, head |-> 0]
  /\ cons = IdleCons
  /\ table = [x \in 0 .. Entries - 1 |-> NoEntry]
  /\ injected = 0
  /\ delivered = << >>

-----------------------------------------------------------------------------
(* Start and Stop "must not run concurrently with injection or polling".   *)
Quiet == prod.pc = "idle" /\ cons.pc = "idle"

(* Start of a context whose configuration is all zero; any other one is    *)
(* refused and changes nothing.                                            *)
Start ==
  /\ Quiet
  /\ running' = TRUE
  /\ UNCHANGED <<chan, prod, cons, table, injected, delivered>>

Stop ==
  /\ Quiet
  /\ running' = FALSE
  /\ UNCHANGED <<chan, prod, cons, table, injected, delivered>>

-----------------------------------------------------------------------------
(* InjectObservation: the ring of a subsystem.                             *)
ChannelOf(subsystem) == IF subsystem \in {"file", "net", "mcp"} THEN subsystem ELSE "proc"

(* Mutant of Inject: one slot too many is handed out.                      *)
InjectOver(e) ==
  LET c == ChannelOf(e.subsystem)  h == chan[c].Head IN
  /\ running /\ prod.pc = "idle" /\ injected < MaxInject
  /\ injected' = injected + 1
  /\ \/ /\ h - chan[c].Tail > Size
        /\ chan' = [chan EXCEPT ![c].Drops = @ + 1]
        /\ UNCHANGED prod
     \/ /\ h - chan[c].Tail <= Size
        /\ prod' = [pc |-> "slot", c |-> c, ev |-> e, head |-> h]
        /\ UNCHANGED chan
  /\ UNCHANGED <<running, cons, table, delivered>>

(* C2bt_channel_write up to the comparison: Head is the producer's own, so *)
(* the load of Tail is the only access another thread can disturb.         *)
Inject(e) ==
  LET c == ChannelOf(e.subsystem)  h == chan[c].Head IN
  /\ running /\ prod.pc = "idle" /\ injected < MaxInject
  /\ injected' = injected + 1
  /\ \/ /\ h - chan[c].Tail >= Size
        /\ chan' = [chan EXCEPT ![c].Drops = @ + 1]
        /\ UNCHANGED prod
     \/ /\ h - chan[c].Tail < Size
        /\ prod' = [pc |-> "slot", c |-> c, ev |-> e, head |-> h]
        /\ UNCHANGED chan
  /\ UNCHANGED <<running, cons, table, delivered>>

InjectSlot ==
  /\ prod.pc = "slot"
  /\ chan' = [chan EXCEPT ![prod.c].Slots[prod.head % Size] = prod.ev]
  /\ prod' = [prod EXCEPT !.pc = "head"]
  /\ UNCHANGED <<running, cons, table, injected, delivered>>

InjectHead ==
  /\ prod.pc = "head"
  /\ chan' = [chan EXCEPT ![prod.c].Head = prod.head + 1]
  /\ prod' = [prod EXCEPT !.pc = "idle"]
  /\ UNCHANGED <<running, cons, table, injected, delivered>>

-----------------------------------------------------------------------------
(* C2bt_poll_batch *)

Poll(n) ==
  /\ running /\ cons.pc = "idle"
  /\ cons' = [IdleCons EXCEPT !.pc = IF n > 0 THEN "scan" ELSE "rules", !.max = n,
                              !.due = { c \in Channels : chan[c].Tail < chan[c].Head }]
  /\ UNCHANGED <<running, chan, prod, table, injected, delivered>>

(* The position after channel k was tried: the next channel, a new round   *)
(* when this one took something and there is room, or the rules.           *)
Advance(st) ==
  LET n == Len(st.batch) IN
  IF n >= st.max THEN [st EXCEPT !.pc = "rules"]
  ELSE IF st.k < Len(ChannelOrder) THEN [st EXCEPT !.pc = "scan", !.k = @ + 1]
  ELSE IF n = st.before THEN [st EXCEPT !.pc = "rules"]
  ELSE [st EXCEPT !.pc = "scan", !.k = 1, !.before = n]

(* Mutant of ReadLoad: Tail is published before the slot is copied.        *)
ReadLoadEarly ==
  LET c == ChannelOrder[cons.k] IN
  /\ cons.pc = "scan"
  /\ \/ /\ chan[c].Tail >= chan[c].Head
        /\ cons' = Advance(cons)
        /\ UNCHANGED chan
     \/ /\ chan[c].Tail < chan[c].Head
        /\ cons' = [cons EXCEPT !.pc = "slot", !.tail = chan[c].Tail]
        /\ chan' = [chan EXCEPT ![c].Tail = @ + 1]
  /\ UNCHANGED <<running, prod, table, injected, delivered>>

Cur == ChannelOrder[cons.k]

(* C2bt_channel_read: the load of Head decides whether the ring is empty.  *)
ReadLoad ==
  /\ cons.pc = "scan"
  /\ \/ /\ chan[Cur].Tail >= chan[Cur].Head
        /\ cons' = Advance(cons)
     \/ /\ chan[Cur].Tail < chan[Cur].Head
        /\ cons' = [cons EXCEPT !.pc = "slot", !.tail = chan[Cur].Tail]
  /\ UNCHANGED <<running, chan, prod, table, injected, delivered>>

ReadSlot ==
  /\ cons.pc = "slot"
  /\ cons' = [cons EXCEPT !.pc = "tail", !.ev = chan[Cur].Slots[cons.tail % Size]]
  /\ UNCHANGED <<running, chan, prod, table, injected, delivered>>

ReadTail ==
  /\ cons.pc = "tail"
  /\ chan' = [chan EXCEPT ![Cur].Tail = cons.tail + 1]
  /\ cons' = Advance([cons EXCEPT !.batch = Append(@, cons.ev)])
  /\ UNCHANGED <<running, prod, table, injected, delivered>>

(* C2bt_eval_rules_batch: the flags a rule raises ...                      *)
RaisedGPU(e) ==
  IF e.signs \cap {"class4", "dense"} # {} \/ "crypto" \in e.Flags THEN Veto \cup {"crypto"}
  ELSE IF "class3" \in e.signs \/ "base64" \in e.Flags THEN {"anomaly", "base64"}
  ELSE IF "class2" \in e.signs \/ "hex" \in e.Flags THEN {"anomaly", "hex"}
  ELSE {}

Raised(e) ==
  CASE e.subsystem = "proc" /\ e.Action = "exec" /\ "lolbas" \in e.signs
         -> {"anomaly", "lolbas"}
    [] e.subsystem = "mcp" /\ e.Action = "toolCall"
         /\ (e.signs \cap {"piped", "destructive", "doctrine"} # {} \/ "crypto" \in e.Flags)
         -> Veto
    [] e.subsystem = "file" /\ e.Action = "write" /\ "doctrine" \in e.signs
         -> Veto
    [] e.subsystem = "gpu" -> RaisedGPU(e)
    [] OTHER -> {}

(* ... and the verdict bit, set exactly when nothing was held against it.  *)
Ruled(e) ==
  LET f == e.Flags \cup Raised(e) IN
  [e EXCEPT !.Flags = IF f \cap Veto # {} THEN f \ {"ok"} ELSE f \cup {"ok"}]

EvalRules ==
  /\ cons.pc = "rules"
  /\ cons' = [cons EXCEPT !.pc = "correlate", !.i = 1,
                          !.batch = [j \in 1 .. Len(@) |-> Ruled(@[j])]]
  /\ UNCHANGED <<running, chan, prod, table, injected, delivered>>

(* C2bt_correlate_event: what counts as a signal of a subsystem ...        *)
Hostile(e) ==
  CASE e.subsystem = "proc"    -> e.Action = "exec" /\ "lolbas" \in e.Flags
    [] e.subsystem = "file"    -> e.Action = "write" /\ Veto \subseteq e.Flags
    [] e.subsystem = "net"     -> "beaconing" \in e.Flags
    [] e.subsystem = "mcp"     -> e.Action = "toolCall" /\ ("suspiciousMCP" \in e.Flags \/ Veto \subseteq e.Flags)
    [] e.subsystem = "entropy" -> "drift" \in e.Flags
    [] e.subsystem = "gpu"     -> "crypto" \in e.Flags
    [] OTHER -> FALSE

(* ... (mutant of Fresh: the entry's process is not compared) ...          *)
FreshAliased(entry, e) ==
  \/ entry.Event_count = 0
  \/ e.Ts < entry.Last_ts \/ e.Ts - entry.Last_ts >= Window

(* ... the entry of its process, started again when the entry is another   *)
(* process's, or when the observation is before or past its window ...     *)
Fresh(entry, e) ==
  \/ entry.Event_count = 0 \/ entry.Pid # e.Pid
  \/ e.Ts < entry.Last_ts \/ e.Ts - entry.Last_ts >= Window

Tracked(entry, e) ==
  LET base == IF Fresh(entry, e) THEN [NoEntry EXCEPT !.Pid = e.Pid, !.Last_ts = e.Ts]
              ELSE entry
      new  == Hostile(e) /\ e.subsystem \notin base.subsystems
  IN  [base EXCEPT !.Event_count = IF @ < CountMax THEN @ + 1 ELSE @,
                   !.subsystems = IF new THEN @ \cup {e.subsystem} ELSE @,
                   !.score = IF new THEN @ + 50 ELSE @]

(* ... and the flags handed back.  Pid 0 has no entry.                     *)
Correlated(entry, e) ==
  IF e.Pid # 0 /\ Hostile(e) /\ Tracked(entry, e).score >= 100
  THEN [e EXCEPT !.Flags = (@ \cup {"anomaly", "correlated"}) \ {"ok"}]
  ELSE [e EXCEPT !.Flags = @ \ {"correlated"}]

Correlate ==
  /\ cons.pc = "correlate" /\ cons.i <= Len(cons.batch)
  /\ LET e == cons.batch[cons.i]  x == e.Pid % Entries IN
     /\ delivered' = Append(delivered, Correlated(table[x], e))
     /\ table' = IF e.Pid = 0 THEN table ELSE [table EXCEPT ![x] = Tracked(@, e)]
  /\ cons' = [cons EXCEPT !.i = @ + 1]
  /\ UNCHANGED <<running, chan, prod, injected>>

PollReturn ==
  /\ cons.pc = "correlate" /\ cons.i > Len(cons.batch)
  /\ cons' = IdleCons
  /\ UNCHANGED <<running, chan, prod, table, injected, delivered>>

-----------------------------------------------------------------------------
(* C2bt_channel_read_batch, the batch read of a stand-alone Channel: Head  *)
(* is loaded once, the slots are copied one by one, Tail is stored once.   *)
BatchLoad(k, n) ==
  LET r == chan[ChannelOrder[k]]
      count == IF r.Head - r.Tail > n THEN n ELSE r.Head - r.Tail IN
  /\ cons.pc = "idle" /\ count > 0
  /\ cons' = [IdleCons EXCEPT !.pc = "copy", !.max = count, !.k = k, !.tail = r.Tail]
  /\ UNCHANGED <<running, chan, prod, table, injected, delivered>>

BatchSlot ==
  /\ cons.pc = "copy" /\ Len(cons.batch) < cons.max
  /\ cons' = [cons EXCEPT !.batch = Append(@, chan[Cur].Slots[(cons.tail + Len(@)) % Size])]
  /\ UNCHANGED <<running, chan, prod, table, injected, delivered>>

BatchTail ==
  /\ cons.pc = "copy" /\ Len(cons.batch) = cons.max
  /\ chan' = [chan EXCEPT ![Cur].Tail = cons.tail + cons.max]
  /\ cons' = [cons EXCEPT !.pc = "taken"]
  /\ UNCHANGED <<running, prod, table, injected, delivered>>

BatchReturn ==
  /\ cons.pc = "taken"
  /\ cons' = IdleCons
  /\ UNCHANGED <<running, chan, prod, table, injected, delivered>>

-----------------------------------------------------------------------------
Producer == \/ \E e \in Events : Inject(e)
            \/ InjectSlot \/ InjectHead
Consumer == \/ \E n \in 0 .. MaxBatch : Poll(n)
            \/ ReadLoad \/ ReadSlot \/ ReadTail \/ EvalRules \/ Correlate \/ PollReturn
            \/ \E k \in 1 .. Len(ChannelOrder), n \in 1 .. MaxBatch : BatchLoad(k, n)
            \/ BatchSlot \/ BatchTail \/ BatchReturn

Next == Start \/ Stop \/ Producer \/ Consumer
Spec == Init /\ [][Next]_vars

-----------------------------------------------------------------------------
TypeOK ==
  /\ running \in BOOLEAN
  /\ \A c \in Channels :
       /\ chan[c].Head \in 0 .. MaxInject /\ chan[c].Tail \in 0 .. chan[c].Head
       /\ chan[c].Head - chan[c].Tail <= Size
  /\ prod.pc \in {"idle", "slot", "head"} /\ prod.c \in Channels
  /\ cons.pc \in {"idle", "scan", "slot", "tail", "rules", "correlate",
                 "copy", "taken"}
  /\ cons.k \in 1 .. Len(ChannelOrder) /\ Len(cons.batch) <= cons.max

(* The consumer never copies a slot while the producer copies into it: the *)
(* slots are ordinary memory, so this is the absence of a data race.       *)
NoSlotRace ==
  ~ /\ prod.pc = "slot" /\ prod.c = Cur
    /\ \/ cons.pc = "slot" /\ prod.head % Size = cons.tail % Size
       \/ /\ cons.pc = "copy" /\ Len(cons.batch) < cons.max
          /\ prod.head % Size = (cons.tail + Len(cons.batch)) % Size

(* PollBatch never hands back an observation that is both admitted and     *)
(* held against: the OK bit is up exactly when neither veto bit is.        *)
VerdictConsistent ==
  \A j \in 1 .. Len(delivered) :
    ("ok" \in delivered[j].Flags) <=> (delivered[j].Flags \cap Veto = {})

(* The correlated-threat flag is never raised on one process for what      *)
(* another did, nor for signals a window or more apart: an observation     *)
(* that carries it has a hostile companion of the same process, from       *)
(* another subsystem, handed back before it within the window, even when   *)
(* two processes share an entry of the table, the timestamps go backwards, *)
(* or the caller injects an observation with the flag already up.          *)
NoFalseCorrelation ==
  \A j \in 1 .. Len(delivered) :
    LET e == delivered[j] IN
    "correlated" \in e.Flags =>
      \E i \in 1 .. j - 1 :
        LET d == delivered[i] IN
        /\ d.Pid = e.Pid /\ d.Pid # 0 /\ d.subsystem # e.subsystem
        /\ Hostile(d) /\ Hostile(e)
        /\ d.Ts - e.Ts < Window /\ e.Ts - d.Ts < Window

(* What a poll hands back can be acted upon: its flags do not contradict   *)
(* each other, and a correlation is one that happened.                     *)
VerdictSound == TypeOK /\ VerdictConsistent /\ NoFalseCorrelation

(* A poll with room for one observation per channel leaves no channel out: *)
(* it takes something from each one that held something when it began,     *)
(* however fast the producer fills the others.                             *)
PollServesAll ==
  cons.pc = "rules" /\ cons.max >= Len(ChannelOrder) =>
    \A c \in cons.due : \E j \in 1 .. Len(cons.batch) : ChannelOf(cons.batch[j].subsystem) = c

(* What a poll hands back is sound, and it is fair to every channel.       *)
PollSound == VerdictSound /\ PollServesAll

-----------------------------------------------------------------------------
(* The rings implement bounded queues.  The contents of a ring are the     *)
(* slots between Tail and Head; an observation is queued by the store of   *)
(* Head and taken by the store of Tail.                                    *)
RingQueue(r) == [j \in 1 .. r.Head - r.Tail |-> r.Slots[(r.Tail + j - 1) % Size]]

Fifo == INSTANCE ObservationFifo WITH
          queue <- [c \in Channels |-> RingQueue(chan[c])],
          drops <- [c \in Channels |-> chan[c].Drops],
          batch <- IF cons.pc \in {"scan", "slot", "tail", "rules", "taken"} THEN cons.batch ELSE << >>

(* Every observation the rings accept is polled once, whole and in the     *)
(* order of its channel, and every one they refuse is counted.             *)
ImplementsFifo == Fifo!FifoSpec
=============================================================================
