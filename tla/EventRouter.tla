---------------------------- MODULE EventRouter ----------------------------
(***************************************************************************)
(* The routers of events.  Router sends each event of a channel to the     *)
(* ring of its subsystem; CorpusRouter sends it to one corpus or to all.   *)
(* A ring has one producer and one consumer and no lock: head and tail are *)
(* read and stored in steps that the other side may fall between.  rings:  *)
(* the rings; feed: the producer and what it was given; work: the consumer *)
(* of each ring; stopped: the channel "stop" is closed.                    *)
(***************************************************************************)
EXTENDS Integers, Sequences, SequencesExt

CONSTANTS
  Subsystems,   \* the subsystem of each ring, in the order of the rings
  Slots,        \* subRingSlots
  Batch,        \* dispatchBatch and consumeBatch
  Feeds,        \* what the producers are given: [loop |-> events of the channel, fan |-> calls]
  Staffs        \* the sets of rings that have a worker

RouterAssumption == {Slots, Batch} \subseteq Nat \ {0}

Rings == DOMAIN Subsystems
NoEvent == [id |-> 0, sub |-> "none"]

VARIABLES rings, feed, work, stopped
vars == <<rings, feed, work, stopped>>

Init ==
  /\ rings = [r \in Rings |-> [head |-> 0, tail |-> 0, drops |-> 0, slot |-> [i \in 0 .. Slots - 1 |-> NoEvent]]]
  /\ feed \in {[loop |-> f.loop, fan |-> f.fan, plan |-> <<>>, pc |-> "idle", n |-> 0, i |-> 0, unknown |-> 0, routed |-> 0, read |-> 0,
                offered |-> [r \in Rings |-> <<>>], accepted |-> [r \in Rings |-> <<>>]] : f \in Feeds}
  /\ work = [r \in Rings |-> [pc |-> "off", n |-> 0, local |-> <<>>, handled |-> <<>>]]
  /\ stopped = FALSE

-----------------------------------------------------------------------------
(* A call of a router is a plan: the rings it pushes to, one after another,*)
(* and the events of each push.  Ring 0 stands for an unknown destination. *)

ringIndex(subsystem) == IF \E r \in Rings : Subsystems[r] = subsystem THEN CHOOSE r \in Rings : Subsystems[r] = subsystem ELSE 0

corpusIndex(corpus) == IF corpus \in Rings THEN corpus ELSE 0

Dispatch(ev) == [ring |-> ringIndex(ev.sub), events |-> <<ev>>, counted |-> TRUE]
DispatchBatch(events) == [i \in DOMAIN events |-> Dispatch(events[i])]

CorpusDispatch(corpus, ev) == <<[ring |-> corpusIndex(corpus), events |-> <<ev>>, counted |-> FALSE]>>
DispatchFanoutBatch(events) == IF events = <<>> THEN <<>> ELSE [r \in Rings |-> [ring |-> r, events |-> events, counted |-> TRUE]]
DispatchFanout(ev) == DispatchFanoutBatch(<<ev>>)

\* DispatchLoop looks at stop, takes what the channel holds and routes all of it.
DispatchLoop ==
  /\ feed.pc = "idle" /\ feed.plan = <<>> /\ ~stopped
  /\ \E n \in 1 .. Batch :
       /\ n <= Len(feed.loop)
       /\ feed' = [feed EXCEPT !.loop = SubSeq(@, n + 1, Len(@)), !.plan = DispatchBatch(SubSeq(feed.loop, 1, n)),
                               !.read = @ + n]
  /\ UNCHANGED <<rings, work, stopped>>

\* A caller of CorpusRouter: to = -1 is a fanout, of one event or of a batch.
Call ==
  /\ feed.pc = "idle" /\ feed.plan = <<>> /\ feed.fan # <<>>
  /\ \E c \in {Head(feed.fan)} :
       feed' = [feed EXCEPT !.fan = Tail(@),
                            !.plan = CASE c.to # -1 -> CorpusDispatch(c.to, c.events[1])
                                       [] c.to = -1 /\ Len(c.events) = 1 -> DispatchFanout(c.events[1])
                                       [] OTHER -> DispatchFanoutBatch(c.events)]
  /\ UNCHANGED <<rings, work, stopped>>

-----------------------------------------------------------------------------
(* Push and pushBatch: the tail is read once, slots are written one by one,*)
(* and the head is stored last; what does not fit is counted and dropped.  *)

Now == Head(feed.plan)

\* An unknown subsystem is counted; an unknown corpus is only refused to the caller.
PushNowhere ==
  /\ feed.pc = "idle" /\ feed.plan # <<>> /\ Now.ring = 0
  /\ feed' = [feed EXCEPT !.plan = Tail(@), !.unknown = IF Now.counted THEN @ + 1 ELSE @]
  /\ UNCHANGED <<rings, work, stopped>>

Push ==
  /\ feed.pc = "idle" /\ feed.plan # <<>> /\ Now.ring # 0
  /\ \E r \in {Now.ring}, k \in {Len(Now.events)} :
       \E room \in {Slots - (rings[r].head - rings[r].tail)} :
         /\ feed' = [feed EXCEPT !.n = Min({k, room}), !.i = 0, !.offered[r] = @ \o Now.events,
                                 !.pc = IF room = 0 THEN "idle" ELSE "slots",
                                 !.plan = IF room = 0 THEN Tail(@) ELSE @]
         /\ rings' = IF room = 0 THEN [rings EXCEPT ![r].drops = @ + k] ELSE rings
  /\ UNCHANGED <<work, stopped>>

PushSlot ==
  /\ feed.pc = "slots" /\ feed.i < feed.n
  /\ rings' = [rings EXCEPT ![Now.ring].slot[(rings[Now.ring].head + feed.i) % Slots] = Now.events[feed.i + 1]]
  /\ feed' = [feed EXCEPT !.i = @ + 1]
  /\ UNCHANGED <<work, stopped>>

pushBatch ==
  /\ feed.pc = "slots" /\ feed.i = feed.n
  /\ rings' = [rings EXCEPT ![Now.ring].head = @ + feed.n]
  /\ feed' = [feed EXCEPT !.pc = "drops", !.routed = @ + feed.n, !.accepted[Now.ring] = @ \o SubSeq(Now.events, 1, feed.n)]
  /\ UNCHANGED <<work, stopped>>

PushDrops ==
  /\ feed.pc = "drops"
  /\ rings' = [rings EXCEPT ![Now.ring].drops = @ + Len(Now.events) - feed.n]
  /\ feed' = [feed EXCEPT !.pc = "idle", !.plan = Tail(@)]
  /\ UNCHANGED <<work, stopped>>

Produce == DispatchLoop \/ Call \/ PushNowhere \/ Push \/ PushSlot \/ pushBatch \/ PushDrops

-----------------------------------------------------------------------------
(* The consumers.  A ring without a worker has a goroutine that ends.      *)

RunWorkers ==
  /\ \A r \in Rings : work[r].pc = "off"
  /\ \E staff \in Staffs :
       work' = [r \in Rings |-> [work[r] EXCEPT !.pc = IF r \in staff THEN "look" ELSE "done"]]
  /\ UNCHANGED <<rings, feed, stopped>>

\* Consume looks at stop between two batches; an empty ring makes it yield.
Consume(r) ==
  /\ work[r].pc = "look"
  /\ work' = [work EXCEPT ![r].pc = IF stopped THEN "done" ELSE "batch"]
  /\ UNCHANGED <<rings, feed, stopped>>

PopBatch(r) ==
  /\ work[r].pc = "batch"
  /\ \E available \in {rings[r].head - rings[r].tail} :
       work' = [work EXCEPT ![r].n = Min({available, Batch}), ![r].local = <<>>,
                            ![r].pc = IF available = 0 THEN "look" ELSE "copy"]
  /\ UNCHANGED <<rings, feed, stopped>>

PopSlot(r) ==
  /\ work[r].pc = "copy" /\ Len(work[r].local) < work[r].n
  /\ work' = [work EXCEPT ![r].local = Append(@, rings[r].slot[(rings[r].tail + Len(work[r].local)) % Slots])]
  /\ UNCHANGED <<rings, feed, stopped>>

PopTail(r) ==
  /\ work[r].pc = "copy" /\ Len(work[r].local) = work[r].n
  /\ rings' = [rings EXCEPT ![r].tail = @ + work[r].n]
  /\ work' = [work EXCEPT ![r].pc = "handle"]
  /\ UNCHANGED <<feed, stopped>>

Handle(r) ==
  /\ work[r].pc = "handle"
  /\ work' = IF work[r].local = <<>> THEN [work EXCEPT ![r].pc = "look"]
             ELSE [work EXCEPT ![r].handled = Append(@, Head(work[r].local)), ![r].local = Tail(@)]
  /\ UNCHANGED <<rings, feed, stopped>>

Consumer(r) == Consume(r) \/ PopBatch(r) \/ PopSlot(r) \/ PopTail(r) \/ Handle(r)

Stop == ~stopped /\ stopped' = TRUE /\ UNCHANGED <<rings, feed, work>>

Next == Produce \/ RunWorkers \/ (\E r \in Rings : Consumer(r)) \/ Stop

Fairness == WF_vars(Produce) /\ WF_vars(RunWorkers) /\ \A r \in Rings : WF_vars(Consumer(r))
Spec == Init /\ [][Next]_vars /\ Fairness

-----------------------------------------------------------------------------
Queued(r) == [k \in 1 .. rings[r].head - rings[r].tail |-> rings[r].slot[(rings[r].tail + k - 1) % Slots]]
InHand(r) == IF work[r].pc = "handle" THEN work[r].local ELSE <<>>

(* Whatever the two sides of a ring do between two steps of each other,    *)
(* the worker is given the accepted events, each once and in their order,  *)
(* and what it has not been given yet is still in the ring; every offered  *)
(* event was accepted or counted as dropped, in Drops or DropsUnknown.     *)
RouterExact ==
  /\ \A r \in Rings :
       /\ work[r].handled \o InHand(r) \o Queued(r) = feed.accepted[r]
       /\ feed.pc = "idle" => Len(feed.offered[r]) = Len(feed.accepted[r]) + rings[r].drops
       /\ \A i, j \in DOMAIN feed.accepted[r] : i < j => feed.accepted[r][i].id < feed.accepted[r][j].id
  /\ feed.routed = MapThenSumSet(LAMBDA r : Len(feed.accepted[r]), Rings)
  /\ feed.read > 0 /\ feed.plan = <<>> => feed.read = feed.unknown + MapThenSumSet(LAMBDA r : Len(feed.offered[r]), Rings)

(* Without a stop, what a ring with a worker accepted is handled; after it *)
(* every worker returns, so that RunWorkers does.                          *)
Waiting(r) == work[r].pc \notin {"off", "done"} /\ Queued(r) # <<>>
Drained(r) == work[r].handled = feed.accepted[r] \/ stopped
Stopping == stopped /\ \E r \in Rings : work[r].pc # "off"
AllReturned == \A r \in Rings : work[r].pc = "done"
RouterDrains == (\A r \in Rings : Waiting(r) ~> Drained(r)) /\ (Stopping ~> AllReturned)
=============================================================================
