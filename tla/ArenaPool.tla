----------------------------- MODULE ArenaPool -----------------------------
(***************************************************************************)
(* The payload arena of the engine (internal/engine/arena_pool.go): a ring *)
(* of pages, each guarded by a sequence lock, in which StorePayload        *)
(* deposits the payloads that do not fit in an event and from which        *)
(* ResolvePayload copies them back.                                        *)
(*                                                                         *)
(* A payload is a sequence of 64-bit words (Word).  One action is one      *)
(* access to shared memory: every field of a page is a Go atomic, so the   *)
(* accesses of different goroutines interleave but are never reordered.    *)
(* Steps that touch only the goroutine's own variables are folded into the *)
(* access they follow.  CRC32-C is an arbitrary function, so nothing below *)
(* relies on it being free of collisions.                                  *)
(***************************************************************************)
EXTENDS Integers, Sequences, FiniteSets

CONSTANTS
  Writers,      \* goroutines that call StorePayload
  Readers,      \* goroutines that call ResolvePayload
  Capacity,     \* ArenaCapacity, the number of pages
  InlineWords,  \* words an event carries itself (96 bytes)
  PageWords,    \* arenaWords, words of a page
  Word,         \* the values of a word; Nul is the word of a NUL byte
  Nul,
  Payloads,     \* the payloads the callers deposit
  Crc,          \* arenaPageCRC32C, an arbitrary function of the capped payload
  CrcValues,
  Foreign,      \* events with a descriptor this arena did not seal, such as
                \* the ones read back from the ring file of an earlier process
  MaxStores,    \* bound: arena deposits of one behaviour, at most 2^42, the
                \* number after which the uint32 Epoch starts again from 0
  MaxSeq        \* bound: the largest seq of a page, below 2^32; a reader is
                \* never preempted while its page is rewritten 2^31 times

PageIdx == 0 .. Capacity - 1
Slots   == 0 .. MaxStores - 1

NoPayload == << >>

(* The part of a payload that fits in a page.                              *)
Capped(d) == SubSeq(d, 1, IF Len(d) < PageWords THEN Len(d) ELSE PageWords)
LongPayloads == { d \in Payloads : Len(d) > InlineWords }

ASSUME ArenaAssumption ==
  /\ Writers \cap Readers = {}
  /\ Capacity \in Nat \ {0}
  /\ InlineWords \in Nat \ {0}
  /\ PageWords \in Nat /\ PageWords > InlineWords
  /\ MaxStores \in Nat /\ MaxSeq \in Nat
  /\ Nul \in Word
  /\ Payloads \subseteq Seq(Word)
  /\ 0 \in CrcValues
  /\ Crc \in [{ Capped(d) : d \in LongPayloads } -> CrcValues]
  /\ Foreign \subseteq [long : {TRUE}, pageIdx : Nat, len : Nat, crc : CrcValues,
                         epoch : Nat, inline : {NoPayload}]

VARIABLES
  alloc,     \* ArenaPool.alloc
  pages,     \* ArenaPool.pages
  writer,    \* the locals and the program counter of each StorePayload
  reader,    \* the locals and the program counter of each ResolvePayload;
             \* own (history): this arena had sealed the event
  events,    \* the events sealed by a finished StorePayload
  deposit    \* history: the payload given to the store that took each slot

vars == <<alloc, pages, writer, reader, events, deposit>>

(* The page and the epoch of the slotIdx-th deposit.                       *)
PageOf(slot)  == slot % Capacity
EpochOf(slot) == slot \div Capacity

(* ev.Payload[80..96]: the descriptor StorePayload seals, and the 80-byte  *)
(* prefix.  A short payload is held in the event itself.                   *)
LongEvent(slot, d) ==
  [long |-> TRUE, pageIdx |-> PageOf(slot), len |-> Len(Capped(d)),
   crc |-> Crc[Capped(d)], epoch |-> EpochOf(slot), inline |-> NoPayload]
ShortEvent(d) ==
  [long |-> FALSE, pageIdx |-> 0, len |-> Len(d), crc |-> 0, epoch |-> 0,
   inline |-> d]

(* inlinePayloadUsed: the words before the first NUL.                      *)
InlineUsed(d) ==
  SubSeq(d, 1, Cardinality({ n \in 1 .. Len(d) : \A i \in 1 .. n : d[i] # Nul }))

ZeroWords == [i \in 1 .. PageWords |-> Nul]

Init ==
  /\ alloc = 0
  /\ pages = [p \in PageIdx |-> [words |-> ZeroWords, seq |-> 0, Epoch |-> 0,
                                 Len |-> 0, CRC32 |-> 0]]
  /\ writer = [w \in Writers |-> [pc |-> "idle", data |-> NoPayload,
                                  slot |-> 0, seq |-> 0, i |-> 0]]
  /\ reader = [r \in Readers |-> [pc |-> "idle", ev |-> ShortEvent(NoPayload),
                                  own |-> FALSE, seq |-> 0, i |-> 0, dst |-> ZeroWords,
                                  out |-> NoPayload]]
  /\ events = {}
  /\ deposit = [s \in Slots |-> NoPayload]

-----------------------------------------------------------------------------
(* StorePayload *)

MyPage(w) == PageOf(writer[w].slot)
MyWords(w) == Capped(writer[w].data)

(* len(payloadBytes) <= 96: the event carries the payload.                 *)
StoreShort(w, d) ==
  /\ writer[w].pc = "idle"
  /\ Len(d) \in 1 .. InlineWords
  /\ events' = events \cup {ShortEvent(d)}
  /\ UNCHANGED <<alloc, pages, writer, reader, deposit>>

(* A long payload takes the next slot: p.alloc.Add(1) - 1.                 *)
StoreAlloc(w, d) ==
  /\ writer[w].pc = "idle"
  /\ Len(d) > InlineWords
  /\ alloc < MaxStores
  /\ alloc' = alloc + 1
  /\ deposit' = [deposit EXCEPT ![alloc] = d]
  /\ writer' = [writer EXCEPT ![w] = [pc |-> "load", data |-> d, slot |-> alloc,
                                      seq |-> 0, i |-> 0]]
  /\ UNCHANGED <<pages, reader, events>>

(* seq = page.seq.Load(), retried after Gosched while it is odd.           *)
StoreLoadSeq(w) ==
  /\ writer[w].pc = "load"
  /\ pages[MyPage(w)].seq % 2 = 0
  /\ writer' = [writer EXCEPT ![w].pc = "cas", ![w].seq = pages[MyPage(w)].seq]
  /\ UNCHANGED <<alloc, pages, reader, events, deposit>>

(* Mutant of StoreAcquire: a plain store instead of the CompareAndSwap.     *)
StoreAcquireBlind(w) ==
  LET p == MyPage(w) IN
  /\ writer[w].pc = "cas"
  /\ writer[w].seq + 2 <= MaxSeq
  /\ pages' = [pages EXCEPT ![p].seq = writer[w].seq + 1]
  /\ writer' = [writer EXCEPT ![w].pc = "copy", ![w].i = 1]
  /\ UNCHANGED <<alloc, reader, events, deposit>>

(* page.seq.CompareAndSwap(seq, seq+1); a failure goes back to the load.   *)
StoreAcquire(w) ==
  LET p == MyPage(w) IN
  /\ writer[w].pc = "cas"
  /\ \/ /\ pages[p].seq = writer[w].seq
        /\ writer[w].seq + 2 <= MaxSeq
        /\ pages' = [pages EXCEPT ![p].seq = writer[w].seq + 1]
        /\ writer' = [writer EXCEPT ![w].pc = "copy", ![w].i = 1]
     \/ /\ pages[p].seq # writer[w].seq
        /\ writer' = [writer EXCEPT ![w].pc = "load"]
        /\ UNCHANGED pages
  /\ UNCHANGED <<alloc, reader, events, deposit>>

(* page.words[w].Store: one word of the payload.                           *)
StoreWord(w) ==
  LET i == writer[w].i IN
  /\ writer[w].pc = "copy"
  /\ i <= Len(MyWords(w))
  /\ pages' = [pages EXCEPT ![MyPage(w)].words[i] = MyWords(w)[i]]
  /\ writer' = [writer EXCEPT ![w].i = i + 1]
  /\ UNCHANGED <<alloc, reader, events, deposit>>

StoreLen(w) ==
  /\ writer[w].pc = "copy"
  /\ writer[w].i > Len(MyWords(w))
  /\ pages' = [pages EXCEPT ![MyPage(w)].Len = Len(MyWords(w))]
  /\ writer' = [writer EXCEPT ![w].pc = "crc"]
  /\ UNCHANGED <<alloc, reader, events, deposit>>

StoreCRC(w) ==
  /\ writer[w].pc = "crc"
  /\ pages' = [pages EXCEPT ![MyPage(w)].CRC32 = Crc[MyWords(w)]]
  /\ writer' = [writer EXCEPT ![w].pc = "epoch"]
  /\ UNCHANGED <<alloc, reader, events, deposit>>

(* Mutant of StoreEpoch: the epoch of the counter after the increment.     *)
StoreEpochNext(w) ==
  /\ writer[w].pc = "epoch"
  /\ pages' = [pages EXCEPT ![MyPage(w)].Epoch = EpochOf(writer[w].slot + 1)]
  /\ writer' = [writer EXCEPT ![w].pc = "release"]
  /\ UNCHANGED <<alloc, reader, events, deposit>>

StoreEpoch(w) ==
  /\ writer[w].pc = "epoch"
  /\ pages' = [pages EXCEPT ![MyPage(w)].Epoch = EpochOf(writer[w].slot)]
  /\ writer' = [writer EXCEPT ![w].pc = "release"]
  /\ UNCHANGED <<alloc, reader, events, deposit>>

(* Mutant of StoreRelease: the page is left with an odd seq.               *)
StoreReleaseOdd(w) ==
  /\ writer[w].pc = "release"
  /\ events' = events \cup {LongEvent(writer[w].slot, writer[w].data)}
  /\ writer' = [writer EXCEPT ![w].pc = "idle"]
  /\ UNCHANGED <<alloc, pages, reader, deposit>>

(* page.seq.Store(seq + 2), then the descriptor is sealed in the event.    *)
StoreRelease(w) ==
  /\ writer[w].pc = "release"
  /\ pages' = [pages EXCEPT ![MyPage(w)].seq = writer[w].seq + 2]
  /\ events' = events \cup {LongEvent(writer[w].slot, writer[w].data)}
  /\ writer' = [writer EXCEPT ![w].pc = "idle"]
  /\ UNCHANGED <<alloc, reader, deposit>>

-----------------------------------------------------------------------------
(* ResolvePayload *)

Page(r) == pages[reader[r].ev.pageIdx]

(* The call itself: a short payload is returned at once; the bounds of a   *)
(* descriptor are checked before the arena is touched.                     *)
ResolveStart(r, ev) ==
  /\ reader[r].pc \in {"idle", "ok", "error"}
  /\ reader' = [reader EXCEPT ![r] =
       [pc  |-> IF ~ ev.long THEN "ok"
                ELSE IF ev.pageIdx >= Capacity \/ ev.len <= InlineWords
                        \/ ev.len > PageWords THEN "error"
                ELSE "seq",
        ev  |-> ev, own |-> ev \in events, seq |-> 0, i |-> 0, dst |-> ZeroWords,
        out |-> IF ev.long THEN NoPayload ELSE InlineUsed(ev.inline)]]
  /\ UNCHANGED <<alloc, pages, writer, events, deposit>>

(* seq := page.seq.Load(); odd means a write is in progress: ErrArenaStale *)
ResolveLoadSeq(r) ==
  /\ reader[r].pc = "seq"
  /\ reader' = [reader EXCEPT ![r].seq = Page(r).seq,
                              ![r].pc = IF Page(r).seq % 2 # 0 THEN "error" ELSE "epoch"]
  /\ UNCHANGED <<alloc, pages, writer, events, deposit>>

(* Another epoch: ErrArenaStale.                                           *)
ResolveLoadEpoch(r) ==
  /\ reader[r].pc = "epoch"
  /\ reader' = [reader EXCEPT ![r].pc =
                  IF Page(r).Epoch # reader[r].ev.epoch THEN "error" ELSE "len"]
  /\ UNCHANGED <<alloc, pages, writer, events, deposit>>

(* Another length: ErrArenaCorrupt.                                        *)
ResolveLoadLen(r) ==
  /\ reader[r].pc = "len"
  /\ reader' = [reader EXCEPT ![r].pc =
                  IF Page(r).Len # reader[r].ev.len THEN "error" ELSE "crc"]
  /\ UNCHANGED <<alloc, pages, writer, events, deposit>>

(* Another checksum: ErrArenaCorrupt.                                      *)
ResolveLoadCRC(r) ==
  /\ reader[r].pc = "crc"
  /\ reader' = [reader EXCEPT ![r].i = 1,
                  ![r].pc = IF Page(r).CRC32 # reader[r].ev.crc THEN "error" ELSE "copy"]
  /\ UNCHANGED <<alloc, pages, writer, events, deposit>>

(* page.words[w].Load() into dst; the words past length stay cleared.      *)
ResolveWord(r) ==
  LET i == reader[r].i IN
  /\ reader[r].pc = "copy"
  /\ i <= reader[r].ev.len
  /\ reader' = [reader EXCEPT ![r].dst[i] = Page(r).words[i], ![r].i = i + 1]
  /\ UNCHANGED <<alloc, pages, writer, events, deposit>>

(* Mutant of ResolveClose: seq is not loaded again after the copy.         *)
ResolveCloseBlind(r) ==
  /\ reader[r].pc = "copy"
  /\ reader[r].i > reader[r].ev.len
  /\ reader' = [reader EXCEPT ![r].pc = "ok",
                              ![r].out = SubSeq(reader[r].dst, 1, reader[r].ev.len)]
  /\ UNCHANGED <<alloc, pages, writer, events, deposit>>

(* page.seq.Load() != seq: ErrArenaTorn; otherwise dst[:length].           *)
ResolveClose(r) ==
  /\ reader[r].pc = "copy"
  /\ reader[r].i > reader[r].ev.len
  /\ \/ /\ Page(r).seq # reader[r].seq
        /\ reader' = [reader EXCEPT ![r].pc = "error"]
     \/ /\ Page(r).seq = reader[r].seq
        /\ reader' = [reader EXCEPT ![r].pc = "ok",
                                    ![r].out = SubSeq(reader[r].dst, 1, reader[r].ev.len)]
  /\ UNCHANGED <<alloc, pages, writer, events, deposit>>

-----------------------------------------------------------------------------
WriterStep(w) ==
  \/ StoreLoadSeq(w) \/ StoreAcquire(w) \/ StoreWord(w) \/ StoreLen(w)
  \/ StoreCRC(w) \/ StoreEpoch(w) \/ StoreRelease(w)

ReaderStep(r) ==
  \/ ResolveLoadSeq(r) \/ ResolveLoadEpoch(r) \/ ResolveLoadLen(r)
  \/ ResolveLoadCRC(r) \/ ResolveWord(r) \/ ResolveClose(r)

Next ==
  \/ \E w \in Writers : \E d \in Payloads : StoreShort(w, d) \/ StoreAlloc(w, d)
  \/ \E w \in Writers : WriterStep(w)
  \/ \E r \in Readers : \E ev \in events \cup Foreign : ResolveStart(r, ev)
  \/ \E r \in Readers : ReaderStep(r)

Spec == Init /\ [][Next]_vars

(* Every goroutine keeps being scheduled (the Go scheduler is preemptive,  *)
(* and the acquisition loop calls runtime.Gosched); callers owe nothing.   *)
Fairness ==
  /\ \A w \in Writers : WF_vars(WriterStep(w))
  /\ \A r \in Readers : WF_vars(ReaderStep(r))
FairSpec == Spec /\ Fairness

-----------------------------------------------------------------------------
EventSet ==
  [long : BOOLEAN, pageIdx : Nat, len : Nat, crc : CrcValues, epoch : Nat,
   inline : Payloads \cup {NoPayload}]

(* Every variable holds values of the shape the Go declarations give it.   *)
TypeOK ==
  /\ alloc \in 0 .. MaxStores
  /\ pages \in [PageIdx -> [words : [1 .. PageWords -> Word], seq : 0 .. MaxSeq,
                            Epoch : Nat, Len : 0 .. PageWords,
                            CRC32 : CrcValues]]
  /\ writer \in [Writers ->
       [pc : {"idle", "load", "cas", "copy", "crc", "epoch", "release"},
        data : LongPayloads \cup {NoPayload}, slot : Nat, seq : 0 .. MaxSeq,
        i : 0 .. PageWords + 1]]
  /\ reader \in [Readers ->
       [pc : {"idle", "seq", "epoch", "len", "crc", "copy", "ok", "error"},
        ev : EventSet, own : BOOLEAN, seq : 0 .. MaxSeq, i : 0 .. PageWords + 1,
        dst : [1 .. PageWords -> Word], out : Seq(Word)]]
  /\ events \subseteq EventSet
  /\ deposit \in [Slots -> LongPayloads \cup {NoPayload}]

(* The slot a descriptor names.                                            *)
SlotNamed(ev) == ev.epoch * Capacity + ev.pageIdx

(* ResolvePayload returns, for a long payload, exactly the words of the    *)
(* deposit its descriptor names ("jamais une page recyclee ni une ecriture *)
(* en cours"), whatever stores ran meanwhile, and also when checksums      *)
(* collide.                                                                *)
ReadExact ==
  \A r \in Readers :
    LET ev == reader[r].ev IN
    reader[r].pc = "ok" /\ ev.long =>
      /\ SlotNamed(ev) < alloc
      /\ reader[r].out = Capped(deposit[SlotNamed(ev)])

(* Two deposits that land on the same page after a lap of the ring are     *)
(* written one after the other: seq is odd exactly while one goroutine,    *)
(* and no more than one, is inside the critical section of the page.       *)
Critical == {"copy", "crc", "epoch", "release"}
InCritical(w) == writer[w].pc \in Critical
PageExclusive ==
  \A p \in PageIdx :
    /\ (pages[p].seq % 2 = 1) <=> (\E w \in Writers : InCritical(w) /\ MyPage(w) = p)
    /\ \A v, w \in Writers :
         InCritical(v) /\ InCritical(w) /\ MyPage(v) = p /\ MyPage(w) = p => v = w

(* ResolvePayload refuses a descriptor this arena sealed only if another   *)
(* deposit was given the same page: until a lap is made, no reader, however*)
(* slow and whatever runs beside it, loses a sealed payload.               *)
LossNeedsLap ==
  \A r \in Readers :
    reader[r].pc = "error" /\ reader[r].own =>
      \E s \in Slots : /\ s < alloc
                       /\ PageOf(s) = reader[r].ev.pageIdx
                       /\ s # SlotNamed(reader[r].ev)

(* Every deposit that took a slot is eventually sealed.  The acquisition   *)
(* loop is not starvation-free by itself: a CompareAndSwap fails because   *)
(* another deposit acquired the page, so a goroutine leaves the loop as    *)
(* soon as the deposits that compete for its page are finitely many, and   *)
(* no deposit may leave the page locked behind it.                         *)
StoreCompletes ==
  \A w \in Writers : writer[w].pc # "idle" ~> writer[w].pc = "idle"
=============================================================================
