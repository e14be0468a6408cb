-------------------------- MODULE ArenaPoolProofs --------------------------
(***************************************************************************)
(* ReadExact, PageExclusive and LossNeedsLap hold of ArenaPool for any     *)
(* number of goroutines, pages, words and deposits and for any checksum    *)
(* function.                                                               *)
(*                                                                         *)
(* ReadExact is not inductive: what a reader copied is right only because  *)
(* nobody wrote since it read seq, and that follows from what the writers  *)
(* do to seq.  ArenaInv adds the state of the writers (WriterInv), the     *)
(* contents of a page at rest (RestInv) and what a reader in the middle of *)
(* its copy knows as long as seq has not moved (CopyInv).                  *)
(***************************************************************************)
EXTENDS ArenaPool, FiniteSetTheorems, TLAPS

(* A writer past the allocation holds the payload of its slot; inside the  *)
(* critical section its page's seq is its own seq plus one, and what it    *)
(* has written so far is on the page.                                      *)
Writing(st, pg) ==
  LET d == Capped(st.data) IN
  st.pc # "idle" =>
    /\ st.slot \in 0 .. alloc - 1
    /\ st.data \in LongPayloads /\ deposit[st.slot] = st.data
    /\ st.pc # "load" => st.seq % 2 = 0
    /\ st.pc \in Critical =>
         /\ pg.seq = st.seq + 1 /\ st.seq + 2 <= MaxSeq
         /\ st.i \in 1 .. Len(d) + 1
         /\ \A j \in 1 .. st.i - 1 : pg.words[j] = d[j]
    /\ st.pc \in {"crc", "epoch", "release"} => st.i = Len(d) + 1 /\ pg.Len = Len(d)
    /\ st.pc = "release" => pg.Epoch = EpochOf(st.slot)

WriterInv == \A w \in Writers : Writing(writer[w], pages[MyPage(w)])

(* A page whose seq is even was never written or holds a whole deposit.    *)
Holds(pg, s) ==
  LET d == Capped(deposit[s]) IN
  /\ s < alloc
  /\ deposit[s] \in LongPayloads
  /\ pg.Len = Len(d)
  /\ \A j \in 1 .. Len(d) : pg.words[j] = d[j]

Resting(pg, p) == pg.seq % 2 = 0 => pg.Len = 0 \/ Holds(pg, pg.Epoch * Capacity + p)

RestInv == \A p \in PageIdx : Resting(pages[p], p)

(* What a reader knows between its two loads of seq.                       *)
Copying(st) ==
    LET ev == st.ev IN
    st.pc \in {"seq", "epoch", "len", "crc", "copy"} =>
      /\ ev.long /\ ev.pageIdx \in PageIdx
      /\ ev.len > InlineWords /\ ev.len <= PageWords
      /\ st.pc # "seq" => st.seq % 2 = 0 /\ st.seq <= pages[ev.pageIdx].seq
      /\ st.pc = "copy" => st.i \in 1 .. ev.len + 1
      /\ st.pc # "seq" /\ st.seq = pages[ev.pageIdx].seq =>
           /\ st.pc \in {"len", "crc", "copy"} => pages[ev.pageIdx].Epoch = ev.epoch
           /\ st.pc \in {"crc", "copy"} => pages[ev.pageIdx].Len = ev.len
           /\ st.pc = "copy" =>
                \A j \in 1 .. st.i - 1 : st.dst[j] = pages[ev.pageIdx].words[j]

CopyInv == \A r \in Readers : Copying(reader[r])

ArenaInv == TypeOK /\ PageExclusive /\ WriterInv /\ RestInv /\ CopyInv /\ ReadExact

-----------------------------------------------------------------------------
(* A long payload, cut to the page, is longer than what an event carries   *)
(* and fits in the page.                                                   *)
LEMMA CappedFacts ==
  ASSUME NEW d \in LongPayloads
  PROVE  /\ Capped(d) \in Seq(Word)
         /\ Len(Capped(d)) \in InlineWords + 1 .. PageWords
         /\ \A j \in 1 .. Len(Capped(d)) : Capped(d)[j] \in Word
         /\ Crc[Capped(d)] \in CrcValues
<1>1. d \in Seq(Word) /\ Len(d) \in Nat /\ Len(d) > InlineWords
  BY ArenaAssumption DEF LongPayloads
<1>2. PageWords \in Nat /\ PageWords > InlineWords /\ InlineWords \in Nat
  BY ArenaAssumption
<1> DEFINE n == IF Len(d) < PageWords THEN Len(d) ELSE PageWords
<1>3. n \in Nat /\ n <= Len(d) /\ n > InlineWords /\ n <= PageWords
  BY <1>1, <1>2
<1>4. Capped(d) = SubSeq(d, 1, n)
  BY DEF Capped
<1>5. Capped(d) \in Seq(Word) /\ Len(Capped(d)) = n
  <2> HIDE DEF n
  <2> QED BY <1>1, <1>3, <1>4
<1>6. Crc[Capped(d)] \in CrcValues
  BY ArenaAssumption
<1> QED
  BY <1>2, <1>3, <1>5, <1>6

(* The page and the epoch of a slot determine it.                          *)
LEMMA SlotFacts ==
  ASSUME NEW s \in Nat
  PROVE  /\ PageOf(s) \in PageIdx
         /\ EpochOf(s) \in Nat
         /\ EpochOf(s) * Capacity + PageOf(s) = s
<1>1. Capacity \in Nat /\ Capacity > 0
  BY ArenaAssumption
<1>2. s % Capacity \in 0 .. Capacity - 1
  BY <1>1
<1>3. s \div Capacity \in Nat
  BY <1>1
<1>4. s = Capacity * (s \div Capacity) + (s % Capacity)
  BY <1>1
<1> QED
  BY <1>1, <1>2, <1>3, <1>4 DEF PageOf, EpochOf, PageIdx

(* A short event is a well-typed event, and so is the one a store seals.   *)
LEMMA EventFacts ==
  /\ \A d \in Payloads \cup {NoPayload} : ShortEvent(d) \in EventSet
  /\ \A s \in Nat, d \in LongPayloads : LongEvent(s, d) \in EventSet
  /\ Foreign \subseteq EventSet
<1>1. ASSUME NEW d \in Payloads \cup {NoPayload}
      PROVE  ShortEvent(d) \in EventSet
  <2>1. Len(d) \in Nat
    BY ArenaAssumption DEF NoPayload
  <2> QED BY <2>1, ArenaAssumption DEF ShortEvent, EventSet
<1>2. ASSUME NEW s \in Nat, NEW d \in LongPayloads
      PROVE  LongEvent(s, d) \in EventSet
  <2>1. PageOf(s) \in Nat /\ EpochOf(s) \in Nat
    BY SlotFacts DEF PageIdx
  <2>2. Len(Capped(d)) \in Nat /\ Crc[Capped(d)] \in CrcValues
    BY CappedFacts, ArenaAssumption
  <2> QED BY <2>1, <2>2 DEF LongEvent, EventSet
<1>3. Foreign \subseteq EventSet
  BY ArenaAssumption DEF EventSet
<1> QED BY <1>1, <1>2, <1>3

(* What a short payload resolves to is a sequence of words.                *)
LEMMA InlineFacts ==
  ASSUME NEW d \in Payloads \cup {NoPayload}
  PROVE  InlineUsed(d) \in Seq(Word)
<1> DEFINE clear == { n \in 1 .. Len(d) : \A i \in 1 .. n : d[i] # Nul }
<1>1. d \in Seq(Word) /\ Len(d) \in Nat
  <2>1. Payloads \subseteq Seq(Word) /\ NoPayload \in Seq(Word)
    BY ArenaAssumption DEF NoPayload
  <2> QED BY <2>1
<1>2. IsFiniteSet(1 .. Len(d)) /\ Cardinality(1 .. Len(d)) = Len(d)
  BY SMTT(30), <1>1, FS_Interval
<1>3. Cardinality(clear) \in Nat /\ Cardinality(clear) <= Len(d)
  BY <1>2, FS_Subset, FS_CardinalityType
<1>4. SubSeq(d, 1, Cardinality(clear)) \in Seq(Word)
  <2> HIDE DEF clear
  <2> QED BY <1>1, <1>3
<1> QED BY <1>4 DEF InlineUsed

-----------------------------------------------------------------------------
LEMMA InitInv == Init => ArenaInv
<1> SUFFICES ASSUME Init PROVE ArenaInv
  OBVIOUS
<1>1. Capacity \in Nat /\ PageWords \in Nat /\ MaxStores \in Nat /\ MaxSeq \in Nat
      /\ Nul \in Word /\ 0 \in CrcValues
  BY ArenaAssumption
<1>2. ShortEvent(NoPayload) \in EventSet /\ ~ ShortEvent(NoPayload).long
  BY EventFacts DEF ShortEvent
<1>3. TypeOK
  <2>1. ZeroWords \in [1 .. PageWords -> Word]
    BY <1>1 DEF ZeroWords
  <2>2. NoPayload \in Seq(Word)
    BY DEF NoPayload
  <2> QED BY <1>1, <1>2, <2>1, <2>2 DEF Init, TypeOK, Slots
<1>4. PageExclusive
  BY DEF Init, PageExclusive, InCritical, Critical
<1>5. WriterInv
  BY DEF Init, WriterInv, Writing
<1>6. RestInv
  BY DEF Init, RestInv, Resting
<1>7. CopyInv /\ ReadExact
  BY DEF Init, CopyInv, Copying, ReadExact
<1> QED BY <1>3, <1>4, <1>5, <1>6, <1>7 DEF ArenaInv

ReaderRecords ==
  [pc : {"idle", "seq", "epoch", "len", "crc", "copy", "ok", "error"},
   ev : EventSet, own : BOOLEAN, seq : 0 .. MaxSeq, i : 0 .. PageWords + 1,
   dst : [1 .. PageWords -> Word], out : Seq(Word)]

(* A step that changes one reader only preserves the invariant if the new  *)
(* state of that reader satisfies the parts about readers.                 *)
LEMMA ReaderFrame ==
  ASSUME ArenaInv, NEW r \in Readers, NEW st \in ReaderRecords,
         reader' = [reader EXCEPT ![r] = st],
         UNCHANGED <<alloc, pages, writer, events, deposit>>,
         Copying(st),
         st.pc = "ok" /\ st.ev.long =>
           /\ SlotNamed(st.ev) < alloc
           /\ st.out = Capped(deposit[SlotNamed(st.ev)])
  PROVE  ArenaInv'
<1> USE ArenaInv DEF ArenaInv
<1>1. PageExclusive' /\ WriterInv' /\ RestInv'
  BY DEF PageExclusive, WriterInv, Writing, RestInv, Resting, InCritical, MyPage, Holds
<1>2. TypeOK'
  BY DEF TypeOK, ReaderRecords
<1>3. \A q \in Readers : reader'[q] = IF q = r THEN st ELSE reader[q]
  BY DEF TypeOK
<1>4. CopyInv'
  <2>1. ASSUME NEW q \in Readers PROVE Copying(reader[q])'
    <3>1. CASE q = r
      BY <1>3, <3>1 DEF Copying
    <3>2. CASE q # r
      BY <1>3, <3>2 DEF Copying, CopyInv
    <3> QED BY <3>1, <3>2
  <2> QED BY <2>1 DEF CopyInv
<1>5. ReadExact'
  BY <1>3 DEF ReadExact
<1> QED BY <1>1, <1>2, <1>4, <1>5

(* A step of a reader leaves the arena alone.                              *)
LEMMA ReaderStepInv ==
  ASSUME ArenaInv, NEW r \in Readers,
         ReaderStep(r) \/ \E ev \in events \cup Foreign : ResolveStart(r, ev)
  PROVE  ArenaInv'
<1> USE ArenaInv DEF ArenaInv
<1>a. reader[r] \in ReaderRecords /\ pages \in [PageIdx -> [words : [1 .. PageWords -> Word],
          seq : 0 .. MaxSeq, Epoch : Nat, Len : 0 .. PageWords, CRC32 : CrcValues]]
  BY DEF TypeOK, ReaderRecords
<1>b. Copying(reader[r])
  BY DEF CopyInv
<1>c. PageWords \in Nat /\ InlineWords \in Nat /\ Capacity \in Nat /\ MaxSeq \in Nat /\ Nul \in Word
  BY ArenaAssumption
<1>d. /\ reader[r].ev.len \in Nat /\ reader[r].ev.pageIdx \in Nat
      /\ reader[r].seq \in 0 .. MaxSeq /\ reader[r].i \in 0 .. PageWords + 1
      /\ reader[r].dst \in [1 .. PageWords -> Word]
  BY <1>a DEF ReaderRecords, EventSet
<1>e. ASSUME reader[r].pc \in {"seq", "epoch", "len", "crc", "copy"}
      PROVE  /\ reader[r].ev.long /\ reader[r].ev.pageIdx \in PageIdx
             /\ reader[r].ev.len > InlineWords /\ reader[r].ev.len <= PageWords
             /\ Page(r).seq \in 0 .. MaxSeq
             /\ Page(r).words \in [1 .. PageWords -> Word]
  <2>1. /\ reader[r].ev.long /\ reader[r].ev.pageIdx \in PageIdx
        /\ reader[r].ev.len > InlineWords /\ reader[r].ev.len <= PageWords
    BY <1>b, <1>e DEF Copying
  <2> QED BY <1>a, <2>1 DEF Page
<1>1. ASSUME NEW ev \in events \cup Foreign, ResolveStart(r, ev) PROVE ArenaInv'
  <2> DEFINE st == reader'[r]
  <2>1. ev \in EventSet
    BY EventFacts DEF TypeOK
  <2>2. ZeroWords \in [1 .. PageWords -> Word] /\ NoPayload \in Seq(Word) /\ InlineUsed(ev.inline) \in Seq(Word)
    BY <2>1, <1>c, InlineFacts DEF ZeroWords, NoPayload, EventSet
  <2>3. /\ reader' = [reader EXCEPT ![r] = st]
        /\ \E b \in BOOLEAN :
             st = [pc |-> st.pc, ev |-> ev, own |-> b, seq |-> 0, i |-> 0,
                   dst |-> ZeroWords, out |-> st.out]
        /\ st.pc \in {"ok", "error", "seq"}
        /\ st.pc = "ok" => ~ ev.long
        /\ st.pc = "seq" => /\ ev.long /\ ~ ev.pageIdx >= Capacity
                            /\ ~ ev.len <= InlineWords /\ ~ ev.len > PageWords
        /\ st.out \in Seq(Word)
    <3> DEFINE b == ev \in events
               pc == IF ~ ev.long THEN "ok"
                     ELSE IF ev.pageIdx >= Capacity \/ ev.len <= InlineWords
                             \/ ev.len > PageWords THEN "error"
                     ELSE "seq"
               out == IF ev.long THEN NoPayload ELSE InlineUsed(ev.inline)
    <3>1. b \in BOOLEAN /\ out \in Seq(Word)
      BY <2>2
    <3>2. /\ pc \in {"ok", "error", "seq"}
          /\ pc = "ok" => ~ ev.long
          /\ pc = "seq" => /\ ev.long /\ ~ ev.pageIdx >= Capacity
                           /\ ~ ev.len <= InlineWords /\ ~ ev.len > PageWords
      OBVIOUS
    <3>3. st = [pc |-> pc, ev |-> ev, own |-> b, seq |-> 0, i |-> 0, dst |-> ZeroWords, out |-> out]
      BY <1>1 DEF ResolveStart, TypeOK
    <3>4. reader' = [reader EXCEPT ![r] = st]
      BY <1>1, <3>3 DEF ResolveStart
    <3> HIDE DEF b, pc, out, st
    <3> QED BY <3>1, <3>2, <3>3, <3>4
  <2>4. st \in ReaderRecords
    BY <1>c, <2>1, <2>2, <2>3 DEF ReaderRecords
  <2>5. Copying(st) /\ ~ (st.pc = "ok" /\ st.ev.long)
    <3> HIDE DEF st
    <3>1. ev.pageIdx \in Nat /\ ev.len \in Nat
      BY <2>1 DEF EventSet
    <3>2. st.pc \in {"ok", "error", "seq"} /\ st.ev = ev
      BY <2>3
    <3>3. st.pc = "seq" => /\ ev.long /\ ev.pageIdx \in PageIdx
                           /\ ev.len > InlineWords /\ ev.len <= PageWords
      BY <3>1, <1>c, <2>3 DEF PageIdx
    <3> QED BY <2>3, <3>2, <3>3 DEF Copying
  <2> QED BY <1>1, <2>3, <2>4, <2>5, ReaderFrame DEF ResolveStart
<1>2. CASE ResolveLoadSeq(r)
  <2> DEFINE st == reader'[r]
  <2>1. reader' = [reader EXCEPT ![r] = st]
    BY <1>2, <1>a DEF ResolveLoadSeq, TypeOK
  <2>2. \/ st = [reader[r] EXCEPT !.seq = Page(r).seq, !.pc = "error"]
        \/ /\ Page(r).seq % 2 = 0
           /\ st = [reader[r] EXCEPT !.seq = Page(r).seq, !.pc = "epoch"]
    BY <1>2, <1>a DEF ResolveLoadSeq, TypeOK, ReaderRecords, Page
  <2> HIDE DEF st
  <2>p. reader[r].pc \in {"seq", "epoch", "len", "crc", "copy"}
    BY <1>2 DEF ResolveLoadSeq
  <2>3. st \in ReaderRecords
    BY <1>a, <1>c, <1>e, <2>p, <2>2 DEF ReaderRecords
  <2>4. Copying(st) /\ st.pc # "ok"
    <3>1. /\ st.ev = reader[r].ev /\ st.seq = Page(r).seq /\ st.pc \in {"error", "epoch"}
          /\ st.pc = "epoch" => Page(r).seq % 2 = 0
      BY <1>a, <2>2 DEF ReaderRecords
    <3>2. Page(r).seq <= Page(r).seq
      BY <1>c, <1>e, <2>p
    <3> QED BY <1>2, <1>e, <2>p, <3>1, <3>2 DEF Copying, Page
  <2> QED BY <1>2, <2>1, <2>3, <2>4, ReaderFrame DEF ResolveLoadSeq
<1>3. CASE ResolveLoadEpoch(r)
  <2> DEFINE st == reader'[r]
  <2>1. reader' = [reader EXCEPT ![r] = st]
    BY <1>3, <1>a DEF ResolveLoadEpoch, TypeOK
  <2>2. \/ st = [reader[r] EXCEPT !.pc = "error"]
        \/ /\ Page(r).Epoch = reader[r].ev.epoch
           /\ st = [reader[r] EXCEPT !.pc = "len"]
    BY <1>3, <1>a DEF ResolveLoadEpoch, TypeOK, ReaderRecords, Page
  <2> HIDE DEF st
  <2>p. reader[r].pc \in {"seq", "epoch", "len", "crc", "copy"}
    BY <1>3 DEF ResolveLoadEpoch
  <2>3. st \in ReaderRecords
    BY <1>a, <1>c, <1>e, <2>p, <2>2 DEF ReaderRecords
  <2>4. Copying(st) /\ st.pc # "ok"
    BY <1>3, <1>a, <1>b, <1>c, <1>d, <1>e, <2>p, <2>2 DEF ResolveLoadEpoch, Copying, Page, ReaderRecords
  <2> QED BY <1>3, <2>1, <2>3, <2>4, ReaderFrame DEF ResolveLoadEpoch
<1>4. CASE ResolveLoadLen(r)
  <2> DEFINE st == reader'[r]
  <2>1. reader' = [reader EXCEPT ![r] = st]
    BY <1>4, <1>a DEF ResolveLoadLen, TypeOK
  <2>2. \/ st = [reader[r] EXCEPT !.pc = "error"]
        \/ /\ Page(r).Len = reader[r].ev.len
           /\ st = [reader[r] EXCEPT !.pc = "crc"]
    BY <1>4, <1>a DEF ResolveLoadLen, TypeOK, ReaderRecords, Page
  <2> HIDE DEF st
  <2>p. reader[r].pc \in {"seq", "epoch", "len", "crc", "copy"}
    BY <1>4 DEF ResolveLoadLen
  <2>3. st \in ReaderRecords
    BY <1>a, <1>c, <1>e, <2>p, <2>2 DEF ReaderRecords
  <2>4. Copying(st) /\ st.pc # "ok"
    BY <1>4, <1>a, <1>b, <1>c, <1>d, <1>e, <2>p, <2>2 DEF ResolveLoadLen, Copying, Page, ReaderRecords
  <2> QED BY <1>4, <2>1, <2>3, <2>4, ReaderFrame DEF ResolveLoadLen
<1>5. CASE ResolveLoadCRC(r)
  <2> DEFINE st == reader'[r]
  <2>1. reader' = [reader EXCEPT ![r] = st]
    BY <1>5, <1>a DEF ResolveLoadCRC, TypeOK
  <2>2. \/ st = [reader[r] EXCEPT !.i = 1, !.pc = "error"]
        \/ st = [reader[r] EXCEPT !.i = 1, !.pc = "copy"]
    BY <1>5, <1>a DEF ResolveLoadCRC, TypeOK, ReaderRecords, Page
  <2> HIDE DEF st
  <2>p. reader[r].pc \in {"seq", "epoch", "len", "crc", "copy"}
    BY <1>5 DEF ResolveLoadCRC
  <2>3. st \in ReaderRecords
    <3>1. 1 \in 0 .. PageWords + 1
      BY <1>c
    <3> QED BY <1>a, <3>1, <2>2 DEF ReaderRecords
  <2>4. Copying(st) /\ st.pc # "ok"
    <3>1. /\ st.ev = reader[r].ev /\ st.seq = reader[r].seq /\ st.i = 1
          /\ st.pc \in {"error", "copy"}
      BY <1>a, <2>2 DEF ReaderRecords
    <3>2. 1 \in 1 .. reader[r].ev.len + 1 /\ 1 .. 1 - 1 = {}
      BY <1>d
    <3> QED BY <1>5, <1>b, <1>e, <2>p, <3>1, <3>2 DEF ResolveLoadCRC, Copying
  <2> QED BY <1>5, <2>1, <2>3, <2>4, ReaderFrame DEF ResolveLoadCRC
<1>6. CASE ResolveWord(r)
  <2> DEFINE st == reader'[r]
             i == reader[r].i
             dst == [reader[r].dst EXCEPT ![i] = Page(r).words[i]]
  <2>1. /\ i \in 1 .. PageWords /\ i <= reader[r].ev.len
    BY SMTT(30), <1>6, <1>b, <1>c, <1>d, <1>e DEF ResolveWord, Copying
  <2>2. /\ reader' = [reader EXCEPT ![r] = st]
        /\ st = [reader[r] EXCEPT !.dst = dst, !.i = i + 1]
    BY <1>6, <1>a DEF ResolveWord, TypeOK, ReaderRecords
  <2>3. dst \in [1 .. PageWords -> Word]
    BY <1>6, <1>d, <1>e, <2>1 DEF ResolveWord
  <2>4. st \in ReaderRecords
    <3> HIDE DEF dst
    <3>1. i + 1 \in 0 .. PageWords + 1
      BY <1>c, <2>1
    <3> QED BY <1>a, <2>2, <2>3, <3>1 DEF ReaderRecords
  <2>5. /\ st.pc = "copy" /\ st.ev = reader[r].ev /\ st.seq = reader[r].seq
        /\ st.i = i + 1 /\ st.dst = dst
    <3> HIDE DEF st, dst, i
    <3> QED BY <1>6, <1>a, <2>2 DEF ResolveWord, ReaderRecords
  <2>6. \A j \in 1 .. i : dst[j] = IF j = i THEN Page(r).words[i] ELSE reader[r].dst[j]
    BY <1>c, <1>d, <2>1
  <2>7. Copying(st)
    <3>1. st.i \in 1 .. st.ev.len + 1 /\ st.i - 1 = i
      BY SMTT(30), <1>c, <1>d, <2>1, <2>5
    <3>2. reader[r].pc = "copy"
      BY <1>6 DEF ResolveWord
    <3>3. ASSUME st.seq = Page(r).seq
          PROVE  \A j \in 1 .. i : dst[j] = Page(r).words[j]
      <4>1. \A j \in 1 .. i - 1 : reader[r].dst[j] = Page(r).words[j]
        BY <1>b, <2>5, <3>2, <3>3 DEF Copying, Page
      <4> HIDE DEF dst
      <4> QED BY <1>c, <1>d, <2>1, <2>6, <4>1
    <3> HIDE DEF st, dst, i
    <3> QED BY <1>b, <1>e, <2>5, <3>1, <3>2, <3>3 DEF Copying, Page
  <2> QED BY <1>6, <2>2, <2>4, <2>5, <2>7, ReaderFrame DEF ResolveWord
<1>7. CASE ResolveClose(r)
  <2> DEFINE st == reader'[r]
             ev == reader[r].ev
             s == SlotNamed(ev)
  <2>1. /\ reader' = [reader EXCEPT ![r] = st]
        /\ \/ st = [reader[r] EXCEPT !.pc = "error"]
           \/ /\ Page(r).seq = reader[r].seq
              /\ st = [reader[r] EXCEPT !.pc = "ok", !.out = SubSeq(reader[r].dst, 1, ev.len)]
    BY <1>7, <1>a DEF ResolveClose, TypeOK, ReaderRecords
  <2>2. CASE st = [reader[r] EXCEPT !.pc = "error"]
    <3>1. st \in ReaderRecords /\ Copying(st) /\ st.pc = "error"
      BY <1>a, <2>2 DEF ReaderRecords, Copying
    <3> QED BY <1>7, <2>1, <3>1, ReaderFrame DEF ResolveClose
  <2>3. CASE /\ Page(r).seq = reader[r].seq
             /\ st = [reader[r] EXCEPT !.pc = "ok", !.out = SubSeq(reader[r].dst, 1, ev.len)]
    <3>1. /\ ev.len \in InlineWords + 1 .. PageWords /\ ev.pageIdx \in PageIdx
          /\ reader[r].seq % 2 = 0
          /\ pages[ev.pageIdx].Epoch = ev.epoch /\ pages[ev.pageIdx].Len = ev.len
          /\ \A j \in 1 .. ev.len : reader[r].dst[j] = pages[ev.pageIdx].words[j]
      BY SMTT(30), <1>7, <1>b, <1>c, <1>d, <1>e, <2>3 DEF ResolveClose, Copying, Page
    <3>2. Holds(Page(r), s)
      BY <1>c, <2>3, <3>1 DEF RestInv, Resting, SlotNamed, Page
    <3>3. Capped(deposit[s]) \in Seq(Word) /\ Len(Capped(deposit[s])) = ev.len
      BY <3>1, <3>2, CappedFacts DEF Holds, Page
    <3>4. \A j \in 1 .. ev.len : reader[r].dst[j] = Capped(deposit[s])[j]
      BY <3>1, <3>2, <3>3 DEF Holds, Page
    <3>5. /\ reader[r].dst \in Seq(Word) /\ Len(reader[r].dst) = PageWords
      BY <1>a, <1>c DEF ReaderRecords
    <3>6. SubSeq(reader[r].dst, 1, ev.len) \in Seq(Word)
      BY <1>c, <3>1, <3>5
    <3>7. SubSeq(reader[r].dst, 1, ev.len) = Capped(deposit[s])
      BY <1>c, <3>1, <3>3, <3>4, <3>5
    <3>8. st \in ReaderRecords /\ Copying(st) /\ st.ev = ev /\ st.out = Capped(deposit[s])
      BY <1>a, <2>3, <3>6, <3>7 DEF ReaderRecords, Copying
    <3> QED BY <1>7, <2>1, <3>2, <3>8, ReaderFrame DEF ResolveClose, Holds
  <2> QED BY <2>1, <2>2, <2>3
<1> QED BY <1>1, <1>2, <1>3, <1>4, <1>5, <1>6, <1>7 DEF ReaderStep

-----------------------------------------------------------------------------
WriterRecords ==
  [pc : {"idle", "load", "cas", "copy", "crc", "epoch", "release"},
   data : LongPayloads \cup {NoPayload}, slot : Nat, seq : 0 .. MaxSeq,
   i : 0 .. PageWords + 1]
PageRecords ==
  [words : [1 .. PageWords -> Word], seq : 0 .. MaxSeq, Epoch : Nat,
   Len : 0 .. PageWords, CRC32 : CrcValues]

(* The slot that a page names is a natural number.                         *)
LEMMA NamedNat ==
  ASSUME NEW e \in Nat, NEW p \in Nat
  PROVE  e * Capacity + p \in Nat
<1>1. Capacity \in Nat
  BY ArenaAssumption
<1> QED BY <1>1

(* The state st of writer w and the contents pg of its page are a good next*)
(* step: seq only grows, a page whose seq did not move is held by the      *)
(* writer or is untouched, and the lock has one holder.                    *)
GoodWrite(w, st, pg) ==
  LET p == MyPage(w) IN
  /\ st \in WriterRecords /\ pg \in PageRecords
  /\ st.slot = writer[w].slot
  /\ Writing(st, pg) /\ Resting(pg, p)
  /\ pages[p].seq <= pg.seq
  /\ pages[p].seq = pg.seq => pg.seq % 2 = 1 \/ pg = pages[p]
  /\ (pg.seq % 2 = 1) <=> \/ st.pc \in Critical
                          \/ \E v \in Writers \ {w} : InCritical(v) /\ MyPage(v) = p
  /\ \/ pg = pages[p] /\ (st.pc \in Critical <=> InCritical(w))
     \/ \A v \in Writers \ {w} : InCritical(v) => MyPage(v) # p

(* Such a step preserves the invariant.                                    *)
LEMMA WriterFrame ==
  ASSUME ArenaInv, NEW w \in Writers, NEW st, NEW pg, GoodWrite(w, st, pg),
         writer' = [writer EXCEPT ![w] = st],
         pages' = [pages EXCEPT ![MyPage(w)] = pg],
         alloc' = alloc, reader' = reader, deposit' = deposit, events' \subseteq EventSet
  PROVE  ArenaInv'
<1> USE ArenaInv DEF ArenaInv
<1>0. MyPage(w) \in PageIdx
  BY SlotFacts DEF MyPage, TypeOK
<1> USE <1>0 DEF GoodWrite
<1> DEFINE p == MyPage(w)
<1>1. \A v \in Writers : writer'[v] = IF v = w THEN st ELSE writer[v]
  BY DEF TypeOK
<1>2. \A q \in PageIdx : pages'[q] = IF q = p THEN pg ELSE pages[q]
  BY DEF TypeOK
<1>3. \A v \in Writers : MyPage(v)' = MyPage(v) /\ (InCritical(v)' <=> IF v = w THEN st.pc \in Critical ELSE InCritical(v))
  BY <1>1 DEF MyPage, PageOf, InCritical
<1>4. TypeOK'
  BY DEF TypeOK, WriterRecords, PageRecords
<1>5. PageExclusive'
  <2> SUFFICES ASSUME NEW q \in PageIdx
               PROVE  /\ (pages'[q].seq % 2 = 1) <=> (\E v \in Writers : InCritical(v)' /\ MyPage(v)' = q)
                      /\ \A u, v \in Writers :
                           InCritical(u)' /\ InCritical(v)' /\ MyPage(u)' = q /\ MyPage(v)' = q => u = v
    BY DEF PageExclusive
  <2>1. /\ (pages[q].seq % 2 = 1) <=> (\E v \in Writers : InCritical(v) /\ MyPage(v) = q)
        /\ \A u, v \in Writers :
             InCritical(u) /\ InCritical(v) /\ MyPage(u) = q /\ MyPage(v) = q => u = v
    BY DEF PageExclusive
  <2>2. CASE q # p
    BY <1>2, <1>3, <2>1, <2>2
  <2>3. CASE q = p
    BY <1>2, <1>3, <2>1, <2>3
  <2> QED BY <2>2, <2>3
<1>6. WriterInv'
  <2> SUFFICES ASSUME NEW v \in Writers PROVE Writing(writer[v], pages[MyPage(v)])'
    BY DEF WriterInv, Writing
  <2>1. MyPage(v) \in PageIdx
    BY SlotFacts DEF MyPage, TypeOK
  <2>2. CASE v = w
    BY <1>1, <1>2, <1>3, <2>2 DEF Writing
  <2>3. CASE v # w
    <3>1. Writing(writer[v], pages[MyPage(v)]) /\ writer'[v] = writer[v] /\ MyPage(v)' = MyPage(v)
      BY <1>1, <1>3, <2>3 DEF WriterInv
    <3>2. pages'[MyPage(v)] = pages[MyPage(v)] \/ ~ writer[v].pc \in Critical
      BY <1>2, <2>1, <2>3 DEF InCritical
    <3> QED BY <3>1, <3>2 DEF Writing, Critical
  <2> QED BY <2>2, <2>3
<1>7. RestInv'
  <2> SUFFICES ASSUME NEW q \in PageIdx PROVE Resting(pages[q], q)'
    BY DEF RestInv, Resting, Holds
  <2>1. Resting(pages'[q], q)
    BY <1>2 DEF RestInv
  <2> QED BY <2>1 DEF Resting, Holds
<1>8. CopyInv'
  <2> SUFFICES ASSUME NEW r \in Readers PROVE Copying(reader[r])'
    BY DEF CopyInv
  <2>1. Copying(reader[r]) /\ reader'[r] = reader[r]
    BY DEF CopyInv
  <2>2. CASE reader[r].ev.pageIdx # p
    <3>1. reader[r].ev.pageIdx \in PageIdx => pages'[reader[r].ev.pageIdx] = pages[reader[r].ev.pageIdx]
      BY <1>2, <2>2
    <3> QED BY <2>1, <3>1 DEF Copying
  <2>3. CASE reader[r].ev.pageIdx = p /\ pg = pages[p]
    BY <1>2, <2>1, <2>3 DEF Copying
  <2>4. CASE reader[r].ev.pageIdx = p /\ pg # pages[p]
    <3>1. /\ reader[r].seq \in 0 .. MaxSeq /\ pages[p].seq \in 0 .. MaxSeq /\ pg.seq \in 0 .. MaxSeq
          /\ MaxSeq \in Nat
      BY ArenaAssumption DEF TypeOK, PageRecords
    <3>2. reader[r].seq % 2 = 0 /\ reader[r].seq <= pages[p].seq =>
            reader[r].seq <= pg.seq /\ reader[r].seq # pg.seq
      BY <2>4, <3>1
    <3> QED BY <1>2, <2>1, <2>4, <3>2 DEF Copying
  <2> QED BY <2>2, <2>3, <2>4
<1>9. ReadExact'
  BY DEF ReadExact
<1> QED BY <1>4, <1>5, <1>6, <1>7, <1>8, <1>9

(* What the invariant says of one writer and of its page.                  *)
LEMMA WriterFacts ==
  ASSUME ArenaInv, NEW w \in Writers
  PROVE  /\ writer[w] \in WriterRecords
         /\ MyPage(w) \in PageIdx
         /\ pages[MyPage(w)] \in PageRecords
         /\ Writing(writer[w], pages[MyPage(w)])
         /\ Resting(pages[MyPage(w)], MyPage(w))
         /\ InCritical(w) => pages[MyPage(w)].seq % 2 = 1
         /\ InCritical(w) \/ pages[MyPage(w)].seq % 2 = 0 =>
              \A v \in Writers \ {w} : InCritical(v) => MyPage(v) # MyPage(w)
         /\ writer[w].pc # "idle" =>
              /\ MyWords(w) \in Seq(Word)
              /\ Len(MyWords(w)) \in 1 .. PageWords
              /\ \A j \in 1 .. Len(MyWords(w)) : MyWords(w)[j] \in Word
              /\ Crc[MyWords(w)] \in CrcValues
<1> USE ArenaInv DEF ArenaInv
<1>1. writer[w] \in WriterRecords
  BY DEF TypeOK, WriterRecords
<1>2. MyPage(w) \in PageIdx
  BY <1>1, SlotFacts DEF MyPage, WriterRecords
<1>3. pages[MyPage(w)] \in PageRecords
  BY <1>2 DEF TypeOK, PageRecords
<1>4. Writing(writer[w], pages[MyPage(w)]) /\ Resting(pages[MyPage(w)], MyPage(w))
  BY <1>2 DEF WriterInv, RestInv
<1>5. /\ InCritical(w) => pages[MyPage(w)].seq % 2 = 1
      /\ InCritical(w) \/ pages[MyPage(w)].seq % 2 = 0 =>
           \A v \in Writers \ {w} : InCritical(v) => MyPage(v) # MyPage(w)
  BY <1>2 DEF PageExclusive
<1>6. ASSUME writer[w].pc # "idle"
      PROVE  /\ MyWords(w) \in Seq(Word)
             /\ Len(MyWords(w)) \in 1 .. PageWords
             /\ \A j \in 1 .. Len(MyWords(w)) : MyWords(w)[j] \in Word
             /\ Crc[MyWords(w)] \in CrcValues
  <2>1. writer[w].data \in LongPayloads
    BY <1>4, <1>6 DEF Writing
  <2>2. PageWords \in Nat /\ InlineWords \in Nat
    BY ArenaAssumption
  <2> QED BY <2>1, <2>2, CappedFacts DEF MyWords
<1> QED BY <1>1, <1>2, <1>3, <1>4, <1>5, <1>6

(* A write to the page inside the critical section is a good step.         *)
LEMMA HeldWrite ==
  ASSUME ArenaInv, NEW w \in Writers, NEW st, NEW pg, InCritical(w),
         st \in WriterRecords, pg \in PageRecords,
         st.slot = writer[w].slot, st.pc \in Critical,
         pg.seq = pages[MyPage(w)].seq, Writing(st, pg)
  PROVE  GoodWrite(w, st, pg)
<1> DEFINE p == MyPage(w)
<1>1. pages[p].seq % 2 = 1 /\ \A v \in Writers \ {w} : InCritical(v) => MyPage(v) # p
  BY WriterFacts
<1>2. Resting(pg, p)
  BY <1>1 DEF Resting
<1>3. pages[p].seq <= pg.seq
  BY DEF PageRecords
<1> QED BY <1>1, <1>2, <1>3 DEF GoodWrite

LEMMA WriterStepInv ==
  ASSUME ArenaInv, NEW w \in Writers, WriterStep(w)
  PROVE  ArenaInv'
<1> USE ArenaInv
<1> DEFINE p == MyPage(w)
           st == writer'[w]
           pg == pages'[p]
<1>a. /\ writer[w] \in WriterRecords /\ p \in PageIdx /\ pages[p] \in PageRecords
      /\ Writing(writer[w], pages[p]) /\ Resting(pages[p], p)
      /\ InCritical(w) => pages[p].seq % 2 = 1
      /\ InCritical(w) \/ pages[p].seq % 2 = 0 =>
           \A v \in Writers \ {w} : InCritical(v) => MyPage(v) # p
      /\ writer[w].pc # "idle" =>
           /\ MyWords(w) \in Seq(Word)
           /\ Len(MyWords(w)) \in 1 .. PageWords
           /\ \A j \in 1 .. Len(MyWords(w)) : MyWords(w)[j] \in Word
           /\ Crc[MyWords(w)] \in CrcValues
  BY WriterFacts
<1>b. /\ PageWords \in Nat /\ MaxSeq \in Nat /\ Capacity \in Nat
      /\ writer \in [Writers -> WriterRecords] /\ pages \in [PageIdx -> PageRecords]
      /\ events \subseteq EventSet
  BY ArenaAssumption DEF ArenaInv, TypeOK, WriterRecords, PageRecords
<1>c. (pages[p].seq % 2 = 1) <=> \E v \in Writers : InCritical(v) /\ MyPage(v) = p
  BY <1>a DEF ArenaInv, PageExclusive
<1>1. CASE StoreLoadSeq(w)
  <2>1. /\ writer' = [writer EXCEPT ![w] = st] /\ pages' = [pages EXCEPT ![p] = pg]
        /\ st = [writer[w] EXCEPT !.pc = "cas", !.seq = pages[p].seq]
        /\ pg = pages[p] /\ pages[p].seq % 2 = 0
    BY <1>1, <1>a, <1>b DEF StoreLoadSeq
  <2>2. /\ writer[w].pc = "load"
        /\ alloc' = alloc /\ reader' = reader /\ deposit' = deposit /\ events' = events
    BY <1>1 DEF StoreLoadSeq
  <2> HIDE DEF st, pg, p
  <2>3. /\ st \in WriterRecords /\ st.pc = "cas" /\ st.slot = writer[w].slot
        /\ st.seq = pages[p].seq /\ st.data = writer[w].data
    BY <1>a, <2>1 DEF WriterRecords, PageRecords
  <2>4. Writing(st, pg)
    BY <1>a, <2>1, <2>2, <2>3 DEF Writing, Critical
  <2>5. ~ InCritical(w) /\ st.pc \notin Critical
    BY <2>2, <2>3 DEF InCritical, Critical
  <2>6. pages[p].seq <= pg.seq
    BY <1>a, <2>1 DEF PageRecords
  <2>7. GoodWrite(w, st, pg)
    BY <1>a, <1>c, <2>1, <2>3, <2>4, <2>5, <2>6 DEF GoodWrite, p
  <2>8. /\ events' \subseteq EventSet
        /\ pages' = [pages EXCEPT ![MyPage(w)] = pg]
        /\ writer' = [writer EXCEPT ![w] = st]
    BY <1>b, <2>1, <2>2 DEF p
  <2> QED
    BY <2>2, <2>7, <2>8, WriterFrame
<1>2. CASE StoreAcquire(w)
  <2>1. /\ writer[w].pc = "cas"
        /\ alloc' = alloc /\ reader' = reader /\ deposit' = deposit /\ events' = events
    BY <1>2 DEF StoreAcquire
  <2>2. /\ writer' = [writer EXCEPT ![w] = st] /\ pages' = [pages EXCEPT ![p] = pg]
        /\ \/ /\ pages[p].seq = writer[w].seq /\ writer[w].seq + 2 <= MaxSeq
              /\ st = [writer[w] EXCEPT !.pc = "copy", !.i = 1]
              /\ pg = [pages[p] EXCEPT !.seq = writer[w].seq + 1]
           \/ /\ st = [writer[w] EXCEPT !.pc = "load"]
              /\ pg = pages[p]
    BY <1>2, <1>a, <1>b DEF StoreAcquire
  <2> HIDE DEF st, pg, p
  <2>3. writer[w].seq \in Nat /\ writer[w].seq % 2 = 0 /\ ~ InCritical(w)
    BY <1>a, <1>b, <2>1 DEF Writing, WriterRecords, InCritical, Critical
  <2>4. ASSUME pages[p].seq = writer[w].seq, writer[w].seq + 2 <= MaxSeq,
               st = [writer[w] EXCEPT !.pc = "copy", !.i = 1],
               pg = [pages[p] EXCEPT !.seq = writer[w].seq + 1]
        PROVE  GoodWrite(w, st, pg)
    <3>1. /\ st.pc = "copy" /\ st.i = 1 /\ st.slot = writer[w].slot
          /\ st.seq = writer[w].seq /\ st.data = writer[w].data
          /\ pg.seq = writer[w].seq + 1
      BY <1>a, <2>4 DEF WriterRecords, PageRecords
    <3>2. st \in WriterRecords /\ pg \in PageRecords
      <4>1. 1 \in 0 .. PageWords + 1 /\ writer[w].seq + 1 \in 0 .. MaxSeq
        BY <1>b, <2>3, <2>4
      <4> QED BY <1>a, <2>4, <4>1 DEF WriterRecords, PageRecords
    <3>3. pg.seq % 2 = 1 /\ pages[p].seq < pg.seq
      BY <2>3, <2>4, <3>1
    <3>4. Writing(st, pg)
      <4>1. 1 \in 1 .. Len(MyWords(w)) + 1 /\ 1 .. 1 - 1 = {}
        BY <1>a, <1>b, <2>1
      <4> QED BY <1>a, <2>1, <2>3, <2>4, <3>1, <4>1 DEF Writing, Critical, MyWords
    <3>5. Resting(pg, p) /\ st.pc \in Critical
      BY <3>1, <3>3 DEF Resting, Critical
    <3>6. \A v \in Writers \ {w} : InCritical(v) => MyPage(v) # p
      BY <1>a, <2>3, <2>4
    <3>7. pages[p].seq \in Nat /\ pg.seq \in Nat
      BY <2>3, <2>4, <3>1
    <3> QED BY <3>1, <3>2, <3>3, <3>4, <3>5, <3>6, <3>7 DEF GoodWrite, p
  <2>5. ASSUME st = [writer[w] EXCEPT !.pc = "load"], pg = pages[p]
        PROVE  GoodWrite(w, st, pg)
    <3>1. /\ st \in WriterRecords /\ st.pc = "load" /\ st.slot = writer[w].slot
          /\ st.data = writer[w].data
      BY <1>a, <2>5 DEF WriterRecords
    <3>2. Writing(st, pg) /\ st.pc \notin Critical
      BY <1>a, <2>1, <2>5, <3>1 DEF Writing, Critical
    <3>3. pages[p].seq <= pg.seq
      BY <1>a, <2>5 DEF PageRecords
    <3> QED BY <1>a, <1>c, <2>3, <2>5, <3>1, <3>2, <3>3 DEF GoodWrite, p
  <2>7. GoodWrite(w, st, pg)
    BY <2>2, <2>4, <2>5
  <2>8. /\ events' \subseteq EventSet
        /\ pages' = [pages EXCEPT ![MyPage(w)] = pg]
        /\ writer' = [writer EXCEPT ![w] = st]
    BY <1>b, <2>1, <2>2 DEF p
  <2> QED
    BY <2>1, <2>7, <2>8, WriterFrame
<1>3. CASE StoreWord(w)
  <2>1. /\ writer' = [writer EXCEPT ![w] = st] /\ pages' = [pages EXCEPT ![p] = pg]
        /\ st = [writer[w] EXCEPT !.i = writer[w].i + 1]
        /\ pg = [pages[p] EXCEPT !.words = [pages[p].words EXCEPT ![writer[w].i] = MyWords(w)[writer[w].i]]]
        /\ writer[w].i <= Len(MyWords(w))
    BY <1>3, <1>a, <1>b DEF StoreWord
  <2>2. /\ writer[w].pc = "copy" /\ InCritical(w)
        /\ alloc' = alloc /\ reader' = reader /\ deposit' = deposit /\ events' = events
    BY <1>3 DEF StoreWord, InCritical, Critical
  <2> HIDE DEF st, pg, p
  <2> DEFINE i == writer[w].i
             ws == [pages[p].words EXCEPT ![i] = MyWords(w)[i]]
  <2>a. /\ i \in 1 .. Len(MyWords(w)) /\ i \in 1 .. PageWords
        /\ pages[p].words \in [1 .. PageWords -> Word]
    <3>1. i \in 1 .. Len(MyWords(w)) + 1
      BY <1>a, <2>2 DEF Writing, MyWords, Critical
    <3>2. pages[p].words \in [1 .. PageWords -> Word]
      BY <1>a DEF PageRecords
    <3>3. Len(MyWords(w)) \in 1 .. PageWords
      BY <1>a, <2>2
    <3> QED BY <1>b, <2>1, <3>1, <3>2, <3>3
  <2>b. ws \in [1 .. PageWords -> Word]
    BY <1>a, <2>2, <2>a
  <2>c. \A j \in 1 .. i : ws[j] = IF j = i THEN MyWords(w)[i] ELSE pages[p].words[j]
    BY <1>b, <2>a
  <2> HIDE DEF ws
  <2>3. st \in WriterRecords /\ pg \in PageRecords
    <3>1. i + 1 \in 0 .. PageWords + 1
      BY <1>b, <2>a
    <3>2. pg = [pages[p] EXCEPT !.words = ws]
      BY <2>1 DEF ws
    <3> QED BY <1>a, <2>1, <2>b, <3>1, <3>2 DEF WriterRecords, PageRecords
  <2>4. /\ st.slot = writer[w].slot /\ st.pc = "copy" /\ st.pc \in Critical
        /\ st.i = i + 1 /\ st.data = writer[w].data /\ st.seq = writer[w].seq
        /\ pg.seq = pages[p].seq /\ pg.words = ws
    <3>1. pg = [pages[p] EXCEPT !.words = ws]
      BY <2>1 DEF ws
    <3> QED BY <1>a, <2>1, <2>2, <3>1 DEF WriterRecords, PageRecords, Critical
  <2>5. Writing(st, pg)
    <3>1. i + 1 \in 1 .. Len(MyWords(w)) + 1 /\ (i + 1) - 1 = i
      BY SMTT(30), <1>a, <1>b, <2>2, <2>a
    <3>2. \A j \in 1 .. i - 1 : pages[p].words[j] = MyWords(w)[j]
      BY <1>a, <2>2 DEF Writing, MyWords, Critical
    <3>3. \A j \in 1 .. i : ws[j] = MyWords(w)[j]
      BY <2>a, <2>c, <3>2, <1>b
    <3> HIDE DEF i
    <3> QED BY <1>a, <2>2, <2>4, <3>1, <3>3 DEF Writing, MyWords, Critical
  <2>7. GoodWrite(w, st, pg)
    BY <2>2, <2>3, <2>4, <2>5, HeldWrite DEF p
  <2>8. /\ events' \subseteq EventSet
        /\ pages' = [pages EXCEPT ![MyPage(w)] = pg]
        /\ writer' = [writer EXCEPT ![w] = st]
    BY <1>b, <2>1, <2>2 DEF p
  <2> QED
    BY <2>2, <2>7, <2>8, WriterFrame
<1>4. CASE StoreLen(w)
  <2>1. /\ writer' = [writer EXCEPT ![w] = st] /\ pages' = [pages EXCEPT ![p] = pg]
        /\ st = [writer[w] EXCEPT !.pc = "crc"]
        /\ pg = [pages[p] EXCEPT !.Len = Len(MyWords(w))]
        /\ writer[w].i > Len(MyWords(w))
    BY <1>4, <1>a, <1>b DEF StoreLen
  <2>2. /\ writer[w].pc = "copy" /\ InCritical(w)
        /\ alloc' = alloc /\ reader' = reader /\ deposit' = deposit /\ events' = events
    BY <1>4 DEF StoreLen, InCritical, Critical
  <2> HIDE DEF st, pg, p
  <2>a. /\ Len(MyWords(w)) \in 0 .. PageWords
        /\ writer[w].i = Len(MyWords(w)) + 1
    <3>1. writer[w].i \in 1 .. Len(MyWords(w)) + 1
      BY <1>a, <2>2 DEF Writing, MyWords, Critical
    <3> QED BY <1>a, <1>b, <2>1, <2>2, <3>1
  <2>3. st \in WriterRecords /\ pg \in PageRecords
    BY <1>a, <2>1, <2>a DEF WriterRecords, PageRecords
  <2>4. /\ st.slot = writer[w].slot /\ st.pc = "crc" /\ st.pc \in Critical
        /\ st.i = writer[w].i /\ st.data = writer[w].data /\ st.seq = writer[w].seq
        /\ pg.seq = pages[p].seq /\ pg.words = pages[p].words
        /\ pg.Len = Len(MyWords(w))
    BY <1>a, <2>1 DEF WriterRecords, PageRecords, Critical
  <2>5. Writing(st, pg)
    BY <1>a, <2>2, <2>4, <2>a DEF Writing, MyWords, Critical
  <2>7. GoodWrite(w, st, pg)
    BY <2>2, <2>3, <2>4, <2>5, HeldWrite DEF p
  <2>8. /\ events' \subseteq EventSet
        /\ pages' = [pages EXCEPT ![MyPage(w)] = pg]
        /\ writer' = [writer EXCEPT ![w] = st]
    BY <1>b, <2>1, <2>2 DEF p
  <2> QED
    BY <2>2, <2>7, <2>8, WriterFrame
<1>5. CASE StoreCRC(w)
  <2>1. /\ writer' = [writer EXCEPT ![w] = st] /\ pages' = [pages EXCEPT ![p] = pg]
        /\ st = [writer[w] EXCEPT !.pc = "epoch"]
        /\ pg = [pages[p] EXCEPT !.CRC32 = Crc[MyWords(w)]]
    BY <1>5, <1>a, <1>b DEF StoreCRC
  <2>2. /\ writer[w].pc = "crc" /\ InCritical(w)
        /\ alloc' = alloc /\ reader' = reader /\ deposit' = deposit /\ events' = events
    BY <1>5 DEF StoreCRC, InCritical, Critical
  <2> HIDE DEF st, pg, p
  <2>a. Crc[MyWords(w)] \in CrcValues
    BY <1>a, <2>2
  <2>3. st \in WriterRecords /\ pg \in PageRecords
    BY <1>a, <2>1, <2>a DEF WriterRecords, PageRecords
  <2>4. /\ st.slot = writer[w].slot /\ st.pc = "epoch" /\ st.pc \in Critical
        /\ st.i = writer[w].i /\ st.data = writer[w].data /\ st.seq = writer[w].seq
        /\ pg.seq = pages[p].seq /\ pg.words = pages[p].words
        /\ pg.CRC32 = Crc[MyWords(w)] /\ pg.Len = pages[p].Len
    BY <1>a, <2>1 DEF WriterRecords, PageRecords, Critical
  <2>5. Writing(st, pg)
    BY <1>a, <2>2, <2>4 DEF Writing, MyWords, Critical
  <2>7. GoodWrite(w, st, pg)
    BY <2>2, <2>3, <2>4, <2>5, HeldWrite DEF p
  <2>8. /\ events' \subseteq EventSet
        /\ pages' = [pages EXCEPT ![MyPage(w)] = pg]
        /\ writer' = [writer EXCEPT ![w] = st]
    BY <1>b, <2>1, <2>2 DEF p
  <2> QED
    BY <2>2, <2>7, <2>8, WriterFrame
<1>6. CASE StoreEpoch(w)
  <2>1. /\ writer' = [writer EXCEPT ![w] = st] /\ pages' = [pages EXCEPT ![p] = pg]
        /\ st = [writer[w] EXCEPT !.pc = "release"]
        /\ pg = [pages[p] EXCEPT !.Epoch = EpochOf(writer[w].slot)]
    BY <1>6, <1>a, <1>b DEF StoreEpoch
  <2>2. /\ writer[w].pc = "epoch" /\ InCritical(w)
        /\ alloc' = alloc /\ reader' = reader /\ deposit' = deposit /\ events' = events
    BY <1>6 DEF StoreEpoch, InCritical, Critical
  <2> HIDE DEF st, pg, p
  <2>a. EpochOf(writer[w].slot) \in Nat
    BY <1>a, SlotFacts DEF WriterRecords
  <2>3. st \in WriterRecords /\ pg \in PageRecords
    BY <1>a, <2>1, <2>a DEF WriterRecords, PageRecords
  <2>4. /\ st.slot = writer[w].slot /\ st.pc = "release" /\ st.pc \in Critical
        /\ st.i = writer[w].i /\ st.data = writer[w].data /\ st.seq = writer[w].seq
        /\ pg.seq = pages[p].seq /\ pg.words = pages[p].words
        /\ pg.Epoch = EpochOf(writer[w].slot) /\ pg.Len = pages[p].Len
    BY <1>a, <2>1 DEF WriterRecords, PageRecords, Critical
  <2>5. Writing(st, pg)
    BY <1>a, <2>2, <2>4 DEF Writing, MyWords, Critical
  <2>7. GoodWrite(w, st, pg)
    BY <2>2, <2>3, <2>4, <2>5, HeldWrite DEF p
  <2>8. /\ events' \subseteq EventSet
        /\ pages' = [pages EXCEPT ![MyPage(w)] = pg]
        /\ writer' = [writer EXCEPT ![w] = st]
    BY <1>b, <2>1, <2>2 DEF p
  <2> QED
    BY <2>2, <2>7, <2>8, WriterFrame
<1>7. CASE StoreRelease(w)
  <2>1. /\ writer' = [writer EXCEPT ![w] = st] /\ pages' = [pages EXCEPT ![p] = pg]
        /\ st = [writer[w] EXCEPT !.pc = "idle"]
        /\ pg = [pages[p] EXCEPT !.seq = writer[w].seq + 2]
    BY <1>7, <1>a, <1>b DEF StoreRelease
  <2>2. /\ writer[w].pc = "release" /\ InCritical(w)
        /\ alloc' = alloc /\ reader' = reader /\ deposit' = deposit
        /\ events' = events \cup {LongEvent(writer[w].slot, writer[w].data)}
    BY <1>7 DEF StoreRelease, InCritical, Critical
  <2> HIDE DEF st, pg, p
  <2>3. /\ writer[w].slot \in 0 .. alloc - 1 /\ writer[w].slot \in Nat
        /\ writer[w].data \in LongPayloads /\ deposit[writer[w].slot] = writer[w].data
        /\ writer[w].seq \in Nat /\ writer[w].seq % 2 = 0 /\ writer[w].seq + 2 <= MaxSeq
        /\ pages[p].seq = writer[w].seq + 1
        /\ pages[p].Len = Len(MyWords(w)) /\ pages[p].Epoch = EpochOf(writer[w].slot)
        /\ writer[w].i = Len(MyWords(w)) + 1
        /\ \A j \in 1 .. writer[w].i - 1 : pages[p].words[j] = MyWords(w)[j]
    BY <1>a, <1>b, <2>2 DEF Writing, WriterRecords, Critical, MyWords
  <2>4. /\ st \in WriterRecords /\ pg \in PageRecords /\ st.pc = "idle"
        /\ st.slot = writer[w].slot /\ pg.seq = writer[w].seq + 2
        /\ pg.Len = pages[p].Len /\ pg.words = pages[p].words /\ pg.Epoch = pages[p].Epoch
    <3>1. writer[w].seq + 2 \in 0 .. MaxSeq
      BY <1>b, <2>3
    <3> QED BY <1>a, <2>1, <3>1 DEF WriterRecords, PageRecords
  <2>5. Writing(st, pg) /\ st.pc \notin Critical
    BY <2>4 DEF Writing, Critical
  <2>6. pg.seq % 2 = 0 /\ pages[p].seq < pg.seq /\ pages[p].seq \in Nat /\ pg.seq \in Nat
    BY <2>3, <2>4
  <2>7. Resting(pg, p)
    <3>1. pg.Epoch * Capacity + p = writer[w].slot
      BY ZenonT(30), <2>3, <2>4, SlotFacts DEF p, MyPage
    <3>2. alloc \in Nat
      BY ArenaAssumption DEF ArenaInv, TypeOK
    <3>3. \A j \in 1 .. Len(MyWords(w)) : pg.words[j] = MyWords(w)[j]
      BY <1>a, <1>b, <2>2, <2>3, <2>4
    <3>4. Holds(pg, writer[w].slot)
      BY <2>3, <2>4, <3>2, <3>3 DEF Holds, MyWords
    <3> QED BY <3>1, <3>4 DEF Resting
  <2>8. \A v \in Writers \ {w} : InCritical(v) => MyPage(v) # p
    BY <1>a, <2>2
  <2>9. GoodWrite(w, st, pg)
    BY <2>4, <2>5, <2>6, <2>7, <2>8 DEF GoodWrite, p
  <2>10. /\ events' \subseteq EventSet
         /\ pages' = [pages EXCEPT ![MyPage(w)] = pg]
         /\ writer' = [writer EXCEPT ![w] = st]
    BY <1>b, <2>1, <2>2, <2>3, EventFacts DEF p
  <2> QED
    BY <2>2, <2>9, <2>10, WriterFrame
<1> QED BY <1>1, <1>2, <1>3, <1>4, <1>5, <1>6, <1>7 DEF WriterStep

(* A caller that deposits a payload takes a slot nobody holds.             *)
LEMMA StoreStartInv ==
  ASSUME ArenaInv, NEW w \in Writers, NEW d \in Payloads,
         StoreShort(w, d) \/ StoreAlloc(w, d)
  PROVE  ArenaInv'
<1> USE ArenaInv DEF ArenaInv
<1>a. alloc \in Nat /\ MaxStores \in Nat /\ PageWords \in Nat /\ MaxSeq \in Nat
  BY ArenaAssumption DEF TypeOK
<1>1. CASE StoreShort(w, d)
  <2>1. ShortEvent(d) \in EventSet
    BY EventFacts
  <2>2. UNCHANGED <<alloc, pages, writer, reader, deposit>>
        /\ events' = events \cup {ShortEvent(d)}
    BY <1>1 DEF StoreShort
  <2>3. TypeOK'
    BY <2>1, <2>2 DEF TypeOK
  <2>4. PageExclusive' /\ WriterInv' /\ RestInv'
    BY <2>2 DEF PageExclusive, WriterInv, Writing, RestInv, Resting, InCritical, MyPage, Holds
  <2>5. CopyInv' /\ ReadExact'
    BY <2>2 DEF CopyInv, Copying, ReadExact
  <2> QED BY <2>3, <2>4, <2>5
<1>2. CASE StoreAlloc(w, d)
  <2> DEFINE st == [pc |-> "load", data |-> d, slot |-> alloc, seq |-> 0, i |-> 0]
  <2>1. /\ writer[w].pc = "idle" /\ alloc < MaxStores /\ alloc' = alloc + 1
        /\ deposit' = [deposit EXCEPT ![alloc] = d]
        /\ writer' = [writer EXCEPT ![w] = st]
        /\ UNCHANGED <<pages, reader, events>>
    BY <1>2 DEF StoreAlloc
  <2>2. d \in LongPayloads
    BY <1>2 DEF StoreAlloc, LongPayloads
  <2>3. \A v \in Writers : writer'[v] = IF v = w THEN st ELSE writer[v]
    BY <2>1 DEF TypeOK
  <2>4. /\ \A s \in Nat : s < alloc => deposit'[s] = deposit[s]
        /\ deposit'[alloc] = d
    BY <1>a, <2>1 DEF TypeOK, Slots
  <2>5. TypeOK'
    <3>1. st \in WriterRecords
      BY <1>a, <2>2 DEF WriterRecords
    <3>2. writer' \in [Writers -> WriterRecords]
      BY <2>1, <3>1 DEF TypeOK, WriterRecords
    <3>3. deposit' \in [Slots -> LongPayloads \cup {NoPayload}] /\ alloc' \in 0 .. MaxStores
      BY <1>a, <2>1, <2>2 DEF TypeOK, Slots
    <3> QED BY <2>1, <3>2, <3>3 DEF TypeOK, WriterRecords
  <2>6. ASSUME NEW v \in Writers
        PROVE  /\ InCritical(v)' <=> InCritical(v)
               /\ InCritical(v) => MyPage(v)' = MyPage(v)
    <3>1. CASE v = w
      <4>1. writer'[v].pc = "load" /\ writer[v].pc = "idle"
        BY <2>1, <2>3, <3>1
      <4> QED BY <4>1 DEF InCritical, Critical
    <3>2. CASE v # w
      <4>1. writer'[v] = writer[v]
        BY <2>3, <3>2
      <4> QED BY <4>1 DEF InCritical, MyPage
    <3> QED BY <3>1, <3>2
  <2>7. PageExclusive'
    <3> SUFFICES ASSUME NEW q \in PageIdx
                 PROVE  /\ (pages'[q].seq % 2 = 1) <=> (\E v \in Writers : InCritical(v)' /\ MyPage(v)' = q)
                        /\ \A u, v \in Writers :
                             InCritical(u)' /\ InCritical(v)' /\ MyPage(u)' = q /\ MyPage(v)' = q => u = v
      BY DEF PageExclusive
    <3>1. /\ (pages[q].seq % 2 = 1) <=> (\E v \in Writers : InCritical(v) /\ MyPage(v) = q)
          /\ \A u, v \in Writers :
               InCritical(u) /\ InCritical(v) /\ MyPage(u) = q /\ MyPage(v) = q => u = v
      BY DEF PageExclusive
    <3>2. pages' = pages
      BY <2>1
    <3>3. \A v \in Writers : InCritical(v)' /\ MyPage(v)' = q <=> InCritical(v) /\ MyPage(v) = q
      BY <2>6
    <3> QED BY <3>1, <3>2, <3>3
  <2>8. WriterInv'
    <3> SUFFICES ASSUME NEW v \in Writers PROVE Writing(writer[v], pages[MyPage(v)])'
      BY DEF WriterInv
    <3>1. CASE v = w
      <4>1. writer'[v] = st
        BY <2>3, <3>1
      <4>2. alloc \in 0 .. alloc' - 1
        BY <1>a, <2>1
      <4> QED BY <2>2, <2>4, <4>1, <4>2 DEF Writing, Critical
    <3>2. CASE v # w
      <4>1. writer'[v] = writer[v] /\ MyPage(v)' = MyPage(v) /\ pages' = pages
        BY <2>1, <2>3, <3>2 DEF MyPage
      <4>2. Writing(writer[v], pages[MyPage(v)])
        BY DEF WriterInv
      <4>3. writer[v].pc # "idle" =>
              writer[v].slot \in 0 .. alloc' - 1 /\ deposit'[writer[v].slot] = deposit[writer[v].slot]
        BY <1>a, <2>1, <2>4, <4>2 DEF Writing
      <4> QED BY <4>1, <4>2, <4>3 DEF Writing
    <3> QED BY <3>1, <3>2
  <2>9. RestInv'
    <3> SUFFICES ASSUME NEW p \in PageIdx PROVE Resting(pages[p], p)'
      BY DEF RestInv
    <3>1. pages'[p] = pages[p] /\ Resting(pages[p], p)
      BY <2>1 DEF RestInv
    <3> DEFINE s == pages[p].Epoch * Capacity + p
    <3>2. s \in Nat
      <4>1. pages[p].Epoch \in Nat /\ p \in Nat
        BY SMTT(30), ArenaAssumption DEF TypeOK, PageIdx
      <4> QED BY <4>1, NamedNat
    <3>4. s' = s
      BY <3>1
    <3> HIDE DEF s
    <3>3. Holds(pages[p], s) => Holds(pages[p], s)'
      BY <1>a, <2>1, <2>4, <3>1, <3>2, <3>4 DEF Holds
    <3> QED BY <3>1, <3>3 DEF Resting, s
  <2>10. CopyInv'
    BY <2>1 DEF CopyInv, Copying
  <2>11. ReadExact'
    <3> SUFFICES ASSUME NEW r \in Readers, reader[r].pc = "ok", reader[r].ev.long
                 PROVE  LET s == SlotNamed(reader[r].ev) IN
                        s < alloc' /\ reader[r].out = Capped(deposit'[s])
      BY <2>1 DEF ReadExact
    <3> DEFINE s == SlotNamed(reader[r].ev)
    <3>1. s < alloc /\ reader[r].out = Capped(deposit[s])
      BY DEF ReadExact
    <3>2. s \in Nat
      BY NamedNat DEF TypeOK, EventSet, SlotNamed
    <3> HIDE DEF s
    <3> QED BY <1>a, <2>1, <2>4, <3>1, <3>2 DEF s
  <2> QED BY <2>5, <2>7, <2>8, <2>9, <2>10, <2>11
<1> QED BY <1>1, <1>2

-----------------------------------------------------------------------------
LEMMA ArenaInvariance == Spec => []ArenaInv
<1>1. ArenaInv /\ [Next]_vars => ArenaInv'
  <2> SUFFICES ASSUME ArenaInv, [Next]_vars PROVE ArenaInv'
    OBVIOUS
  <2>1. ASSUME NEW w \in Writers, NEW d \in Payloads, StoreShort(w, d) \/ StoreAlloc(w, d)
        PROVE  ArenaInv'
    BY <2>1, StoreStartInv
  <2>2. ASSUME NEW w \in Writers, WriterStep(w) PROVE ArenaInv'
    BY <2>2, WriterStepInv
  <2>3. ASSUME NEW r \in Readers,
               ReaderStep(r) \/ \E ev \in events \cup Foreign : ResolveStart(r, ev)
        PROVE  ArenaInv'
    BY <2>3, ReaderStepInv
  <2>4. CASE UNCHANGED vars
    BY <2>4 DEF vars, ArenaInv, TypeOK, PageExclusive, WriterInv, Writing, RestInv, Resting,
                Holds, CopyInv, Copying, ReadExact, InCritical, MyPage
  <2> QED BY <2>1, <2>2, <2>3, <2>4 DEF Next
<1> QED BY <1>1, InitInv, PTL DEF Spec

(* Every variable keeps its type, for any number of goroutines, pages,     *)
(* words and deposits: no step of StorePayload or ResolvePayload indexes   *)
(* outside the page or the arena.                                          *)
THEOREM TypeCorrect == Spec => []TypeOK
BY ArenaInvariance, PTL DEF ArenaInv

(* The sequence lock of arena_pool.go excludes: seq is odd exactly while   *)
(* one goroutine writes the page.                                          *)
THEOREM WritersExclude == Spec => []PageExclusive
BY ArenaInvariance, PTL DEF ArenaInv

(* A resolved long payload is exactly the deposit its descriptor names,    *)
(* whatever the interleaving and whatever the checksum function.           *)
THEOREM ResolveExact == Spec => []ReadExact
BY ArenaInvariance, PTL DEF ArenaInv

-----------------------------------------------------------------------------
(***************************************************************************)
(* LossNeedsLap.  A refusal is one of six comparisons against the page, so *)
(* that an event survives is a fact about the page, not about the reader:  *)
(* a page on which no other deposit was given a slot still carries what    *)
(* the event's own deposit left there (SealedInv), and its seq has not     *)
(* moved under a reader of the event (OwnInv).  That rests on no two       *)
(* stores holding a slot (HolderInv) and on the checksum being on the page *)
(* before the epoch (CrcInv), which ArenaInv does not need.                *)
(***************************************************************************)

(* Among the first n slots one other than the event's fell on its page.    *)
Lapped(ev, n) == \E s \in Slots : /\ s < n
                                  /\ PageOf(s) = ev.pageIdx
                                  /\ s # SlotNamed(ev)

(* The page answers every check of ResolvePayload as the event expects.    *)
Whole(pg, ev) ==
  pg.seq % 2 = 0 /\ pg.Epoch = ev.epoch /\ pg.Len = ev.len /\ pg.CRC32 = ev.crc

(* The event is the descriptor of the deposit of slot s, and the store     *)
(* that took the slot is over.                                             *)
SealedAt(ev, s) ==
  /\ s < alloc /\ deposit[s] \in LongPayloads
  /\ ev = LongEvent(s, deposit[s])
  /\ \A w \in Writers : writer[w].pc # "idle" => writer[w].slot # s

SealedInv ==
  \A ev \in events : ev.long =>
    /\ \E s \in Slots : SealedAt(ev, s)
    /\ Lapped(ev, alloc) \/ Whole(pages[ev.pageIdx], ev)

HolderInv ==
  \A v, w \in Writers :
    writer[v].pc # "idle" /\ writer[w].pc # "idle" /\ v # w => writer[v].slot # writer[w].slot

CrcInv ==
  \A w \in Writers : writer[w].pc \in {"epoch", "release"} =>
                       pages[MyPage(w)].CRC32 = Crc[MyWords(w)]

(* What a reader of a sealed event knows.                                  *)
Owning(st) ==
  st.own =>
    /\ st.ev \in events
    /\ st.pc = "error" => Lapped(st.ev, alloc)
    /\ st.pc \in {"epoch", "len", "crc", "copy"} =>
         Lapped(st.ev, alloc) \/ st.seq = pages[st.ev.pageIdx].seq

OwnInv == \A r \in Readers : Owning(reader[r])

LapInv == SealedInv /\ HolderInv /\ CrcInv /\ OwnInv

(* A sealed event names its slot, and its length passes the bounds checks. *)
LEMMA SealedFacts ==
  ASSUME NEW ev, NEW s \in Slots, SealedAt(ev, s)
  PROVE  /\ ev.pageIdx = PageOf(s) /\ ev.pageIdx \in PageIdx
         /\ ev.pageIdx < Capacity /\ SlotNamed(ev) = s
         /\ ev.len > InlineWords /\ ev.len <= PageWords
<1>1. s \in Nat
  BY ArenaAssumption DEF Slots
<1>2. /\ ev.pageIdx = PageOf(s) /\ ev.epoch = EpochOf(s) /\ ev.len = Len(Capped(deposit[s]))
      /\ deposit[s] \in LongPayloads
  BY DEF SealedAt, LongEvent
<1>3. /\ PageOf(s) \in PageIdx /\ EpochOf(s) * Capacity + PageOf(s) = s
  BY <1>1, SlotFacts
<1>4. ev.len \in InlineWords + 1 .. PageWords
  BY <1>2, CappedFacts
<1>5. Capacity \in Nat /\ InlineWords \in Nat /\ PageWords \in Nat
  BY ArenaAssumption
<1> QED BY <1>2, <1>3, <1>4, <1>5 DEF SlotNamed, PageIdx

(* A step of a store touches its own page and its own variables only.      *)
LEMMA WriterEffect ==
  ASSUME ArenaInv, NEW w \in Writers, WriterStep(w)
  PROVE  /\ writer[w].pc # "idle"
         /\ alloc' = alloc /\ reader' = reader /\ deposit' = deposit
         /\ \A v \in Writers \ {w} : writer'[v] = writer[v]
         /\ writer'[w].slot = writer[w].slot /\ writer'[w].data = writer[w].data
         /\ \A q \in PageIdx \ {MyPage(w)} : pages'[q] = pages[q]
         /\ StoreCRC(w) \/ pages'[MyPage(w)].CRC32 = pages[MyPage(w)].CRC32
         /\ StoreCRC(w) \/ writer[w].pc = "epoch" \/ writer'[w].pc \notin {"epoch", "release"}
         /\ StoreRelease(w) \/ events' = events
<1>a. /\ writer \in [Writers -> WriterRecords] /\ pages \in [PageIdx -> PageRecords]
      /\ writer[w] \in WriterRecords /\ pages[MyPage(w)] \in PageRecords
      /\ MyPage(w) \in PageIdx
  BY WriterFacts DEF ArenaInv, TypeOK, WriterRecords, PageRecords
<1> DEFINE p == MyPage(w)
<1>1. CASE StoreLoadSeq(w)
  BY <1>1, <1>a DEF StoreLoadSeq, WriterRecords
<1>2. CASE StoreAcquire(w)
  BY <1>2, <1>a DEF StoreAcquire, WriterRecords, PageRecords
<1>3. CASE StoreWord(w)
  BY <1>3, <1>a DEF StoreWord, WriterRecords, PageRecords
<1>4. CASE StoreLen(w)
  BY <1>4, <1>a DEF StoreLen, WriterRecords, PageRecords
<1>5. CASE StoreCRC(w)
  BY <1>5, <1>a DEF StoreCRC, WriterRecords, PageRecords
<1>6. CASE StoreEpoch(w)
  BY <1>6, <1>a DEF StoreEpoch, WriterRecords, PageRecords
<1>7. CASE StoreRelease(w)
  BY <1>7, <1>a DEF StoreRelease, WriterRecords, PageRecords
<1> QED BY <1>1, <1>2, <1>3, <1>4, <1>5, <1>6, <1>7 DEF WriterStep

(* No store writes to the page of a sealed event that has not been lapped: *)
(* the slot of a store on that page would be the lap.                      *)
LEMMA Untouched ==
  ASSUME ArenaInv, NEW w \in Writers, WriterStep(w), NEW ev, NEW s \in Slots,
         SealedAt(ev, s), ~ Lapped(ev, alloc)
  PROVE  pages'[ev.pageIdx] = pages[ev.pageIdx]
<1>1. ev.pageIdx \in PageIdx /\ SlotNamed(ev) = s
  BY SealedFacts
<1>2. writer[w].pc # "idle"
  BY WriterEffect
<1>3. writer[w].slot \in Slots /\ writer[w].slot < alloc /\ writer[w].slot # s
  <2>1. writer[w].slot \in 0 .. alloc - 1
    BY <1>2, WriterFacts DEF Writing
  <2>2. alloc \in 0 .. MaxStores /\ MaxStores \in Nat
    BY ArenaAssumption DEF ArenaInv, TypeOK
  <2> QED BY <1>2, <2>1, <2>2 DEF SealedAt, Slots
<1>4. MyPage(w) # ev.pageIdx
  BY <1>1, <1>3 DEF Lapped, MyPage
<1> QED BY <1>1, <1>4, WriterEffect

(* A lap is never undone.                                                  *)
LEMMA LapStays ==
  ASSUME NEW ev, NEW m \in Nat, NEW n \in Nat, m <= n, Lapped(ev, m)
  PROVE  Lapped(ev, n)
<1>1. PICK s \in Slots : s < m /\ PageOf(s) = ev.pageIdx /\ s # SlotNamed(ev)
  BY DEF Lapped
<1>2. s \in Nat
  BY ArenaAssumption DEF Slots
<1> QED BY <1>1, <1>2 DEF Lapped

LEMMA LapInit == Init => LapInv
BY DEF Init, LapInv, SealedInv, HolderInv, CrcInv, OwnInv, Owning

LEMMA LapWriterStep ==
  ASSUME ArenaInv, ArenaInv', LapInv, NEW w \in Writers, WriterStep(w)
  PROVE  LapInv'
<1> USE DEF LapInv
<1>a. /\ writer[w].pc # "idle"
      /\ alloc' = alloc /\ reader' = reader /\ deposit' = deposit
      /\ \A v \in Writers \ {w} : writer'[v] = writer[v]
      /\ writer'[w].slot = writer[w].slot /\ writer'[w].data = writer[w].data
      /\ \A q \in PageIdx \ {MyPage(w)} : pages'[q] = pages[q]
      /\ StoreCRC(w) \/ pages'[MyPage(w)].CRC32 = pages[MyPage(w)].CRC32
      /\ StoreCRC(w) \/ writer[w].pc = "epoch" \/ writer'[w].pc \notin {"epoch", "release"}
      /\ StoreRelease(w) \/ events' = events
  BY WriterEffect
<1>b. ASSUME NEW ev \in events, ev.long
      PROVE  Lapped(ev, alloc) \/ pages'[ev.pageIdx] = pages[ev.pageIdx]
  BY <1>b, Untouched DEF SealedInv
<1>c. \A v \in Writers : MyPage(v)' = MyPage(v) /\ MyWords(v)' = MyWords(v)
  <2> SUFFICES ASSUME NEW v \in Writers
               PROVE  writer'[v].slot = writer[v].slot /\ writer'[v].data = writer[v].data
    BY DEF MyPage, MyWords
  <2> QED BY <1>a
<1>1. HolderInv'
  <2> SUFFICES ASSUME NEW u \in Writers, NEW v \in Writers, u # v,
                      writer'[u].pc # "idle", writer'[v].pc # "idle"
               PROVE  writer'[u].slot # writer'[v].slot
    BY DEF HolderInv
  <2>1. /\ writer[u].pc # "idle" /\ writer'[u].slot = writer[u].slot
        /\ writer[v].pc # "idle" /\ writer'[v].slot = writer[v].slot
    BY <1>a
  <2> QED BY <2>1 DEF HolderInv
<1>2. CrcInv'
  <2> SUFFICES ASSUME NEW v \in Writers, writer'[v].pc \in {"epoch", "release"}
               PROVE  pages'[MyPage(v)].CRC32 = Crc[MyWords(v)]
    BY <1>c DEF CrcInv
  <2>0. MyPage(v) \in PageIdx /\ MyPage(w) \in PageIdx
    BY WriterFacts
  <2>1. CASE StoreCRC(w) /\ v = w
    <3>1. pages \in [PageIdx -> PageRecords]
      BY DEF ArenaInv, TypeOK, PageRecords
    <3>2. pages' = [pages EXCEPT ![MyPage(w)].CRC32 = Crc[MyWords(w)]]
      BY <2>1 DEF StoreCRC
    <3> QED BY <2>0, <2>1, <3>1, <3>2 DEF PageRecords
  <2>2. CASE StoreCRC(w) /\ v # w
    <3>1. writer[v].pc \in {"epoch", "release"} /\ InCritical(v) /\ InCritical(w)
      BY <1>a, <2>2 DEF StoreCRC, InCritical, Critical
    <3>2. MyPage(v) # MyPage(w)
      BY <2>2, <3>1, WriterFacts
    <3> QED BY <1>a, <2>0, <3>1, <3>2 DEF CrcInv
  <2>3. CASE ~ StoreCRC(w)
    <3>1. writer[v].pc \in {"epoch", "release"}
      BY <1>a, <2>3
    <3>2. pages'[MyPage(v)].CRC32 = pages[MyPage(v)].CRC32
      BY <1>a, <2>0, <2>3
    <3> QED BY <3>1, <3>2 DEF CrcInv
  <2> QED BY <2>1, <2>2, <2>3
<1>3. SealedInv'
  <2>1. ASSUME NEW ev \in events, ev.long
        PROVE  /\ \E s \in Slots : SealedAt(ev, s)'
               /\ Lapped(ev, alloc') \/ Whole(pages'[ev.pageIdx], ev)
    <3>1. PICK s \in Slots : SealedAt(ev, s)
      BY <2>1 DEF SealedInv
    <3>2. \A v \in Writers : writer'[v].pc # "idle" => writer'[v].slot # s
      BY <1>a, <3>1 DEF SealedAt
    <3>3. SealedAt(ev, s)'
      BY <1>a, <3>1, <3>2 DEF SealedAt
    <3>4. Lapped(ev, alloc) \/ Whole(pages[ev.pageIdx], ev)
      BY <2>1 DEF SealedInv
    <3>5. Lapped(ev, alloc) \/ Whole(pages'[ev.pageIdx], ev)
      BY <2>1, <1>b, <3>4
    <3> QED BY <1>a, <3>3, <3>5
  <2>2. ASSUME NEW ev \in events', ev \notin events
        PROVE  /\ \E s \in Slots : SealedAt(ev, s)'
               /\ Whole(pages'[ev.pageIdx], ev)
    <3>0. PICK s \in Nat : s = writer[w].slot
      BY WriterFacts DEF WriterRecords
    <3> DEFINE p == MyPage(w)
    <3>1. StoreRelease(w) /\ ev = LongEvent(s, writer[w].data)
      BY <1>a, <2>2, <3>0 DEF StoreRelease
    <3>2. /\ s \in 0 .. alloc - 1 /\ writer[w].data \in LongPayloads
          /\ deposit[s] = writer[w].data /\ writer[w].seq % 2 = 0
          /\ pages[p].Len = Len(MyWords(w)) /\ pages[p].Epoch = EpochOf(s)
      BY <3>0, <3>1, WriterFacts DEF StoreRelease, Writing, MyWords
    <3>3. s \in Slots /\ s < alloc
      <4>1. alloc \in 0 .. MaxStores /\ MaxStores \in Nat
        BY ArenaAssumption DEF ArenaInv, TypeOK
      <4> QED BY <3>2, <4>1 DEF Slots
    <3>4. \A v \in Writers : writer'[v].pc # "idle" => writer'[v].slot # s
      <4>1. writer'[w].pc = "idle"
        BY <3>1 DEF StoreRelease, ArenaInv, TypeOK
      <4> QED BY <1>a, <3>0, <4>1 DEF HolderInv
    <3>5. SealedAt(ev, s)'
      BY <1>a, <3>1, <3>2, <3>3, <3>4 DEF SealedAt
    <3>6. pages[p].CRC32 = Crc[MyWords(w)]
      BY <3>1 DEF CrcInv, StoreRelease
    <3>7. pages'[p] = [pages[p] EXCEPT !.seq = writer[w].seq + 2] /\ pages[p] \in PageRecords
      <4>1. pages \in [PageIdx -> PageRecords] /\ p \in PageIdx
        BY WriterFacts DEF ArenaInv, TypeOK, PageRecords
      <4> QED BY <3>1, <4>1 DEF StoreRelease
    <3>8. writer[w].seq \in Nat
      BY WriterFacts, ArenaAssumption DEF WriterRecords
    <3>9. (writer[w].seq + 2) % 2 = 0
      BY <3>2, <3>8
    <3>10. /\ ev.pageIdx = p /\ ev.len = Len(MyWords(w)) /\ ev.crc = Crc[MyWords(w)]
           /\ ev.epoch = EpochOf(s)
      BY <3>0, <3>1 DEF LongEvent, MyPage, MyWords
    <3>11. /\ pages'[p].seq = writer[w].seq + 2 /\ pages'[p].Len = pages[p].Len
           /\ pages'[p].Epoch = pages[p].Epoch /\ pages'[p].CRC32 = pages[p].CRC32
      BY <3>7 DEF PageRecords
    <3> QED BY <3>2, <3>3, <3>5, <3>6, <3>9, <3>10, <3>11 DEF Whole
  <2> QED BY <2>1, <2>2 DEF SealedInv
<1>4. OwnInv'
  <2> SUFFICES ASSUME NEW r \in Readers, reader[r].own PROVE Owning(reader[r])'
    BY <1>a DEF OwnInv, Owning
  <2>1. Owning(reader[r]) /\ events \subseteq events'
    BY <1>a DEF OwnInv, StoreRelease
  <2>2. reader[r].pc \in {"epoch", "len", "crc", "copy"} => reader[r].ev.long
    BY DEF ArenaInv, CopyInv, Copying
  <2> QED BY <1>a, <1>b, <2>1, <2>2 DEF Owning
<1> QED BY <1>1, <1>2, <1>3, <1>4

(* A payload that is stored leaves the sealed events as they were; a long  *)
(* one takes a slot that no event and no other store has.                  *)
LEMMA LapStoreStart ==
  ASSUME ArenaInv, LapInv, NEW w \in Writers, NEW d \in Payloads,
         StoreShort(w, d) \/ StoreAlloc(w, d)
  PROVE  LapInv'
<1> USE DEF LapInv
<1>a. alloc \in Nat /\ MaxStores \in Nat /\ alloc <= MaxStores
  BY ArenaAssumption DEF ArenaInv, TypeOK
<1>1. CASE StoreShort(w, d)
  <2>1. /\ UNCHANGED <<alloc, pages, writer, reader, deposit>>
        /\ events' = events \cup {ShortEvent(d)} /\ ~ ShortEvent(d).long
    BY <1>1 DEF StoreShort, ShortEvent
  <2>2. HolderInv' /\ CrcInv'
    BY <2>1 DEF HolderInv, CrcInv, MyPage, MyWords
  <2>3. SealedInv'
    BY <2>1 DEF SealedInv, SealedAt
  <2>4. OwnInv'
    BY <2>1 DEF OwnInv, Owning
  <2> QED BY <2>2, <2>3, <2>4
<1>2. CASE StoreAlloc(w, d)
  <2> DEFINE st == [pc |-> "load", data |-> d, slot |-> alloc, seq |-> 0, i |-> 0]
  <2>1. /\ alloc < MaxStores /\ alloc' = alloc + 1
        /\ UNCHANGED <<pages, reader, events>>
        /\ deposit' = [deposit EXCEPT ![alloc] = d]
        /\ writer' = [writer EXCEPT ![w] = st]
    BY <1>2 DEF StoreAlloc
  <2>2. \A v \in Writers : writer'[v] = IF v = w THEN st ELSE writer[v]
    BY <2>1 DEF ArenaInv, TypeOK
  <2>3. \A s \in Slots : s < alloc => deposit'[s] = deposit[s]
    BY <1>a, <2>1 DEF ArenaInv, TypeOK, Slots
  <2>4. \A v \in Writers : writer[v].pc # "idle" => writer[v].slot # alloc
    <3> TAKE v \in Writers
    <3> HAVE writer[v].pc # "idle"
    <3>1. writer[v].slot \in 0 .. alloc - 1
      BY WriterFacts DEF Writing
    <3> QED BY <1>a, <3>1
  <2>5. HolderInv'
    <3> SUFFICES ASSUME NEW u \in Writers, NEW v \in Writers, u # v,
                        writer'[u].pc # "idle", writer'[v].pc # "idle"
                 PROVE  writer'[u].slot # writer'[v].slot
      BY DEF HolderInv
    <3> QED BY <2>2, <2>4 DEF HolderInv
  <2>6. CrcInv'
    <3> SUFFICES ASSUME NEW v \in Writers, writer'[v].pc \in {"epoch", "release"}
                 PROVE  pages'[MyPage(v)'].CRC32 = Crc[MyWords(v)']
      BY DEF CrcInv
    <3>1. writer'[v] = writer[v]
      BY <2>2
    <3> QED BY <2>1, <3>1 DEF CrcInv, MyPage, MyWords
  <2>7. \A ev : Lapped(ev, alloc) => Lapped(ev, alloc')
    BY <1>a, <2>1, LapStays
  <2>8. SealedInv'
    <3> SUFFICES ASSUME NEW ev \in events, ev.long
                 PROVE  /\ \E s \in Slots : SealedAt(ev, s)'
                        /\ Lapped(ev, alloc') \/ Whole(pages'[ev.pageIdx], ev)
      BY <2>1 DEF SealedInv
    <3>1. PICK s \in Slots : SealedAt(ev, s)
      BY DEF SealedInv
    <3>2. s < alloc /\ s < alloc' /\ s # alloc
      BY <1>a, <2>1, <3>1 DEF SealedAt, Slots
    <3>3. \A v \in Writers : writer'[v].pc # "idle" => writer'[v].slot # s
      BY <2>2, <3>1, <3>2 DEF SealedAt
    <3>4. SealedAt(ev, s)'
      BY <2>3, <3>1, <3>2, <3>3 DEF SealedAt
    <3>5. Lapped(ev, alloc) \/ Whole(pages[ev.pageIdx], ev)
      BY DEF SealedInv
    <3> QED BY <2>1, <2>7, <3>4, <3>5
  <2>9. OwnInv'
    <3> SUFFICES ASSUME NEW r \in Readers PROVE Owning(reader[r])'
      BY DEF OwnInv
    <3>1. Owning(reader[r])
      BY DEF OwnInv
    <3> QED BY <2>1, <2>7, <3>1 DEF Owning
  <2> QED BY <2>5, <2>6, <2>8, <2>9
<1> QED BY <1>1, <1>2

(* A step of a reader moves that reader only.                              *)
LEMMA LapReaderFrame ==
  ASSUME ArenaInv, LapInv, NEW r \in Readers, NEW st,
         reader' = [reader EXCEPT ![r] = st],
         UNCHANGED <<alloc, pages, writer, events, deposit>>, Owning(st)
  PROVE  LapInv'
<1> USE DEF LapInv
<1>1. SealedInv' /\ HolderInv' /\ CrcInv'
  BY DEF SealedInv, SealedAt, HolderInv, CrcInv, MyPage, MyWords
<1>2. OwnInv'
  <2> SUFFICES ASSUME NEW q \in Readers PROVE Owning(reader[q])'
    BY DEF OwnInv
  <2>1. reader'[q] = IF q = r THEN st ELSE reader[q]
    BY DEF ArenaInv, TypeOK
  <2>2. Owning(reader'[q])
    BY <2>1 DEF OwnInv
  <2> QED BY <2>2 DEF Owning
<1> QED BY <1>1, <1>2

(* Every comparison a reader of a sealed event makes succeeds, unless the  *)
(* page was given away.                                                    *)
LEMMA LapReaderStep ==
  ASSUME ArenaInv, LapInv, NEW r \in Readers,
         ReaderStep(r) \/ \E ev \in events \cup Foreign : ResolveStart(r, ev)
  PROVE  LapInv'
<1> USE DEF LapInv
<1>a. reader \in [Readers -> ReaderRecords] /\ reader[r] \in ReaderRecords
  BY DEF ArenaInv, TypeOK, ReaderRecords
<1>b. ASSUME reader[r].pc \in {"seq", "epoch", "len", "crc", "copy"}, reader[r].own
      PROVE  /\ reader[r].ev \in events
             /\ Lapped(reader[r].ev, alloc) \/ Whole(Page(r), reader[r].ev)
  <2>1. reader[r].ev.long
    BY <1>b DEF ArenaInv, CopyInv, Copying
  <2>2. reader[r].ev \in events
    BY <1>b DEF OwnInv, Owning
  <2> QED BY <2>1, <2>2 DEF SealedInv, Page
<1>c. reader[r].own /\ reader[r].pc \in {"epoch", "len", "crc", "copy"} =>
        Lapped(reader[r].ev, alloc) \/ reader[r].seq = Page(r).seq
  BY DEF OwnInv, Owning, Page
<1>1. ASSUME NEW ev \in events \cup Foreign, ResolveStart(r, ev) PROVE LapInv'
  <2> DEFINE st == reader'[r]
  <2>1. /\ reader' = [reader EXCEPT ![r] = st] /\ st.ev = ev
        /\ st.own <=> ev \in events
        /\ st.pc \in {"ok", "error", "seq"}
        /\ st.pc = "error" => ev.long /\ (ev.pageIdx >= Capacity \/ ev.len <= InlineWords
                                          \/ ev.len > PageWords)
    BY <1>1, <1>a DEF ResolveStart
  <2>2. ev \in events /\ ev.long => /\ ev.pageIdx \in PageIdx
                                    /\ ev.len \in InlineWords + 1 .. PageWords
    <3>1. ASSUME ev \in events, ev.long
          PROVE  ev.pageIdx \in PageIdx /\ ev.len \in InlineWords + 1 .. PageWords
      <4>1. ev.len \in Nat /\ InlineWords \in Nat /\ PageWords \in Nat
        BY <3>1, ArenaAssumption DEF ArenaInv, TypeOK, EventSet
      <4> QED BY <3>1, <4>1, SealedFacts DEF SealedInv
    <3> QED BY <3>1
  <2>3. InlineWords \in Nat /\ PageWords \in Nat /\ Capacity \in Nat
    BY ArenaAssumption
  <2> HIDE DEF st
  <2>4. ~ (st.own /\ st.pc = "error")
    BY <2>1, <2>2, <2>3 DEF PageIdx
  <2>5. Owning(st)
    BY <2>1, <2>4 DEF Owning
  <2> QED BY <1>1, <2>1, <2>5, LapReaderFrame DEF ResolveStart
<1> DEFINE st == reader'[r]
<1>2. CASE ResolveLoadSeq(r)
  <2>1. /\ reader' = [reader EXCEPT ![r] = st] /\ st.ev = reader[r].ev
        /\ st.own = reader[r].own /\ st.seq = Page(r).seq
        /\ (st.pc = "error" /\ Page(r).seq % 2 # 0) \/ st.pc = "epoch"
    BY <1>2, <1>a DEF ResolveLoadSeq, ReaderRecords
  <2> HIDE DEF st
  <2>2. Owning(st)
    BY <1>2, <1>b, <2>1 DEF Owning, Whole, Page, ResolveLoadSeq
  <2> QED BY <1>2, <2>1, <2>2, LapReaderFrame DEF ResolveLoadSeq
<1>3. CASE ResolveLoadEpoch(r)
  <2>1. /\ reader' = [reader EXCEPT ![r] = st] /\ st.ev = reader[r].ev
        /\ st.own = reader[r].own /\ st.seq = reader[r].seq /\ reader[r].pc = "epoch"
        /\ (st.pc = "error" /\ Page(r).Epoch # reader[r].ev.epoch) \/ st.pc = "len"
    BY <1>3, <1>a DEF ResolveLoadEpoch, ReaderRecords
  <2> HIDE DEF st
  <2>2. Owning(st)
    BY <1>b, <1>c, <2>1 DEF Owning, Whole, Page
  <2> QED BY <1>3, <2>1, <2>2, LapReaderFrame DEF ResolveLoadEpoch
<1>4. CASE ResolveLoadLen(r)
  <2>1. /\ reader' = [reader EXCEPT ![r] = st] /\ st.ev = reader[r].ev
        /\ st.own = reader[r].own /\ st.seq = reader[r].seq /\ reader[r].pc = "len"
        /\ (st.pc = "error" /\ Page(r).Len # reader[r].ev.len) \/ st.pc = "crc"
    BY <1>4, <1>a DEF ResolveLoadLen, ReaderRecords
  <2> HIDE DEF st
  <2>2. Owning(st)
    BY <1>b, <1>c, <2>1 DEF Owning, Whole, Page
  <2> QED BY <1>4, <2>1, <2>2, LapReaderFrame DEF ResolveLoadLen
<1>5. CASE ResolveLoadCRC(r)
  <2>1. /\ reader' = [reader EXCEPT ![r] = st] /\ st.ev = reader[r].ev
        /\ st.own = reader[r].own /\ st.seq = reader[r].seq /\ reader[r].pc = "crc"
        /\ (st.pc = "error" /\ Page(r).CRC32 # reader[r].ev.crc) \/ st.pc = "copy"
    BY <1>5, <1>a DEF ResolveLoadCRC, ReaderRecords
  <2> HIDE DEF st
  <2>2. Owning(st)
    BY <1>b, <1>c, <2>1 DEF Owning, Whole, Page
  <2> QED BY <1>5, <2>1, <2>2, LapReaderFrame DEF ResolveLoadCRC
<1>6. CASE ResolveWord(r)
  <2>1. /\ reader' = [reader EXCEPT ![r] = st] /\ st.ev = reader[r].ev
        /\ st.own = reader[r].own /\ st.seq = reader[r].seq
        /\ reader[r].pc = "copy" /\ st.pc = "copy"
    BY <1>6, <1>a DEF ResolveWord, ReaderRecords
  <2> HIDE DEF st
  <2>2. Owning(st)
    BY <1>b, <1>c, <2>1 DEF Owning, Page
  <2> QED BY <1>6, <2>1, <2>2, LapReaderFrame DEF ResolveWord
<1>7. CASE ResolveClose(r)
  <2>1. /\ reader' = [reader EXCEPT ![r] = st] /\ st.ev = reader[r].ev
        /\ st.own = reader[r].own /\ reader[r].pc = "copy"
        /\ (st.pc = "error" /\ Page(r).seq # reader[r].seq) \/ st.pc = "ok"
    BY <1>7, <1>a DEF ResolveClose, ReaderRecords
  <2> HIDE DEF st
  <2>2. Owning(st)
    BY <1>b, <1>c, <2>1 DEF Owning, Page
  <2> QED BY <1>7, <2>1, <2>2, LapReaderFrame DEF ResolveClose
<1> QED BY <1>1, <1>2, <1>3, <1>4, <1>5, <1>6, <1>7 DEF ReaderStep

(* Until another deposit was given its page, a sealed payload is never     *)
(* refused: stale, corrupt and torn are answers about a page that the ring *)
(* has given away, however the goroutines interleave.                      *)
THEOREM LossTakesLap == Spec => []LossNeedsLap
<1>1. ArenaInv /\ ArenaInv' /\ LapInv /\ [Next]_vars => LapInv'
  <2> SUFFICES ASSUME ArenaInv, ArenaInv', LapInv, [Next]_vars PROVE LapInv'
    OBVIOUS
  <2>1. ASSUME NEW w \in Writers, NEW d \in Payloads, StoreShort(w, d) \/ StoreAlloc(w, d)
        PROVE  LapInv'
    BY <2>1, LapStoreStart
  <2>2. ASSUME NEW w \in Writers, WriterStep(w) PROVE LapInv'
    BY <2>2, LapWriterStep
  <2>3. ASSUME NEW r \in Readers,
               ReaderStep(r) \/ \E ev \in events \cup Foreign : ResolveStart(r, ev)
        PROVE  LapInv'
    BY <2>3, LapReaderStep
  <2>4. CASE UNCHANGED vars
    BY <2>4 DEF vars, LapInv, SealedInv, SealedAt, HolderInv, CrcInv, OwnInv, Owning,
                MyPage, MyWords
  <2> QED BY <2>1, <2>2, <2>3, <2>4 DEF Next
<1>2. LapInv => LossNeedsLap
  BY DEF LapInv, OwnInv, Owning, Lapped, LossNeedsLap
<1> QED BY <1>1, <1>2, LapInit, ArenaInvariance, PTL DEF Spec
=============================================================================
