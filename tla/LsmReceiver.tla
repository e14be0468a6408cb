---------------------------- MODULE LsmReceiver ----------------------------
(***************************************************************************)
(* The receiver of records of an eBPF-LSM probe (lsm_receiver.go): their   *)
(* layout, their translation into a snapshot of the daily silo, and the    *)
(* loop that consumes a stream.  A path is kept as "plain" or as the       *)
(* volatile root it is under; a text as a model value.                     *)
(***************************************************************************)
EXTENDS Integers, Sequences, FiniteSets

CONSTANTS
  Streams,      \* the sequences of records that a reader delivers
  Later,        \* those of a later call
  MaxCalls      \* bound: calls of Consume on one receiver

VARIABLES lsm
vars == <<lsm>>

-----------------------------------------------------------------------------
(* The record of 256 bytes.  A byte of an encoded record is named by its   *)
(* field and its rank in it; a byte that no field wrote is <<"zero", 0>>.  *)

LSMRecordSize == 256
Field(name, first, next) == [name |-> name, first |-> first, next |-> next]
LSMEvent == {Field("hook", 4, 6), Field("wall", 8, 16), Field("pid", 16, 20), Field("ppid", 20, 24),
             Field("uid", 24, 28), Field("euid", 28, 32), Field("login", 32, 36), Field("flags", 36, 40),
             Field("cgroup", 40, 48), Field("hash", 48, 80), Field("comm", 80, 96),
             Field("parent", 96, 112), Field("path", 112, 256)}

EncodeLSMRecord ==
  [i \in 0 .. LSMRecordSize - 1 |->
     IF i < 4 THEN <<"magic", i>>
     ELSE IF \E f \in LSMEvent : i \in f.first .. f.next - 1
     THEN LET f == CHOOSE f \in LSMEvent : i \in f.first .. f.next - 1 IN <<f.name, i - f.first>>
     ELSE <<"zero", 0>>]

\* What a decoder finds in a field of a record.
Decoded(bytes, f) == [k \in 0 .. f.next - f.first - 1 |-> bytes[f.first + k]]

\* The magic is judged first, and a hook out of 1 .. 6 leaves the event half filled.
DecodeLSMRecord(rec) ==
  IF ~rec.magic THEN "magic" ELSE IF rec.hook \notin 1 .. 6 THEN "hook" ELSE "ok"

-----------------------------------------------------------------------------
(* The snapshot of an event.                                               *)

Low == 1
Medium == 2
High == 3

isVolatilePath(path) == path \in {"memfd", "deleted", "tmp"}

\* With a hash the identity is the content's; otherwise it is the name of the command.
LSMEntityID(ev) == IF "hash" \in ev.flags THEN <<"hash", ev.hash>> ELSE <<"comm", ev.comm>>

Context(ev) ==
  {c \in {"root", "elevated", "session", "volatile", "denied", "unhashed", "write"} :
     CASE c = "root" -> ev.uid = 0
       [] c = "elevated" -> ev.euid # ev.uid
       [] c = "session" -> "login" \in ev.flags
       [] c = "volatile" -> "memfd" \in ev.flags \/ isVolatilePath(ev.path)
       [] c = "denied" -> "denied" \in ev.flags
       [] c = "unhashed" -> "hash" \notin ev.flags
       [] OTHER -> "write" \in ev.flags}

Subject(ev) ==
  CASE ev.hook = 1 -> <<"proc", "spawn">>
    [] ev.hook = 2 -> <<"storage", IF "write" \in ev.flags THEN "mutate" ELSE "nominal">>
    [] ev.hook = 3 -> <<"net", "connect">>
    [] ev.hook = 4 -> <<"kernel", "mutate">>
    [] ev.hook = 5 -> <<"proc", "burst">>
    [] OTHER -> <<"proc", "spawn">>

\* raiseSeverity only raises the severity and only lowers the score.
raiseSeverity(s, severity, score) ==
  [s EXCEPT !.severity = IF severity > @ THEN severity ELSE @, !.score = IF score < @ THEN score ELSE @]
RaiseIf(cond, s, severity, score) == IF cond THEN raiseSeverity(s, severity, score) ELSE s

UidClass(uid) == IF uid = 0 THEN "root" ELSE IF uid < 1000 THEN "system" ELSE "user"

Snapshot(ev) ==
  LET ctx == Context(ev)
      s0 == [ts |-> ev.wall \div 10, score |-> 980, severity |-> Low, entity |-> LSMEntityID(ev), context |-> ctx,
             subject |-> Subject(ev), payload |-> <<ev.hook, ev.comm, UidClass(ev.uid), "elevated" \in ctx, ev.path>>]
      s1 == RaiseIf(ev.hook \in {4, 5}, s0, Medium, 700)
      s2 == RaiseIf("elevated" \in ctx, s1, Medium, 750)
      s3 == RaiseIf("volatile" \in ctx /\ ev.hook \in {1, 6}, s2, High, 350)
  IN RaiseIf("denied" \in ctx, s3, High, 400)

Day(snap) == snap.ts \div 10

-----------------------------------------------------------------------------
(* Consume.  A record cut by the end of the stream or with a wrong magic   *)
(* ends the call with an error; an unknown hook or an event without a time *)
(* is counted and skipped.  received is counted before the silo answers.   *)

Init ==
  lsm \in {[pc |-> "read", stream |-> s, received |-> 0, rejected |-> 0, n |-> 0, silo |-> <<>>, day |-> -1,
            err |-> "none", calls |-> 1, before |-> 0, taken |-> <<>>] : s \in Streams}

Ready == lsm.pc = "read" /\ lsm.stream # <<>> /\ ~Head(lsm.stream).cut
Return(err) == [lsm EXCEPT !.pc = "done", !.err = err]
Take(s, fate) == [s EXCEPT !.stream = Tail(@), !.taken = Append(@, [rec |-> Head(lsm.stream), fate |-> fate])]

EndOfStream == lsm.pc = "read" /\ lsm.stream = <<>> /\ lsm' = Return("none")
ShortRecord == lsm.pc = "read" /\ lsm.stream # <<>> /\ Head(lsm.stream).cut /\ lsm' = Return("cut")
BadMagic == Ready /\ DecodeLSMRecord(Head(lsm.stream)) = "magic" /\ lsm' = [Return("magic") EXCEPT !.stream = Tail(@)]

\* A hook that the decoder does not know, then an event whose seconds are zero.
Reject ==
  /\ Ready
  /\ \/ DecodeLSMRecord(Head(lsm.stream)) = "hook"
     \/ DecodeLSMRecord(Head(lsm.stream)) = "ok" /\ Snapshot(Head(lsm.stream)).ts = 0
  /\ lsm' = [Take(lsm, "rejected") EXCEPT !.rejected = @ + 1]

\* The silo seals the day before it opens another one, which may fail and then keeps the old day.
Handle ==
  /\ Ready /\ DecodeLSMRecord(Head(lsm.stream)) = "ok"
  /\ \E snap \in {Snapshot(Head(lsm.stream))} :
       /\ snap.ts # 0
       /\ \/ lsm' = [Take(lsm, "silo") EXCEPT !.received = @ + 1, !.n = @ + 1, !.silo = Append(@, snap), !.day = Day(snap)]
          \/ /\ lsm.day \notin {-1, Day(snap)}
             /\ lsm' = [Take(Return("silo"), "refused") EXCEPT !.received = @ + 1]

\* The caller consumes again with the same receiver, on another stream.
ConsumeAgain ==
  /\ lsm.pc = "done" /\ lsm.calls < MaxCalls
  /\ \E s \in Later :
       lsm' = [lsm EXCEPT !.pc = "read", !.stream = s, !.n = 0, !.before = Len(lsm.silo), !.err = "none", !.calls = @ + 1]

Next == EndOfStream \/ ShortRecord \/ BadMagic \/ Reject \/ Handle \/ ConsumeAgain

-----------------------------------------------------------------------------
Valid(rec) == rec.hook \in 1 .. 6 /\ rec.wall >= 10
Grave(ev) == "denied" \in ev.flags \/ (ev.hook \in {1, 6} /\ ("memfd" \in ev.flags \/ isVolatilePath(ev.path)))
With(fates) == SelectSeq(lsm.taken, LAMBDA x : x.fate \in fates)

(* Over all calls on one receiver: the records read are the received and   *)
(* the rejected ones, the silo holds the received ones that it accepted,   *)
(* in the order of the stream, although a failure of the silo comes after  *)
(* the count, and Consume returns how many these were; no circumstance of  *)
(* an event softens another; and no two fields of a record share a byte.   *)
LsmAccounted ==
  /\ lsm.received = Len(With({"silo", "refused"})) /\ lsm.rejected = Len(With({"rejected"}))
  /\ \A k \in DOMAIN lsm.taken : (lsm.taken[k].fate = "rejected") = ~Valid(lsm.taken[k].rec)
  /\ lsm.silo = [k \in DOMAIN With({"silo"}) |-> Snapshot(With({"silo"})[k].rec)]
  /\ lsm.n = Len(lsm.silo) - lsm.before
  /\ \A k \in DOMAIN lsm.taken :
       LET ev == lsm.taken[k].rec s == Snapshot(ev)
       IN /\ Grave(ev) => s.severity = High /\ s.score <= 400
          /\ ev.euid # ev.uid \/ ev.hook \in {4, 5} => s.severity >= Medium /\ s.score <= 750
          /\ s.severity = Low <=> s.score = 980
  /\ lsm.taken = <<>> => \A bytes \in {EncodeLSMRecord} : \A f \in LSMEvent :
       Decoded(bytes, f) = [k \in 0 .. f.next - f.first - 1 |-> <<f.name, k>>]
=============================================================================
