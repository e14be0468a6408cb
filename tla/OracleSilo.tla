----------------------------- MODULE OracleSilo -----------------------------
(***************************************************************************)
(* The daily oracle silo of server_oracle_silo.go: events are gathered in  *)
(* a bounded reservoir and sealed, one file a day, into files chained by   *)
(* their seals.  Several processes share the directory; files are replaced *)
(* by rename, under an exclusive flock that the verification of the chain  *)
(* does not take.                                                          *)
(*                                                                         *)
(* A seal is a hash of the whole slice, so it is the slice itself.  An     *)
(* event stands for its 80-byte encoding, with the flags it carries.  Time *)
(* is counted in days, then in calls once the last day is over.            *)
(***************************************************************************)
EXTENDS Integers, Sequences, SequencesExt, FiniteSets, FiniteSetsExt

CONSTANTS
  Silos,       \* the processes
  Days,        \* a range of naturals
  Events,      \* records of an id, a day, a priority and flags
  Cap,         \* OracleMaxVectorCount
  Legacy,      \* the days whose slice is of a version before 4
  Keyed,       \* is an HMAC key configured?
  MaxIngest,   \* bound: the events ingested
  MaxFailures, \* bound: crashes and failed writes
  MaxDamages,  \* bound: alterations of a file by the medium
  MaxCalls     \* bound: explicit seals and verifications

Current == 4   \* OracleVersion
NoFile == [version |-> 0]
NoSeal == [version |-> -1]
NoEvent == [id |-> "none"]

VARIABLES
  silo,        \* the memory of every process
  seal,        \* its seal or its verification under way
  flock,       \* the holder of the directory lock, or "free"
  file,        \* the slice of every day
  archive,     \* the slice kept aside under the name of its version
  damaged,     \* the days whose file the medium has altered
  ingested, calls, failures,
  logged,      \* history: the events sealed with success, per day
  torn         \* history: the days whose seal failed before its last write

vars == <<silo, seal, flock, file, archive, damaged, ingested, calls, failures, logged, torn>>

Memory(day) ==
  [open |-> TRUE, day |-> day, normal |-> <<>>, priority |-> <<>>, observed |-> 0, flags |-> {},
   seen |-> {}]  \* seen is history: the events the count covers
Empty == [Memory(0) EXCEPT !.open = FALSE]
Unknown == [known |-> FALSE, day |-> 0, seal |-> NoSeal]
Resting == [pc |-> "idle", pending |-> NoEvent, end |-> 0, day |-> 0, seal |-> NoSeal,
            todo |-> {}, breaks |-> {}, altered |-> {}]

(* The slices of an older version that a day may find on disk, and what    *)
(* may already lie under the name of its archive.                          *)
Old(d) == [version |-> 3, entries |-> {"old"}, flags |-> {}, observed |-> 0, end |-> d + 1, prev |-> NoSeal]
Foreign == [version |-> 2]

Init ==
  /\ silo = [s \in Silos |-> [mem |-> Empty, chain |-> Unknown]]
  /\ seal = [s \in Silos |-> Resting]
  /\ flock = "free"
  /\ file = [d \in Days |-> IF d \in Legacy THEN Old(d) ELSE NoFile]
  /\ archive \in {a \in [Days -> {NoFile, Foreign}] : \A d \in Days \ Legacy : a[d] = NoFile}
  /\ damaged = {}
  /\ ingested = 0 /\ calls = 0 /\ failures = 0
  /\ logged = [d \in Days |-> {}] /\ torn = {}

disk == <<file, archive, damaged>>
counts == <<ingested, calls, failures>>
history == <<logged, torn>>

-----------------------------------------------------------------------------
Held(m) == Len(m.normal) + Len(m.priority)

(* The memories that may result when an event meets a full slice: the      *)
(* reservoir draws at random.  A priority event takes the place of a       *)
(* normal one while there is one.                                          *)
Sampled(m, e) ==
  LET full == [m EXCEPT !.flags = @ \cup {"saturated", "sampled"} \cup e.flags]
  IN IF e.priority /\ m.normal # <<>>
       THEN {[full EXCEPT !.normal = Front([@ EXCEPT ![j] = Last(m.normal)]), !.priority = Append(@, e)]
               : j \in DOMAIN m.normal}
     ELSE IF e.priority
       THEN {full} \cup {[full EXCEPT !.priority[j] = e] : j \in DOMAIN m.priority}
     ELSE {full} \cup {[full EXCEPT !.normal[j] = e] : j \in DOMAIN m.normal}

(* What IngestSnapshot does of an event of the current day.                *)
Added(m, e) ==
  LET n == [m EXCEPT !.observed = @ + 1, !.seen = @ \cup {e}]
  IN IF Held(m) < Cap
       THEN {IF e.priority THEN [n EXCEPT !.priority = Append(@, e)] ELSE [n EXCEPT !.normal = Append(@, e)]}
     ELSE Sampled(n, e)

(* An event of another day first seals the slice, if it holds anything.    *)
IngestSnapshot(s, e) ==
  /\ seal[s].pc = "idle" /\ ingested < MaxIngest
  /\ ingested' = ingested + 1
  /\ LET m == silo[s].mem IN
     IF m.open /\ m.day # e.day /\ Held(m) > 0
       THEN /\ seal' = [seal EXCEPT ![s].pc = "lock", ![s].pending = e, ![s].end = e.day]
            /\ UNCHANGED silo
       ELSE /\ \E n \in Added(IF m.open /\ m.day = e.day THEN m ELSE Memory(e.day), e) :
                 silo' = [silo EXCEPT ![s].mem = n]
            /\ UNCHANGED seal
  /\ UNCHANGED <<flock, disk, calls, failures, history>>

(* The caller gives the present time, which is later than every event.     *)
SealDay(s) ==
  /\ seal[s].pc = "idle" /\ Held(silo[s].mem) > 0
  /\ calls < MaxCalls /\ calls' = calls + 1
  /\ seal' = [seal EXCEPT ![s].pc = "lock", ![s].pending = NoEvent, ![s].end = Max(Days) + 1 + calls]
  /\ UNCHANGED <<silo, flock, disk, ingested, failures, history>>

lockStorageDir(s) ==
  /\ seal[s].pc = "lock" /\ flock = "free"
  /\ flock' = s /\ seal' = [seal EXCEPT ![s].pc = "write"]
  /\ UNCHANGED <<silo, disk, counts, history>>

-----------------------------------------------------------------------------
(* A slice that loads under the key, and is of the current version.        *)
Loads(d) == d \notin damaged /\ file[d].version # 0 /\ (Keyed => file[d].version = Current)
Chained(d) == Loads(d) /\ file[d].version = Current

Before(d) == {x \in Days : x < d /\ file[x].version # 0}
After(d) == {x \in Days : x > d /\ file[x].version # 0}

(* The seal of the latest slice before the day: from memory if this silo   *)
(* wrote it, else from the file; none if it does not load.                 *)
prevDaySeal(s, d) ==
  IF Before(d) = {} THEN NoSeal
  ELSE LET p == Max(Before(d)) IN
       IF silo[s].chain.known /\ silo[s].chain.day = p THEN silo[s].chain.seal
       ELSE IF Chained(p) THEN file[p] ELSE NoSeal

(* sampleOracleEntries: the priority entries first, then the others.       *)
Kept(entries) ==
  LET prio == {e \in entries : e.priority}
  IN IF Cardinality(entries) <= Cap THEN {entries}
     ELSE IF Cardinality(prio) >= Cap THEN kSubset(Cap, prio)
     ELSE {prio \cup n : n \in kSubset(Cap - Cardinality(prio), entries \ prio)}

(* The slice of the day on disk and the memory: the entries of both, the   *)
(* flags of all, kept or not, and the number of events observed.           *)
Merge(s, old) ==
  LET m == silo[s].mem
      fresh == Range(m.normal) \cup Range(m.priority)
      all == old.entries \cup fresh
      dup == Held(m) - Cardinality(fresh \ old.entries)
  IN [all |-> all, observed |-> Max({Cardinality(all), old.observed + m.observed - dup}),
      flags |-> old.flags \cup m.flags \cup UNION {e.flags : e \in all}]

(* The slice that the day's file contributes; one of an older version      *)
(* gives its flags, if its seal could be checked, and no entries.          *)
Existing(d) ==
  IF file[d].version = Current THEN file[d]
  ELSE [entries |-> {}, observed |-> 0, end |-> IF file[d].version # 0 /\ ~Keyed THEN file[d].end ELSE 0,
        flags |-> IF file[d].version # 0 /\ ~Keyed THEN file[d].flags ELSE {}]

(* The end of a slice, from the time its seal is given: a day after the    *)
(* start when that time is not later than it.                              *)
Ending(d, t) == IF t <= d THEN d + 1 ELSE t

Slice(s, d, g, kept) ==
  [version |-> Current, entries |-> kept, observed |-> g.observed, prev |-> prevDaySeal(s, d),
   end |-> Max({Ending(d, seal[s].end), Existing(d).end}),
   flags |-> g.flags \cup IF kept = g.all THEN {} ELSE {"saturated", "sampled"}]

Fail(s) ==
  /\ seal' = [seal EXCEPT ![s] = Resting]
  /\ flock' = IF flock = s THEN "free" ELSE flock

(* The day's file cannot be read, or an other archive has its name.        *)
Refused(d) ==
  \/ d \in damaged
  \/ file[d].version = 3 /\ archive[d] \notin {NoFile, file[d]}

(* A slice of an older version is first kept aside: the archive is a link, *)
(* or a copy renamed, so it is never half written.                         *)
archiveLegacyDay(s) ==
  /\ seal[s].pc = "write"
  /\ LET d == silo[s].mem.day
     IN /\ file[d].version = 3 /\ archive[d] = NoFile /\ d \notin damaged
        /\ archive' = [archive EXCEPT ![d] = file[d]]
  /\ UNCHANGED <<silo, seal, flock, file, damaged, counts, history>>

Archived(d) == file[d].version = 3 => archive[d] = file[d]

(* The seal of a day, to the rename of its file.                           *)
sealCurrentDay(s) ==
  /\ seal[s].pc = "write"
  /\ LET d == silo[s].mem.day
         g == Merge(s, Existing(d))
     IN IF Refused(d) THEN Fail(s) /\ UNCHANGED <<silo, file>>
        ELSE /\ Archived(d)
             /\ \E kept \in Kept(g.all) :
                  LET f == Slice(s, d, g, kept) IN
                  /\ file' = [file EXCEPT ![d] = f]
                  /\ silo' = [silo EXCEPT ![s].chain = [known |-> TRUE, day |-> d, seal |-> f]]
                  /\ seal' = [seal EXCEPT ![s].pc = "relink", ![s].day = d, ![s].seal = f]
             /\ UNCHANGED flock
  /\ UNCHANGED <<archive, damaged, counts, history>>

(* Mutant of ToRelink: the successors are left as they are.                *)
ToRelinkNone(s) == 0

(* The successor that the propagation must rewrite, 0 for none: it stops   *)
(* at a slice that does not load or that is already linked.                *)
ToRelink(s) ==
  LET later == After(seal[s].day) IN
  IF later = {} THEN 0
  ELSE LET n == Min(later) IN IF Chained(n) /\ file[n].prev # seal[s].seal THEN n ELSE 0

relinkSuccessor(s) ==
  /\ seal[s].pc = "relink" /\ ToRelink(s) # 0
  /\ LET n == ToRelink(s)
         f == [file[n] EXCEPT !.prev = seal[s].seal]
     IN /\ file' = [file EXCEPT ![n] = f]
        /\ silo' = [silo EXCEPT ![s].chain = [known |-> TRUE, day |-> n, seal |-> f]]
        /\ seal' = [seal EXCEPT ![s].day = n, ![s].seal = f]
  /\ UNCHANGED <<flock, archive, damaged, counts, history>>

(* The seal has succeeded: the memory is emptied, or opened for the day of *)
(* the event that waits.                                                   *)
SealDone(s) ==
  /\ seal[s].pc = "relink" /\ ToRelink(s) = 0
  /\ LET m == silo[s].mem
         p == seal[s].pending
     IN /\ logged' = [logged EXCEPT ![m.day] = @ \cup m.seen]
        /\ torn' = torn \ {m.day}
        /\ \E n \in IF p = NoEvent
                      THEN {[m EXCEPT !.normal = <<>>, !.priority = <<>>, !.observed = 0, !.flags = {}, !.seen = {}]}
                      ELSE Added(Memory(p.day), p) :
             silo' = [silo EXCEPT ![s].mem = n]
  /\ Fail(s)
  /\ UNCHANGED <<disk, counts>>

-----------------------------------------------------------------------------
(* The propagation that an interruption leaves unfinished.                 *)
Tearing(s) == IF seal[s].pc = "relink" /\ ToRelink(s) # 0 THEN {silo[s].mem.day} ELSE {}

(* The lock, a write or a rename fails; the seal returns an error, the     *)
(* event that waited is lost and the memory is kept for the next seal.     *)
SealFails(s) ==
  /\ seal[s].pc \in {"lock", "write", "relink"} /\ failures < MaxFailures /\ failures' = failures + 1
  /\ seal[s].pc = "relink" => ToRelink(s) # 0
  /\ torn' = torn \cup Tearing(s)
  /\ Fail(s)
  /\ UNCHANGED <<silo, disk, ingested, calls, logged>>

(* The process dies: its memory is lost, its lock released.                *)
Crash(s) ==
  /\ failures < MaxFailures /\ failures' = failures + 1
  /\ silo' = [silo EXCEPT ![s] = [mem |-> Empty, chain |-> Unknown]]
  /\ torn' = torn \cup Tearing(s)
  /\ Fail(s)
  /\ UNCHANGED <<disk, ingested, calls, logged>>

(* The medium alters a file.                                               *)
Damage(d) ==
  /\ Cardinality(damaged) < MaxDamages
  /\ file[d].version # 0 /\ d \notin damaged
  /\ damaged' = damaged \cup {d}
  /\ UNCHANGED <<silo, seal, flock, file, archive, counts, history>>

-----------------------------------------------------------------------------
(* The verification lists the files, then reads them one by one, with the  *)
(* mutex of its silo and without the lock of the directory.                *)
VerifyOracleChain(s) ==
  /\ seal[s].pc = "idle"
  /\ calls < MaxCalls /\ calls' = calls + 1
  /\ seal' = [seal EXCEPT ![s] = [Resting EXCEPT !.pc = "verify", !.altered = damaged,
                                    !.todo = {d \in Days : file[d].version # 0}]]
  /\ UNCHANGED <<silo, flock, disk, ingested, failures, history>>

(* One slice: out of the chain, unreadable, or compared with the seal of   *)
(* the slice of the chain read before it, if that one was readable.        *)
Examined(v, d) ==
  IF ~Loads(d) THEN [v EXCEPT !.breaks = @ \cup {d}, !.seal = NoSeal]
  ELSE IF file[d].version # Current THEN v
  ELSE [v EXCEPT !.breaks = @ \cup (IF v.seal \notin {NoSeal, file[d].prev} THEN {d} ELSE {}), !.seal = file[d]]

VerifyFile(s) ==
  /\ seal[s].pc = "verify" /\ seal[s].todo # {}
  /\ LET d == Min(seal[s].todo)
     IN seal' = [seal EXCEPT ![s] = [Examined(seal[s], d) EXCEPT !.todo = @ \ {d}]]
  /\ UNCHANGED <<silo, flock, disk, counts, history>>

VerifyReturn(s) ==
  /\ seal[s].pc = "verify" /\ seal[s].todo = {}
  /\ seal' = [seal EXCEPT ![s] = Resting]
  /\ UNCHANGED <<silo, flock, disk, counts, history>>

Next ==
  \/ \E s \in Silos : \/ \E e \in Events : IngestSnapshot(s, e)
                      \/ SealDay(s) \/ lockStorageDir(s) \/ archiveLegacyDay(s) \/ sealCurrentDay(s)
                      \/ relinkSuccessor(s) \/ SealDone(s) \/ SealFails(s) \/ Crash(s)
                      \/ VerifyOracleChain(s) \/ VerifyFile(s) \/ VerifyReturn(s)
  \/ \E d \in Days : Damage(d)

Spec == Init /\ [][Next]_vars

-----------------------------------------------------------------------------
(* The reservoir of a silo and the entries of a slice stay within their    *)
(* limit, however many events the day brings.                              *)
TypeOK ==
  /\ \A s \in Silos : /\ Held(silo[s].mem) <= Cap
                      /\ seal[s].pc \in {"idle", "lock", "write", "relink", "verify"}
  /\ \A d \in Days : file[d].version = Current => Cardinality(file[d].entries) <= Cap
  /\ flock \in Silos \cup {"free"}

(* The days whose slice does not have the seal of the slice before it in   *)
(* the chain, when both can be read.                                       *)
Unlinked ==
  {d \in Days : /\ Chained(d)
                /\ LET b == {x \in Before(d) : Chained(x) \/ ~Loads(x)}
                   IN b # {} /\ Chained(Max(b)) /\ file[d].prev # file[Max(b)]}

(* relinkSuccessorsLocked keeps the chain whole: whenever nobody seals,    *)
(* and every seal that was interrupted has been done again, each slice     *)
(* carries the seal of the one before it.                                  *)
ChainWhole == flock = "free" /\ torn = {} => Unlinked = {}

(* VerifyOracleChain reports every slice that was altered when it began,   *)
(* and no day but an altered one and one that no key protects.             *)
VerifyTrue == \A s \in Silos : seal[s].pc = "verify" =>
  /\ torn = {} => seal[s].breaks \subseteq damaged \cup {d \in Legacy : Keyed}
  /\ seal[s].todo = {} => seal[s].altered \subseteq seal[s].breaks

(* An alert outlives the sampling: once an event is sealed, the flags it   *)
(* carries are in the header of its day, whether it was kept or not.       *)
AlertSurvives == \A d \in Days : d \notin damaged =>
  \A e \in logged[d] : e.flags \subseteq file[d].flags

(* High and critical events are all kept while they fit in the slice.      *)
PriorityKept == \A d \in Days :
  d \notin damaged /\ Cardinality({e \in Events : e.priority /\ e.day = d}) <= Cap =>
    \A e \in logged[d] : e.priority => e \in file[d].entries

(* A sealed slice is never destroyed: a damaged one stays as it is, one of *)
(* an older version is archived, and entries are lost only by sampling.    *)
NothingDestroyed ==
  [][\A d \in Days :
       /\ d \in damaged => file'[d] = file[d]
       /\ file[d].version = 3 /\ file'[d].version = Current => archive'[d] = file[d]
       /\ file[d].version = Current => file[d].entries \subseteq file'[d].entries \/ "sampled" \in file'[d].flags]_vars

(* As long as a slice keeps all of its events, its ObservedCount is the    *)
(* number of the distinct ones: reading a log again, or a seal tried again *)
(* after it failed past the rename, does not raise it.  Once a slice is    *)
(* sampled, what was discarded may be counted again.                       *)
ObservedDistinct == \A d \in Days :
  file[d].version = Current /\ "sampled" \notin file[d].flags =>
    file[d].observed = Cardinality(file[d].entries)
=============================================================================
