----------------------------- MODULE Promotion ------------------------------
(***************************************************************************)
(* Active learning: internal/engine/feedback_quarantine.go and the codebook *)
(* file of internal/engine/codebook.go.  Arbitrated incidents wait in the  *)
(* quarantine chamber; ValidateAgainstSealedHoldout drains it into a list  *)
(* of approved entries; PromoteAndReload merges them with the active book, *)
(* writes the .c2book file in place and reloads it.                        *)
(*                                                                         *)
(* Promoters are goroutines.  The chamber is under its mutex, so each of   *)
(* its operations is one action.  The file is not: bufio hands it over in  *)
(* blocks, and an action writes or reads one block.  An entry is its       *)
(* number; a file is the sequence of its 72-byte records after the header. *)
(***************************************************************************)
EXTENDS Integers, Sequences, SequencesExt, FiniteSets

CONSTANTS
  Promoters,
  Case,          \* the incidents: number -> [verdict, near]
  Holdouts,      \* name -> the reference entries, a sequence of [id, threat]
  Calls,         \* the arguments the callers give: [holdout, seal, pct]
  Base,          \* the entries of the first codebook
  Capacity,      \* of the chamber
  BlockRecords,  \* records in one block of bufio, 64 KB in the code
  MaxEntries,    \* codebookMaxEntries
  MaxEnqueued,   \* bound: the incidents of one behaviour
  MaxCrashes     \* bound: the crashes of one behaviour

(* Entries are numbers, and an incident has none of the first book's.      *)
ASSUME PromotionAssumption ==
  /\ Base \in Seq(Nat)
  /\ \A c \in DOMAIN Case : c \in Nat \ {0} /\ c \notin Range(Base)
  /\ \A call \in Calls : call.holdout \in DOMAIN Holdouts \cup {"nil"}
  /\ Capacity \in Nat \ {0} /\ BlockRecords \in Nat \ {0} /\ MaxEntries \in Nat
  /\ MaxEnqueued \in Nat /\ MaxCrashes \in Nat

VARIABLES
  chamber,    \* qc.incidents
  promoter,   \* the locals of every promoter
  file,       \* the records of targetPath
  current,    \* the entries of ac.Current()
  up,         \* is the process running?
  books,      \* history: the books some promoter composed
  enqueued, crashes

bookVars == <<chamber, promoter, file, current, up, books, enqueued, crashes>>

(* A record of a file: a header with its EntryCount, an entry, or the zero *)
(* bytes of a hole, which decode to the entry 0 and to no header.          *)
HeaderRecord(n) == [kind |-> "header", n |-> n]
EntryRecord(e)  == [kind |-> "entry", n |-> e]
Hole            == [kind |-> "hole", n |-> 0]

(* The next block of a sequence of records.                                *)
NextBlock(recs, pos) == SubSeq(recs, pos + 1, IF pos + BlockRecords < Len(recs) THEN pos + BlockRecords ELSE Len(recs))

(* What SaveCodebook serialises.                                           *)
Records(book) == <<HeaderRecord(Len(book))>> \o [i \in 1 .. Len(book) |-> EntryRecord(book[i])]

IdleP == [pc |-> "idle", approved |-> <<>>, merged |-> <<>>, pos |-> 0, got |-> <<>>]

BookInit ==
  /\ chamber = <<>>
  /\ promoter = [i \in Promoters |-> IdleP]
  /\ file = Records(Base)
  /\ current = Base
  /\ up = TRUE
  /\ books = {Base}
  /\ enqueued = 0 /\ crashes = 0

-----------------------------------------------------------------------------
(* The chamber                                                             *)

(* A full chamber refuses the incident and changes nothing.                *)
EnqueueIncident(c) ==
  /\ up /\ enqueued < MaxEnqueued
  /\ Len(chamber) < Capacity
  /\ chamber' = Append(chamber, c)
  /\ enqueued' = enqueued + 1
  /\ UNCHANGED <<promoter, file, current, up, books, crashes>>

(* CascadeFastDrop and OntoVerdictDeny are the same byte.                  *)
HostileVerdict == {2}

(* The entries of a holdout in the Hamming sphere of an incident: all of   *)
(* them, or with a seal the benign ones (ThreatID 0).                      *)
Collisions(c, ref, sealed) ==
  Cardinality({i \in DOMAIN ref : ref[i].id \in Case[c].near /\ ~(sealed /\ ref[i].threat)})

(* collisions / holdoutLen > maxAllowedRegression rejects the incident.    *)
Approved(c, ref, call) ==
  /\ Case[c].verdict \in HostileVerdict
  /\ Collisions(c, ref, call.seal) * 100 <= call.pct * Len(ref)

(* ErrHoldoutSealMismatch and ErrHoldoutUnvalidated leave the chamber as   *)
(* it is.  A negative pct stands for a negative or a NaN regression rate;  *)
(* the expected seal is that of the holdout "genuine".                     *)
Usable(call) ==
  /\ call.holdout # "nil"
  /\ call.seal => Holdouts[call.holdout] = Holdouts["genuine"]
  /\ Len(Holdouts[call.holdout]) > 0
  /\ call.pct >= 0

(* The members of a sequence that are in a set, in their order.            *)
Selected(s, S) ==
  LET F[n \in 0 .. Len(s)] ==
        IF n = 0 THEN <<>> ELSE IF s[n] \in S THEN Append(F[n - 1], s[n]) ELSE F[n - 1]
  IN F[Len(s)]

(* The chamber is emptied, of the incidents that were rejected too.        *)
ValidateAgainstSealedHoldout(i, call) ==
  /\ up /\ promoter[i].pc = "idle" /\ chamber # <<>> /\ Usable(call)
  /\ LET ok == Selected(chamber, {c \in DOMAIN Case : Approved(c, Holdouts[call.holdout], call)}) IN
     promoter' = [promoter EXCEPT ![i] = IF ok = <<>> THEN IdleP
                                         ELSE [IdleP EXCEPT !.pc = "approved", !.approved = ok]]
  /\ chamber' = <<>>
  /\ UNCHANGED <<file, current, up, books, enqueued, crashes>>

-----------------------------------------------------------------------------
(* PromoteAndReload                                                        *)

MergedBook(i) == current \o promoter[i].approved

Merge(i) ==
  /\ up /\ promoter[i].pc = "approved"
  /\ promoter' = [promoter EXCEPT ![i].pc = "create", ![i].merged = MergedBook(i)]
  /\ books' = books \cup {MergedBook(i)}
  /\ UNCHANGED <<chamber, file, current, up, enqueued, crashes>>

(* os.Create truncates the file in place.                                  *)
Create(i) ==
  /\ up /\ promoter[i].pc = "create"
  /\ file' = <<>>
  /\ promoter' = [promoter EXCEPT ![i].pc = "write", ![i].pos = 0]
  /\ UNCHANGED <<chamber, current, up, books, enqueued, crashes>>

(* A write at an offset beyond the end leaves a hole.                      *)
WriteAt(f, pos, data) ==
  LET end == IF Len(f) > pos + Len(data) THEN Len(f) ELSE pos + Len(data) IN
  [k \in 1 .. end |-> IF k > pos /\ k <= pos + Len(data) THEN data[k - pos]
                      ELSE IF k <= Len(f) THEN f[k] ELSE Hole]

WriteBlock(i) ==
  /\ up /\ promoter[i].pc = "write"
  /\ LET all  == Records(promoter[i].merged)
         data == NextBlock(all, promoter[i].pos)
         done == promoter[i].pos + Len(data) = Len(all) IN
     /\ file' = WriteAt(file, promoter[i].pos, data)
     /\ promoter' = [promoter EXCEPT ![i].pos = IF done THEN 0 ELSE @ + Len(data),
                                         ![i].pc = IF done THEN "read" ELSE "write"]
  /\ UNCHANGED <<chamber, current, up, books, enqueued, crashes>>

(* SaveCodebook returns the error of a creation or of a write: the file    *)
(* stays as it is, and the caller still holds the approved entries.        *)
SaveFails(i) ==
  /\ up /\ promoter[i].pc \in {"create", "write"}
  /\ promoter' = [promoter EXCEPT ![i] = [IdleP EXCEPT !.pc = "approved", !.approved = promoter[i].approved]]
  /\ UNCHANGED <<chamber, file, current, up, books, enqueued, crashes>>

Abandon(i) ==
  /\ up /\ promoter[i].pc = "approved"
  /\ promoter' = [promoter EXCEPT ![i] = IdleP]
  /\ UNCHANGED <<chamber, file, current, up, books, enqueued, crashes>>

-----------------------------------------------------------------------------
(* LoadCodebook, of the records that its reads returned                    *)

HeaderOK(recs) == recs # <<>> /\ recs[1].kind = "header" /\ recs[1].n <= MaxEntries

(* Mutant of Complete: a short file is taken as it is.                     *)
CompleteShort(recs) == HeaderOK(recs)

(* EntryCount entries were read.                                           *)
Complete(recs) == HeaderOK(recs) /\ Len(recs) > recs[1].n

Loaded(recs) ==
  LET n == IF Len(recs) - 1 < recs[1].n THEN Len(recs) - 1 ELSE recs[1].n IN
  [k \in 1 .. n |-> recs[k + 1].n]

(* A block of bufio.  The header is judged as soon as it is read, and the  *)
(* end of the file before EntryCount entries is ErrCodebookCorrupt.        *)
ReadBlock(i) ==
  /\ up /\ promoter[i].pc = "read"
  /\ LET more == NextBlock(file, promoter[i].pos)
         recs == promoter[i].got \o more IN
     promoter' = [promoter EXCEPT ![i] =
       IF Complete(recs) THEN [promoter[i] EXCEPT !.pc = "swap", !.got = recs]
       ELSE IF ~HeaderOK(recs) \/ more = <<>>
              THEN [IdleP EXCEPT !.pc = "approved", !.approved = promoter[i].approved]
       ELSE [promoter[i] EXCEPT !.pos = promoter[i].pos + Len(more), !.got = recs]]
  /\ UNCHANGED <<chamber, file, current, up, books, enqueued, crashes>>

Swap(i) ==
  /\ up /\ promoter[i].pc = "swap"
  /\ current' = Loaded(promoter[i].got)
  /\ promoter' = [promoter EXCEPT ![i] = IdleP]
  /\ UNCHANGED <<chamber, file, up, books, enqueued, crashes>>

-----------------------------------------------------------------------------
(* The process dies: what is on the disk stays.                            *)
Crash ==
  /\ up /\ crashes < MaxCrashes
  /\ up' = FALSE /\ crashes' = crashes + 1
  /\ chamber' = <<>> /\ current' = <<>>
  /\ promoter' = [i \in Promoters |-> IdleP]
  /\ UNCHANGED <<file, books, enqueued>>

(* LoadAtomicCodebook: a file that does not load keeps the engine down.    *)
LoadAtomicCodebook ==
  /\ ~up /\ Complete(file)
  /\ up' = TRUE /\ current' = Loaded(file)
  /\ UNCHANGED <<chamber, promoter, file, books, enqueued, crashes>>

Promote(i) ==
  \/ Merge(i) \/ Create(i) \/ WriteBlock(i) \/ SaveFails(i) \/ Abandon(i)
  \/ ReadBlock(i) \/ Swap(i)

BookNext ==
  \/ \E c \in DOMAIN Case : EnqueueIncident(c)
  \/ \E i \in Promoters, call \in Calls : ValidateAgainstSealedHoldout(i, call)
  \/ \E i \in Promoters : Promote(i)
  \/ Crash \/ LoadAtomicCodebook

BookSpec == BookInit /\ [][BookNext]_bookVars

-----------------------------------------------------------------------------
BookTypeOK ==
  /\ chamber \in Seq(DOMAIN Case) /\ Len(chamber) <= Capacity
  /\ \A i \in Promoters : /\ promoter[i].pc \in {"idle", "approved", "create", "write", "read", "swap"}
                          /\ promoter[i].approved = <<>> <=> promoter[i].pc = "idle"
  /\ \A k \in DOMAIN file : file[k].kind = "header" => k = 1
  /\ up \in BOOLEAN

(* The active book is always one that a promotion composed in full: no     *)
(* crash, failed write or restart puts a truncated book in service.        *)
ActiveWhole == up => current \in books

(* An incident came from a hostile verdict and strikes no more of a        *)
(* holdout than a caller allowed.  For a caller who gave the seal that is  *)
(* the genuine holdout, whatever was handed in.                            *)
Earned(e) ==
  /\ Case[e].verdict \in HostileVerdict
  /\ \E call \in Calls :
       LET h == IF call.seal THEN "genuine" ELSE call.holdout IN
       /\ h # "nil" /\ Holdouts[h] # <<>> /\ call.pct >= 0
       /\ Collisions(e, Holdouts[h], call.seal) * 100 <= call.pct * Len(Holdouts[h])

(* Anti-poisoning: every entry of the active book that was learnt was      *)
(* earned.                                                                 *)
NoPoison == \A e \in Range(current) \ Range(Base) : e \in DOMAIN Case /\ Earned(e)

(* A promotion only adds: while the engine runs, no entry leaves the       *)
(* active book.                                                            *)
PromotedKept == [][ up /\ up' => Range(current) \subseteq Range(current') ]_bookVars

(* Promoters that wait for each other: PromoteAndReload takes no lock, and *)
(* its callers must not overlap from the merge to the reload.              *)
Promoting(i) == promoter[i].pc \in {"create", "write", "read", "swap"}
Turns == \A i, j \in Promoters : Promoting(i) /\ Promoting(j) => i = j

(* PromoteAndReload and LoadAtomicCodebook: no crash, failed write or      *)
(* restart puts a truncated codebook in service; the chamber stays within  *)
(* its capacity, and an entry that was learnt came from a hostile verdict  *)
(* and strikes no more of the sealed holdout than a caller allowed; while  *)
(* the engine runs no entry leaves the active book.                        *)
BookSound == [](BookTypeOK /\ ActiveWhole /\ NoPoison) /\ PromotedKept
=============================================================================
