----------------------------- MODULE Reputation -----------------------------
(***************************************************************************)
(* The reputation table of compact_reputation.go and the synchroniser of   *)
(* syncer.go: lists of domains are fetched from sources that may fail,     *)
(* compiled into an immutable table and swapped in one pointer.            *)
(*                                                                         *)
(* A domain is the sequence of its labels, the last one being the root's   *)
(* child.  The index sorted by FNV-1a hash is searched by text in the end, *)
(* so a table is the set of its entries.                                   *)
(***************************************************************************)
EXTENDS Integers, Sequences, SequencesExt, FiniteSets

CONSTANTS
  Names,       \* the domains that are looked up
  Shared,      \* isSharedHostingDomain
  Default,     \* DefaultBuildEntries, a set of entries
  Sources,     \* the configured sources, a sequence
  ClassOf,     \* source -> the classification of its entries
  KindOf,      \* source -> their match kind
  Lists,       \* source -> the lists it may publish, sets of domains
  Syncers,     \* the goroutines that call SyncOnce
  MaxChanges   \* bound: the changes of a list or of the health of a source

Block == 3     \* RepClassBlockC2
Exact == 1     \* MatchExact
Subtree == 2   \* MatchSubtree

Entry(d, class, kind) == [domain |-> d, class |-> class, kind |-> kind]

SourceSet == Range(Sources)
Domains == Names \cup {e.domain : e \in Default} \cup UNION UNION {Lists[s] : s \in SourceSet}

ASSUME ReputationAssumption ==
  /\ \A d \in Domains : d \in Seq(Range(d))
  /\ Default \subseteq [domain : Domains, class : 1 .. 4, kind : {Exact, Subtree}]
  /\ ClassOf \in [SourceSet -> 1 .. 4] /\ KindOf \in [SourceSet -> {Exact, Subtree}]
  /\ Sources \in Seq(SourceSet) /\ "free" \notin Syncers /\ MaxChanges \in Nat

VARIABLES
  active,      \* the entries of the table in service
  activeAt,    \* history: how recent is what it holds of each source
  published,   \* the list each source publishes
  healthy,     \* does a fetch from it succeed?
  lock,        \* the holder of syncMu, or "free"
  pass,        \* the locals of every SyncOnce
  changes      \* the changes so far, a clock

reputationVars == <<active, activeAt, published, healthy, lock, pass, changes>>
service == <<active, activeAt>>
env == <<published, healthy, changes>>

-----------------------------------------------------------------------------
(* Mutant of reputationRank: the classes keep their numeric order.         *)
reputationRankPlain(class) == class

(* Block wins, the others have a fixed order.                              *)
reputationRank(class) == IF class = Block THEN 10 ELSE class

(* A shared hosting root cannot be allowed with its subdomains; then one   *)
(* entry remains for each domain and kind, the one of highest rank.        *)
CompileReputationSnapshot(entries) ==
  LET forced == {[e EXCEPT !.kind = IF e.domain \in Shared /\ e.class # Block THEN Exact ELSE @]
                   : e \in entries}
  IN {e \in forced : \A f \in forced : f.domain = e.domain /\ f.kind = e.kind
                       => reputationRank(f.class) <= reputationRank(e.class)}

(* The entries matchHash accepts on the walk from the name to its root.    *)
Candidates(table, name) ==
  {e \in table : \/ e.domain = name
                 \/ /\ IsSuffix(e.domain, name) /\ e.kind = Subtree
                    /\ ~(e.domain \in Shared /\ e.class # Block)}

(* The better of two of them: by rank, then the more specific, then exact. *)
Beats(e, f) ==
  \/ reputationRank(e.class) > reputationRank(f.class)
  \/ e.class = f.class /\ Len(e.domain) > Len(f.domain)
  \/ e.class = f.class /\ e.domain = f.domain /\ e.kind < f.kind

(* The classification that Match returns, 0 for no match.                  *)
Match(table, name) ==
  LET c == Candidates(table, name) IN
  IF c = {} THEN 0 ELSE (CHOOSE e \in c : \A f \in c \ {e} : Beats(e, f)).class

-----------------------------------------------------------------------------
IdlePass ==
  [pc |-> "idle", todo |-> <<>>, got |-> {}, at |-> [s \in SourceSet |-> 0],
   failed |-> {}, cancelled |-> FALSE]

ReputationInit ==
  /\ active = CompileReputationSnapshot(Default)
  /\ activeAt = [s \in SourceSet |-> 0]
  /\ published \in [SourceSet -> UNION {Lists[s] : s \in SourceSet}]
  /\ \A s \in SourceSet : published[s] \in Lists[s]
  /\ healthy = [s \in SourceSet |-> TRUE]
  /\ lock = "free"
  /\ pass = [g \in Syncers |-> IdlePass]
  /\ changes = 0

Begin(g) ==
  /\ pass[g].pc = "idle"
  /\ pass' = [pass EXCEPT ![g] = [IdlePass EXCEPT !.pc = "fetch", !.todo = Sources, !.got = Default]]
  /\ UNCHANGED <<service, env>>

(* Mutant of SyncOnce: no syncMu.                                          *)
SyncOnceUnlocked(g) == Begin(g) /\ UNCHANGED lock

(* SyncOnce waits for syncMu.                                              *)
SyncOnce(g) == Begin(g) /\ lock = "free" /\ lock' = g

(* The context of the pass is cancelled; every fetch after that fails.     *)
Cancel(g) ==
  /\ pass[g].pc = "fetch" /\ ~pass[g].cancelled
  /\ pass' = [pass EXCEPT ![g].cancelled = TRUE]
  /\ UNCHANGED <<service, lock, env>>

(* The entries of a list carry the class and the kind of its source.       *)
ParseDomainList(list, s) == {Entry(d, ClassOf[s], KindOf[s]) : d \in list}

(* The sources are read in the order of the configuration.  A source that  *)
(* fails (network, status, size, a malformed line) gives nothing.          *)
fetchSource(g) ==
  /\ pass[g].pc = "fetch" /\ pass[g].todo # <<>>
  /\ LET s == Head(pass[g].todo)
         got == [pass[g] EXCEPT !.got = @ \cup ParseDomainList(published[s], s), !.at[s] = changes]
         missed == [pass[g] EXCEPT !.failed = @ \cup {s}]
         p == IF healthy[s] /\ ~pass[g].cancelled THEN got ELSE missed
     IN pass' = [pass EXCEPT ![g] = [p EXCEPT !.todo = Tail(@)]]
  /\ UNCHANGED <<service, lock, env>>

(* What a pass with a failed source compiles holds the active entries too. *)
Merged(g) == pass[g].got \cup IF pass[g].failed # {} THEN active ELSE {}

(* ReloadFromEntries, unless the context was cancelled; the pass ends and  *)
(* syncMu is released, whatever the outcome.                               *)
EndPass(g) ==
  /\ pass[g].pc = "fetch" /\ pass[g].todo = <<>>
  /\ IF pass[g].cancelled
       THEN UNCHANGED service
       ELSE /\ active' = CompileReputationSnapshot(Merged(g))
            /\ activeAt' = [s \in SourceSet |-> IF s \in pass[g].failed THEN activeAt[s] ELSE pass[g].at[s]]
  /\ pass' = [pass EXCEPT ![g] = IdlePass]
  /\ lock' = "free"
  /\ UNCHANGED env

(* A source changes its list, goes down or comes back.                     *)
Change(s) ==
  /\ changes < MaxChanges /\ changes' = changes + 1
  /\ \/ \E l \in Lists[s] \ {published[s]} : published' = [published EXCEPT ![s] = l]
        /\ UNCHANGED healthy
     \/ /\ healthy' = [healthy EXCEPT ![s] = ~@]
        /\ UNCHANGED published
  /\ UNCHANGED <<service, lock, pass>>

Sync(g) == SyncOnce(g) \/ fetchSource(g) \/ EndPass(g)

ReputationNext ==
  \/ \E g \in Syncers : Sync(g) \/ Cancel(g)
  \/ \E s \in SourceSet : Change(s)

ReputationSpec == ReputationInit /\ [][ReputationNext]_reputationVars

(* StartPeriodic calls SyncOnce at every tick, and a pass goes on by       *)
(* itself; a mutex is eventually had by the goroutine that waits for it.   *)
ReputationFairSpec == ReputationSpec /\ \A g \in Syncers : SF_reputationVars(SyncOnce(g)) /\ WF_reputationVars(Sync(g))

-----------------------------------------------------------------------------
TableTypeOK ==
  /\ \A e \in active : e.kind \in {Exact, Subtree} /\ e.class \in 1 .. 4
  /\ \A e, f \in active : e.domain = f.domain /\ e.kind = f.kind => e = f
  /\ lock \in Syncers \cup {"free"}

(* Block wins across exact and subtree entries: a name under a blocked     *)
(* domain is never answered with an allowance, however specific.           *)
BlockWins ==
  \A e \in active : e.class = Block =>
    /\ Match(active, e.domain) = Block
    /\ e.kind = Subtree => \A n \in Names : IsSuffix(e.domain, n) => Match(active, n) = Block

(* The table in service is well formed and its blocks prevail.             *)
TableSound == TableTypeOK /\ BlockWins

(* A transient incident never erases a learnt indicator: no name that was  *)
(* blocked is unblocked by a pass in which a source failed.                *)
FailureKeepsBlocks ==
  [][ active' # active /\ (\E g \in Syncers : pass[g].pc = "fetch" /\ pass'[g].pc = "idle" /\ pass[g].failed # {})
        => \A n \in Names : Match(active, n) = Block => Match(active', n) = Block ]_reputationVars

(* A pass never takes the table back in time: what it holds of a source is *)
(* never replaced by an older reading of that source, however slow a pass  *)
(* and whoever else runs one.                                              *)
NeverOlder == [][\A s \in SourceSet : activeAt'[s] >= activeAt[s]]_reputationVars

(* Neither an outage nor a rival pass makes the table forget.              *)
TableKept == FailureKeepsBlocks /\ NeverOlder

(* Once the sources are healthy and stable, and passes are not cancelled,  *)
(* the table comes to be exactly what they publish, whatever the outages   *)
(* before.                                                                 *)
Refreshes ==
  <>[](changes = MaxChanges /\ \A s \in SourceSet : healthy[s]) /\ <>[][\A g \in Syncers : ~Cancel(g)]_reputationVars
    => <>[](active = CompileReputationSnapshot(Default \cup UNION {ParseDomainList(published[s], s) : s \in SourceSet}))
=============================================================================
