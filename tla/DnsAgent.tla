------------------------------- MODULE DnsAgent -------------------------------
(* The DNS agent (internal/engine/dns_agent.go): the verdict of a query on    *)
(* the tunnel and DGA disks, the cut of a name, the cold split that builds    *)
(* the two disks from labelled files and then scores them on what was left    *)
(* out, and the discovery of new patterns.  A label is a small number, a      *)
(* feature vector is what the disk says of it.                                *)
EXTENDS Integers, Sequences, FiniteSets, FiniteSetsExt, SequencesExt, TLC

CONSTANTS Views,      \* queries and what each disk answers about them
          Names,      \* sequences of label lengths; a length of 0 is an empty label
          MaxLabel,   \* longest label (63)
          MaxName,    \* longest name (253)
          TwoLevel,   \* public suffixes of two labels (pairs of lengths)
          Rows,       \* lines of the DGA file
          TunnelFiles,\* the tunnel files, each a sequence of lines
          TrainFams,  \* families of isDGATrainFamily
          HeldParent, \* the tunnel parent kept for the test (tuns.org)
          PerParent, PerFamily, PerHeldOut,          \* 600, 80, 100
          TunnelBenign, TunnelShared,                \* 2000, 2500
          DgaBenign, DgaHostile, DgaTest,            \* 1600, 1100, 1500
          MaxRows,    \* lines of a file
          Codes,      \* suspicious codes met by the discovery
          MaxCodes,
          Samples     \* scored samples <<score, hostile>>

AgentAssumption ==
  /\ MaxLabel \in Nat \ {0} /\ MaxName \in Nat \ {0} /\ MaxRows \in Nat /\ MaxCodes \in Nat
  /\ {PerParent, PerFamily, PerHeldOut, TunnelBenign, TunnelShared, DgaBenign, DgaHostile, DgaTest}
       \subseteq Nat \ {0}

VARIABLES view,   \* a query and its verdict
          name,   \* a name and its parts
          cold,   \* the files, what was learned and what was scored
          found   \* the patterns discovered
vars == <<view, name, cold, found>>

-------------------------------------------------------------------------------
(* evalSingleDNSFloppy: what a disk says of a vector is a record [event,      *)
(* probe, near, centroid, pred, conforms]; `near` is nearThreat, `centroid`   *)
(* the distance class of SearchCentroid.                                      *)

Pass == 0
Quarantine == 1
Block == 2
Verdict(stage, action) == [stage |-> stage, action |-> action]

evalSingleDNSFloppy(d) ==
  IF ~d.event /\ d.probe = "confirm" /\ ~d.near THEN Verdict("L1a", Pass)
  ELSE IF d.centroid = "inside" THEN Verdict("L1b", Block)
  ELSE IF d.pred = 1 THEN Verdict("L1b", IF d.conforms THEN Block ELSE Quarantine)
  ELSE Verdict("L1b", Pass)

\* On a disk of the event space two thresholds of the composite score block
\* what the disk did not: a long load or a short probe.
TunnelVerdict(d) ==
  LET v == evalSingleDNSFloppy(d)
  IN IF v.action # Block /\ d.event /\ (d.long \/ d.short) THEN Verdict("L1b", Block) ELSE v

\* A leading underscore label of the RFCs, at most two, is not judged.
StripLeading(sub) ==
  LET rfc(i) == sub[i] = "rfc"
      k == IF sub = <<>> \/ ~rfc(1) THEN 0 ELSE IF Len(sub) = 1 \/ ~rfc(2) THEN 1 ELSE 2
  IN SubSeq(sub, k + 1, Len(sub))

\* Mutant of EvaluateDNSView: the DGA disk has the last word.
EvaluateDNSViewLast(v) ==
  LET tunnelSeen == v.tunnel.loaded /\ StripLeading(v.sub) # <<>> /\ v.tunnel.extracts
  IN IF v.encoded \/ v.keyword THEN Verdict("L0", Block)
     ELSE IF tunnelSeen /\ TunnelVerdict(v.tunnel).action = Block THEN TunnelVerdict(v.tunnel)
     ELSE IF v.dga.loaded /\ v.sld /\ v.dga.extracts THEN evalSingleDNSFloppy(v.dga)
     ELSE IF tunnelSeen THEN TunnelVerdict(v.tunnel) ELSE Verdict("L0", Pass)

\* nil is a disk that is not loaded, "short" one whose extractor refuses.
EvaluateDNSView(v) ==
  LET effective == StripLeading(v.sub)
      tunnelSeen == v.tunnel.loaded /\ effective # <<>> /\ v.tunnel.extracts
      dgaSeen == v.dga.loaded /\ v.sld /\ v.dga.extracts
      t == TunnelVerdict(v.tunnel)
      g == evalSingleDNSFloppy(v.dga)
  IN IF v.encoded \/ v.keyword THEN Verdict("L0", Block)
     ELSE IF tunnelSeen /\ (t.action = Block \/ ~v.dga.loaded \/ ~v.sld) THEN t
     ELSE IF ~dgaSeen THEN IF tunnelSeen THEN t ELSE Verdict("L0", Pass)
     ELSE IF ~tunnelSeen \/ g.action = Block THEN g
     ELSE IF t.action = Quarantine THEN t
     ELSE IF g.action = Quarantine THEN g ELSE t

NoView == [of |-> "none"]
Evaluate(v) ==
  /\ view' = [of |-> "view", v |-> v, verdict |-> EvaluateDNSView(v)]
  /\ UNCHANGED <<name, cold, found>>

-------------------------------------------------------------------------------
(* splitDNSNameBytes: the trailing dots are dropped, every label is measured, *)
(* and the last two labels are one suffix when they are listed as such.       *)

Trimmed(n) == LET keep == {i \in DOMAIN n : n[i] # 0} IN IF keep = {} THEN <<>> ELSE SubSeq(n, 1, Max(keep))
Bytes(n) == IF n = <<>> THEN 0 ELSE SumFunction(n) + Len(n) - 1
NoParts == [ok |-> FALSE, sub |-> <<>>, sld |-> <<>>, tld |-> <<>>, parent |-> <<>>, max |-> 0]

splitDNSNameBytes(raw) ==
  LET n == Trimmed(raw)
      k == Len(n)
      suffix == k >= 3 /\ <<n[k - 1], n[k]>> \in TwoLevel
      s == IF suffix THEN k - 2 ELSE k - 1
  IN IF n = <<>> \/ Bytes(n) > MaxName \/ \E i \in DOMAIN n : n[i] = 0 \/ n[i] > MaxLabel THEN NoParts
     ELSE IF k < 2 THEN [NoParts EXCEPT !.ok = TRUE, !.sld = n, !.parent = n, !.max = n[1]]
     ELSE [ok |-> TRUE, sub |-> SubSeq(n, 1, s - 1), sld |-> <<n[s]>>, tld |-> SubSeq(n, s + 1, k),
           parent |-> SubSeq(n, s, k), max |-> Max({n[i] : i \in DOMAIN n})]

NoName == [of |-> "none"]
Split(n) ==
  /\ name' = [of |-> "name", n |-> n, parts |-> splitDNSNameBytes(n)]
  /\ UNCHANGED <<view, cold, found>>

-------------------------------------------------------------------------------
(* The cold split.  Two files are read line by line, first to build the disks *)
(* (pc tunnel, dga, save), then to score them (pc test, eval).  The tunnel    *)
(* file of the test is another file than that of the training; the DGA file   *)
(* is the same one, so both passes count its normal lines.  A row is          *)
(* [named, kind, parent, sub, fam, ok, action]: whether its columns and name  *)
(* are well formed, its label, its parent and family, whether it has a        *)
(* subdomain and the extractor accepts it, and the verdict the disk gives it. *)

NoCold == [pc |-> "tunnel", at |-> 1, files |-> <<>>, normals |-> 0, perParent |-> <<>>,
           perFam |-> <<>>, tunnel |-> <<>>, tunnelBenign |-> <<>>, dga |-> <<>>, dgaBenign |-> <<>>,
           disks |-> {}, held |-> <<>>, tpos |-> <<>>, metrics |-> <<>>, open |-> {}]

Count(f, k) == IF k \in DOMAIN f THEN f[k] ELSE 0
Bump(f, k) == (k :> Count(f, k) + 1) @@ f
File(c) == c.files[IF c.pc = "tunnel" THEN 1 ELSE IF c.pc = "test" THEN 3 ELSE 2]
Row == File(cold)[cold.at]
More == cold.at <= Len(File(cold))
Go(s) == cold' = s /\ UNCHANGED <<view, name, found>>
Skip(s) == [s EXCEPT !.at = @ + 1]

\* BuildDNSFloppiesColdSplit 551-622: the parent held out is never learned.
LearnTunnel ==
  /\ cold.pc = "tunnel" /\ More
  /\ LET r == Row
     IN Go(Skip(IF ~r.named \/ r.parent = HeldParent THEN cold
                ELSE IF r.kind = "hostile" THEN
                  IF r.sub /\ Count(cold.perParent, r.parent) < PerParent /\ r.ok
                  THEN [cold EXCEPT !.perParent = Bump(@, r.parent), !.tunnel = Append(@, <<1, cold.at>>)]
                  ELSE cold
                ELSE IF r.kind = "normal" /\ Len(cold.tunnelBenign) < TunnelBenign /\ r.ok
                THEN [cold EXCEPT !.tunnelBenign = Append(@, <<1, cold.at>>)] ELSE cold))

\* 649-726: one normal line of two is learned, by both disks, and the listed
\* families up to their quota; the pass ends early when both are full.
LearnDga ==
  /\ cold.pc = "dga" /\ More
  /\ LET r == Row
         learn == cold.normals % 2 = 0
         c1 == [cold EXCEPT !.normals = @ + 1]
         c2 == IF learn /\ r.sub /\ Len(cold.tunnelBenign) < TunnelShared /\ r.ok
               THEN [c1 EXCEPT !.tunnelBenign = Append(@, <<2, cold.at>>)] ELSE c1
         c3 == IF learn /\ Len(cold.dgaBenign) < DgaBenign /\ r.ok
               THEN [c2 EXCEPT !.dgaBenign = Append(@, <<2, cold.at>>)] ELSE c2
         c4 == IF r.fam \in TrainFams /\ Count(cold.perFam, r.fam) < PerFamily /\ r.ok
               THEN [cold EXCEPT !.perFam = Bump(@, r.fam), !.dga = Append(@, <<2, cold.at>>)] ELSE cold
         s == IF ~r.named \/ r.kind = "other" THEN cold ELSE IF r.kind = "normal" THEN c3 ELSE c4
         skipped == ~r.named \/ (r.kind = "normal" /\ ~learn) \/ (r.kind = "hostile" /\ s = cold)
     IN Go(IF ~skipped /\ Len(s.dgaBenign) >= DgaBenign /\ Len(s.dga) >= DgaHostile
           THEN [s EXCEPT !.at = Len(File(cold)) + 1] ELSE Skip(s))

\* A read error ends the pass before anything is saved; the two disks are
\* saved one after the other, so a failure may leave the first alone.
EndOfPass ==
  /\ cold.pc \in {"tunnel", "dga"} /\ ~More
  /\ \/ Go([cold EXCEPT !.pc = IF @ = "tunnel" THEN "dga" ELSE "save", !.at = 1])
     \/ Go([cold EXCEPT !.pc = "failed"])

Save ==
  /\ cold.pc = "save"
  /\ \/ Go([cold EXCEPT !.disks = @ \cup {IF @ = {} THEN "tunnel" ELSE "dga"},
                        !.pc = IF cold.disks = {} THEN "save" ELSE "load"])
     \/ Go([cold EXCEPT !.pc = "failed"])

\* EvaluateDNSColdSplit loads the two disks, then opens the two files.
Load ==
  /\ cold.pc = "load"
  /\ \/ Go([cold EXCEPT !.pc = "test", !.at = 1, !.normals = 0, !.perFam = <<>>, !.open = {"tunnel", "dga"}])
     \/ Go([cold EXCEPT !.pc = "failed"])

NoMetrics == [total |-> 0, tp |-> 0, fp |-> 0, tn |-> 0, fn |-> 0, qh |-> 0, qb |-> 0]
accumulateVerdictMetrics(m, action, hostile) ==
  LET one == [m EXCEPT !.total = @ + 1]
  IN CASE action = Block /\ hostile -> [one EXCEPT !.tp = @ + 1]
       [] action = Block /\ ~hostile -> [one EXCEPT !.fp = @ + 1]
       [] action = Quarantine /\ hostile -> [one EXCEPT !.qh = @ + 1]
       [] action = Quarantine /\ ~hostile -> [one EXCEPT !.qb = @ + 1]
       [] action = Pass /\ hostile -> [one EXCEPT !.fn = @ + 1]
       [] OTHER -> [one EXCEPT !.tn = @ + 1]
Metrics(s) == IF s.metrics = <<>> THEN NoMetrics ELSE s.metrics

\* 907-965: of the hostile lines only those of the parent held out.
TestTunnel ==
  /\ cold.pc = "test" /\ More
  /\ LET r == Row
     IN Go(Skip(IF ~r.named \/ (r.kind = "hostile" /\ r.parent # HeldParent) THEN cold
                ELSE [cold EXCEPT !.tpos = Append(@, <<3, cold.at, r.kind>>),
                        !.metrics = accumulateVerdictMetrics(Metrics(cold), r.action, r.kind = "hostile")]))

\* 984-1066: the other normal line of two, and the families not listed.
Held(kind) == {i \in DOMAIN cold.held : cold.held[i][3] = kind}
TestDga ==
  /\ cold.pc = "eval" /\ More
  /\ LET r == Row
         keepNormal == cold.normals % 2 = 1 /\ Cardinality(Held("normal")) < DgaTest
         keepHostile == /\ r.fam \notin TrainFams /\ Count(cold.perFam, r.fam) < PerHeldOut
                        /\ Cardinality(Held("hostile")) < DgaTest
         c == IF r.named /\ r.kind = "normal" THEN [cold EXCEPT !.normals = @ + 1] ELSE cold
         keep == r.named /\ ((r.kind = "normal" /\ keepNormal) \/ (r.kind = "hostile" /\ keepHostile))
         s == [c EXCEPT !.held = Append(@, <<2, cold.at, r.kind>>),
                        !.perFam = IF r.kind = "hostile" THEN Bump(@, r.fam) ELSE @,
                        !.metrics = accumulateVerdictMetrics(Metrics(cold), r.action, r.kind = "hostile")]
         full(t) == \A kind \in {"normal", "hostile"} :
                      Cardinality({i \in DOMAIN t.held : t.held[i][3] = kind}) >= DgaTest
     IN Go(IF ~keep THEN Skip(c)
           ELSE IF full(s) THEN [s EXCEPT !.at = Len(File(cold)) + 1] ELSE Skip(s))

\* The disks are closed by deferred calls on every return.
EndOfTest ==
  /\ cold.pc \in {"test", "eval"} /\ ~More
  /\ \/ cold.pc = "test" /\ Go([cold EXCEPT !.pc = "eval", !.at = 1, !.metrics = <<>>])
     \/ cold.pc = "eval" /\ Go([cold EXCEPT !.pc = "done", !.open = {}])
     \/ Go([cold EXCEPT !.pc = "failed", !.open = {}])

ColdSplit == LearnTunnel \/ LearnDga \/ EndOfPass \/ Save \/ Load \/ TestTunnel \/ TestDga \/ EndOfTest

-------------------------------------------------------------------------------
(* computeExactROC_AUC, doubled so that ties stay whole: samples sorted by    *)
(* score, tied ones sharing the middle of their ranks.                        *)

Positives(s) == {i \in DOMAIN s : s[i][2]}
AUC2(raw) ==
  LET lower(x, y) == x[1] < y[1]
      s == SortSeq(raw, lower)
      tied(i) == {j \in DOMAIN s : s[j][1] = s[i][1]}
      rank2(i) == Min(tied(i)) + Max(tied(i))
      pos == Positives(s)
      neg == DOMAIN s \ pos
  IN IF pos = {} \/ neg = {} THEN 0
     ELSE MapThenSumSet(rank2, pos) - Cardinality(pos) * (Cardinality(pos) + 1)

Rank(s) ==
  /\ name' = [of |-> "ranks", s |-> s, auc2 |-> AUC2(s)]
  /\ UNCHANGED <<view, cold, found>>

(* DiscoverRedhostPatterns: a suspicious code becomes a pattern unless its    *)
(* disk knows a threat near it or an earlier pattern is within the radius of  *)
(* that disk.  A code is [at, disk, extracts, suspicious].                    *)

Near(x, y) == IF x > y THEN x - y ELSE y - x
NoFound == [met |-> <<>>, out |-> <<>>]
alreadyCovered(c, out) ==
  \/ c.disk.loaded /\ \E t \in c.disk.threats : Near(c.at, t) <= c.disk.radius
  \/ \E i \in DOMAIN out : Near(c.at, out[i].at) <= c.disk.radius

Discover(c) ==
  /\ Len(found.met) < MaxCodes
  /\ found' = [met |-> Append(found.met, c),
               out |-> IF ~c.extracts \/ ~c.suspicious \/ alreadyCovered(c, found.out) THEN found.out
                       ELSE Append(found.out, [at |-> c.at, id |-> 9001 + Len(found.out)])]
  /\ UNCHANGED <<view, name, cold>>

-------------------------------------------------------------------------------
SeqUpTo(S, n) == UNION {[1 .. k -> S] : k \in 0 .. n}
Init ==
  /\ view = NoView /\ name = NoName /\ found = NoFound
  /\ \E t \in TunnelFiles, g \in SeqUpTo(Rows, MaxRows), x \in TunnelFiles :
       cold = [NoCold EXCEPT !.files = <<t, g, x>>]

Verdicts == view = NoView /\ \E v \in Views : Evaluate(v)
Cuts == name = NoName /\ \E n \in Names : Split(n)
Ranks == name = NoName /\ \E s \in Samples : Rank(s)
Discovery == \E c \in Codes : Discover(c)
Next == Verdicts \/ Cuts \/ Ranks \/ ColdSplit \/ Discovery
Spec == Init /\ [][Next]_vars

-------------------------------------------------------------------------------
(* What makes the agent correct.                                              *)

\* A query gets the strongest of the verdicts its disks gave: neither disk
\* hides what the other one stopped, and the keywords stop it before both.
StrongestVerdict ==
  view.of = "view" =>
    LET v == view.v
        said == (IF v.tunnel.loaded /\ v.tunnel.extracts /\ StripLeading(v.sub) # <<>>
                 THEN {TunnelVerdict(v.tunnel).action} ELSE {})
                \cup (IF v.dga.loaded /\ v.sld /\ v.dga.extracts THEN {evalSingleDNSFloppy(v.dga).action} ELSE {})
    IN view.verdict.action = IF v.encoded \/ v.keyword THEN Block ELSE IF said = {} THEN Pass ELSE Max(said)

\* A name that is cut is the concatenation of its parts and its registered
\* domain is never a public suffix; a name that is refused has an empty or
\* oversized label or is too long.
PartsRebuild ==
  name.of = "name" =>
    LET p == name.parts n == Trimmed(name.n)
    IN IF p.ok THEN p.sub \o p.parent = n /\ p.sld \o p.tld = p.parent
                    /\ (Len(n) >= 3 => p.parent \notin TwoLevel)
       ELSE n = <<>> \/ Bytes(n) > MaxName \/ \E i \in DOMAIN n : n[i] \notin 1 .. MaxLabel

Learned == Range(cold.tunnel) \cup Range(cold.tunnelBenign) \cup Range(cold.dga) \cup Range(cold.dgaBenign)

\* The split is cold: no line scored was learned, no family or parent scored
\* as hostile has a line that was learned as such, and the early end of the
\* training never shifts the parity the test relies on.
SplitCold ==
  /\ \A i \in DOMAIN cold.held : <<2, cold.held[i][2]>> \notin Learned
  /\ \A i \in DOMAIN cold.held : cold.held[i][3] = "hostile" =>
       \A l \in Range(cold.dga) : cold.files[2][l[2]].fam # cold.files[2][cold.held[i][2]].fam
  /\ \A l \in Range(cold.tunnel) : cold.files[1][l[2]].parent # HeldParent
  /\ \A i \in DOMAIN cold.tpos : cold.tpos[i][3] = "hostile" =>
       cold.files[3][cold.tpos[i][2]].parent = HeldParent

\* No family or parent weighs more than its quota, the counts of a report add
\* up to its lines, and no disk stays mapped when the evaluation returns.
QuotasHold ==
  /\ \A f \in DOMAIN cold.perParent : cold.perParent[f] <= PerParent
  /\ Len(cold.tunnelBenign) <= Max({TunnelBenign, TunnelShared})
  /\ cold.pc \in {"dga", "save"} => \A f \in DOMAIN cold.perFam : cold.perFam[f] <= PerFamily
  /\ LET m == Metrics(cold) IN m.total = m.tp + m.fp + m.tn + m.fn + m.qh + m.qb
  /\ cold.pc \in {"done", "failed"} => cold.open = {}

\* Every suspicious code met is covered, by its disk or by a pattern, and no
\* pattern lies in the radius a later one was judged with.
DiscoveryCovers ==
  /\ \A i \in DOMAIN found.met :
       found.met[i].extracts /\ found.met[i].suspicious => alreadyCovered(found.met[i], found.out)
  /\ \A i, j \in DOMAIN found.out : i < j => found.out[i].at # found.out[j].at /\ found.out[i].id < found.out[j].id

\* The rank sum is the count of pairs in the right order, ties counting half.
AUCExact ==
  name.of = "ranks" =>
    LET s == name.s pos == Positives(s) neg == DOMAIN s \ pos
    IN name.auc2 = 2 * Cardinality({p \in pos \X neg : s[p[1]][1] > s[p[2]][1]})
                 + Cardinality({p \in pos \X neg : s[p[1]][1] = s[p[2]][1]})

AgentSound == StrongestVerdict /\ PartsRebuild /\ SplitCold /\ QuotasHold /\ DiscoveryCovers /\ AUCExact
===============================================================================
