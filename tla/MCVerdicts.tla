------------------------------ MODULE MCVerdicts ------------------------------
(* The verdicts: of the ontology on the provenance of a process (Provenance), *)
(* of the inference cascade while disks are mounted, with its proofs and      *)
(* their replay (Cascade), and of the DNS agent with the disks it builds and  *)
(* scores (DnsAgent).  A behaviour is one of one of them, which "part" names. *)
EXTENDS Provenance, Cascade

VARIABLES part,
  view, name, cold, found   \* DnsAgent

agent == <<view, name, cold, found>>
allVars == <<part, provenanceVars, vars, agent>>

-------------------------------------------------------------------------------
(* Every provenance over a kernel pid, an ordinary one, root and one user.    *)
MCObserved ==
  [PID : {2, 3}, UID : {0, 1}, EUID : {0, 1}, LoginSession : BOOLEAN, HasTTY : BOOLEAN,
   SystemdUnit : BOOLEAN, exe : {{}, {"path"}, {"memfd"}, {"deleted"}, {"tmp"}, {"tmp", "deleted"}},
   IsMemfd : BOOLEAN, IsDeleted : BOOLEAN, HasWXAnon : BOOLEAN, kworker : BOOLEAN]

-------------------------------------------------------------------------------
(* Cascade.                                                                   *)
P(size, marks) == [size |-> size, marks |-> marks]
Ev(sub, act, p) == [Subsystem |-> sub, Action |-> act, payload |-> p]
D(fam, radius, kws, dist, probe, class, conforms) ==
  [FamilyID |-> fam, BlockRadius |-> radius, kws |-> kws, dist |-> dist, probe |-> probe,
   class |-> class, conforms |-> conforms]

Pv(pid, uid, euid, login, tty, unit, exe, memfd) ==
  [PID |-> pid, UID |-> uid, EUID |-> euid, LoginSession |-> login, HasTTY |-> tty,
   SystemdUnit |-> unit, exe |-> exe, IsMemfd |-> memfd, IsDeleted |-> FALSE,
   HasWXAnon |-> FALSE, kworker |-> FALSE]

User == DeriveCascadeContext(Pv(9, 1, 1, TRUE, TRUE, FALSE, {"path"}, FALSE))
Unit == DeriveCascadeContext(Pv(9, 0, 0, FALSE, FALSE, TRUE, {"path"}, FALSE))
Memfd == DeriveCascadeContext(Pv(9, 1, 1, TRUE, TRUE, FALSE, {"path"}, TRUE))

Sizes == {"tiny", "inline", "arena"}
SweepEvents ==
  { Ev(1, 1, P(z, m)) : z \in Sizes, m \in {{}, {"prefix"}, {"keyword"}, {"netcat"}} }
  \cup { Ev(3, 3, P(z, m)) : z \in Sizes, m \in {{}, {"keyword"}, {"encoding"}, {"apex"}} }
  \cup { Ev(1, 7, P("inline", {})), Ev(4, 1, P("tiny", {})), Ev(2, 2, P("inline", {"keyword"})) }
SweepContexts == {NoContext, User, Unit, Memfd}

\* The distances on both sides of every radius.
SweepDists == {0, 12, 13, 24, 25, 129}
SweepHeads == {<<0, TRUE>>, <<1, TRUE>>, <<1, FALSE>>}
SweepDisks ==
  { D(1, r, FALSE, dist, "confirm", h[1], h[2]) : r \in {1, 30}, dist \in SweepDists, h \in SweepHeads }
  \cup { D(1, 0, FALSE, dist, "none", h[1], h[2]) : dist \in SweepDists, h \in SweepHeads }
  \cup { D(1, 200, TRUE, 128, "anomaly", 0, FALSE), D(1, 200, TRUE, 129, "error", -1, FALSE) }

\* Disks of one family that disagree on every stage.
SwapDisks == { D(2, 12, TRUE, 129, "confirm", 0, TRUE),  D(2, 12, FALSE, 20, "none", 0, FALSE),
               D(2, 12, FALSE, 5, "ambiguous", 0, TRUE), D(2, 12, FALSE, 129, "anomaly", 1, FALSE) }
SwapEvents == { Ev(3, 3, P("arena", {"prefix"})), Ev(3, 3, P("inline", {"apex"})),
                Ev(1, 1, P("inline", {})) }
SwapContexts == {NoContext, User}

MCDisks == SweepDisks \cup SwapDisks
MCEvents == SweepEvents \cup SwapEvents

\* Either one disk of any kind and one evaluation, or the disks that disagree
\* mounted up to three times around an evaluation, its proof and its replay.
Envelope ==
  \/ mounts <= 1 /\ proofs = {}
  \/ /\ \A f \in Families : slot[f] \in SwapDisks \cup {NoDisk}
     /\ job.ev \in SwapEvents \cup {NoEvent} /\ job.cctx \in SwapContexts
     /\ job.seen \subseteq SwapDisks \cup {NoDisk}
Mountable == IF mounts = 0 THEN MCDisks ELSE SwapDisks
Cascades == Work \/ \E f \in Families, d \in Mountable : MountFloppy(f, d)

-------------------------------------------------------------------------------
(* DnsAgent: what a disk answers, names of up to four labels, a DGA file of   *)
(* up to four lines, tunnel files with and without the parent held out.       *)
Answer(loaded, extracts, event, probe, near, centroid, pred, conforms, load) ==
  [loaded |-> loaded, extracts |-> extracts, event |-> event, probe |-> probe, near |-> near,
   centroid |-> centroid, pred |-> pred, conforms |-> conforms, long |-> load, short |-> FALSE]
Answers ==
  {Answer(TRUE, TRUE, e, p, n, c, h[1], h[2], l) :
     e \in BOOLEAN, p \in {"confirm", "anomaly"}, n \in BOOLEAN, c \in {"inside", "outside"},
     h \in {<<0, TRUE>>, <<1, TRUE>>, <<1, FALSE>>}, l \in BOOLEAN}
  \cup {Answer(FALSE, FALSE, FALSE, "none", FALSE, "outside", 0, FALSE, FALSE),
        Answer(TRUE, FALSE, FALSE, "confirm", FALSE, "inside", 0, FALSE, FALSE)}
DgaAnswers == {a \in Answers : ~a.event /\ ~a.long /\ (a.near => a.probe = "confirm")}
MCViews ==
  {[encoded |-> FALSE, keyword |-> FALSE, sub |-> s, sld |-> d, tunnel |-> t, dga |-> g] :
     s \in {<<>>, <<"x">>, <<"rfc", "x">>, <<"rfc", "rfc">>}, d \in BOOLEAN, t \in Answers, g \in DgaAnswers}
  \cup {[encoded |-> e, keyword |-> ~e, sub |-> <<"x">>, sld |-> TRUE, tunnel |-> t, dga |-> t] :
           e \in BOOLEAN, t \in {Answer(FALSE, FALSE, FALSE, "none", FALSE, "outside", 0, FALSE, FALSE)}}
MCNames == UNION {[1 .. k -> 0 .. 3] : k \in 0 .. 4}

Line(named, kind, parent, fam, ok, action) ==
  [named |-> named, kind |-> kind, parent |-> parent, sub |-> TRUE, fam |-> fam, ok |-> ok, action |-> action]
MCRows == {Line(TRUE, "normal", 3, 0, TRUE, 0), Line(TRUE, "normal", 3, 0, FALSE, 1),
           Line(TRUE, "hostile", 3, 1, TRUE, 2), Line(TRUE, "hostile", 3, 2, TRUE, 1),
           Line(FALSE, "normal", 3, 0, TRUE, 0)}
TunnelLine(kind, parent) == Line(TRUE, kind, parent, 0, TRUE, IF kind = "hostile" THEN 2 ELSE 0)
MCTunnelFiles ==
  {<<TunnelLine("hostile", 9), TunnelLine("hostile", 1), TunnelLine("hostile", 1), TunnelLine("normal", 1)>>,
   <<TunnelLine("hostile", 1), TunnelLine("normal", 1)>>, <<TunnelLine("hostile", 9)>>}
MCCodes ==
  {[at |-> x, extracts |-> e, suspicious |-> s, disk |-> d] :
     x \in 1 .. 7, e \in BOOLEAN, s \in BOOLEAN,
     d \in {[loaded |-> TRUE, threats |-> {4}, radius |-> 1], [loaded |-> FALSE, threats |-> {}, radius |-> 2]}}
MCSamples == UNION {[1 .. k -> (1 .. 2) \X BOOLEAN] : k \in 0 .. 3}

Agent == INSTANCE DnsAgent WITH
  Views <- MCViews, Names <- MCNames, MaxLabel <- 2, MaxName <- 7, TwoLevel <- {<<1, 2>>},
  Rows <- MCRows, TunnelFiles <- MCTunnelFiles, TrainFams <- {1}, HeldParent <- 9,
  PerParent <- 1, PerFamily <- 1, PerHeldOut <- 1, TunnelBenign <- 1, TunnelShared <- 2,
  DgaBenign <- 1, DgaHostile <- 1, DgaTest <- 1, MaxRows <- 4, Codes <- MCCodes, MaxCodes <- 3,
  Samples <- MCSamples

ASSUME Agent!AgentAssumption

-------------------------------------------------------------------------------
MCInit ==
  /\ part \in {"provenance", "cascade", "verdict", "name", "ranks", "cold", "discovery"}
  /\ IF part = "provenance" THEN ProvenanceInit
     ELSE pv = (CHOOSE p \in MCObserved : TRUE) /\ ev = NoRequest /\ key = 0 /\ verdict = "none"
  /\ Init
  /\ IF part = "cold" THEN Agent!Init
     ELSE view = Agent!NoView /\ name = Agent!NoName /\ found = Agent!NoFound /\ cold = Agent!NoCold
MCNext ==
  /\ UNCHANGED part
  /\ \/ part = "provenance" /\ ProvenanceNext /\ UNCHANGED <<vars, agent>>
     \/ part = "cascade" /\ Cascades /\ Envelope' /\ UNCHANGED <<provenanceVars, agent>>
     \/ /\ \/ part = "verdict" /\ Agent!Verdicts
           \/ part = "name" /\ Agent!Cuts
           \/ part = "ranks" /\ Agent!Ranks
           \/ part = "cold" /\ Agent!ColdSplit
           \/ part = "discovery" /\ Agent!Discovery
        /\ UNCHANGED <<provenanceVars, vars>>
MCSpec == MCInit /\ [][MCNext]_allVars

-------------------------------------------------------------------------------
(* DnsAgent: neither disk hides what the other one stopped; the parts of a    *)
(* name make up the name; no line, family or parent that is scored was        *)
(* learned; quotas and counts hold; every suspicious code met is covered; the *)
(* rank sum is the count of ordered pairs.                                    *)
AgentSound == Agent!AgentSound
===============================================================================
