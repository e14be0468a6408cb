------------------------------- MODULE Cascade ------------------------------
(***************************************************************************)
(* The inference cascade of internal/engine/inference_cascade.go: an event *)
(* is evaluated by L0 (keywords, structural reflexes, ontology), L1a (the  *)
(* conformal probe) and L1b (nearest threat centroid, then the INT8 head)  *)
(* while MountFloppy replaces the knowledge disks; and the forensic proofs *)
(* of forensic_proof.go, signed from a verdict and replayed later.         *)
(*                                                                         *)
(* FloppySlot publishes a disk with one atomic pointer, and a mounted disk *)
(* is never modified, so a disk is a value.  Its family, its radius and    *)
(* its body are kept; a body is what the searches of the disk answer: kws, *)
(* whether it has the keyword the payload may carry; dist, the Hamming     *)
(* distance to its nearest centroid; probe, the verdict of its conformal   *)
(* probe; class and conforms, the result of PredictINT8.  A payload keeps  *)
(* what the tests of the cascade look for in it.                           *)
(***************************************************************************)
EXTENDS Ontology, FiniteSets, Sequences

CONSTANTS
  Disks,          \* the disks that may be mounted
  Events,         \* the events that may be evaluated
  Contexts,       \* the contexts their processes may have
  FallbackProbe,  \* what the fallback probe says of a payload
  MaxMounts,      \* bound: the mounts of one behaviour
  MaxEvals,       \* bound: the evaluations of one behaviour
  MaxProofs       \* bound: the proofs signed in one behaviour

Families == 1 .. 3          \* LOLBAS, DNSC2, AgentMCP
Probes == {"none", "error", "confirm", "ambiguous", "anomaly"}
NotFound == 129             \* a distance beyond every search radius

Disk == [FamilyID : Nat, BlockRadius : Byte, kws : BOOLEAN, dist : 0 .. NotFound,
         probe : Probes, class : -1 .. 2, conforms : BOOLEAN]
NoDisk == [FamilyID |-> 0, BlockRadius |-> 0, kws |-> FALSE, dist |-> NotFound,
           probe |-> "none", class |-> -1, conforms |-> FALSE]

(* size: below 32 bytes, inline, or in the arena (beyond 96); marks: what  *)
(* a search of the payload may find, "prefix" being a keyword in its first *)
(* 80 bytes and "apex" a registrable name.                                 *)
Payload == [size : {"tiny", "inline", "arena"},
            marks : SUBSET {"prefix", "keyword", "encoding", "netcat", "apex"}]
Event == [Subsystem : 1 .. 6, Action : 0 .. 7, payload : Payload]
Context == [Subject : Byte, Context : Byte]

ASSUME CascadeAssumption ==
  /\ Disks \subseteq Disk \ {NoDisk}
  /\ Events \subseteq Event
  /\ Contexts \subseteq Context
  /\ FallbackProbe \in Probes \ {"none"}
  /\ MaxMounts \in Nat /\ MaxEvals \in Nat /\ MaxProofs \in Nat

VARIABLES
  slot,      \* floppies[f].current
  fallback,  \* the classes that have a prototype in the fallback probe
  job,       \* the locals of EvaluateEventCtx, with its program counter;
             \* seen (history): the disks its slot held since it began
  proofs,    \* the signed proofs; clean and radius (history): whether the
             \* slot still held the disk of the evaluation, and the block
             \* radius of the disk sealed
  replays,   \* the proofs that ReplayForensicProof accepted as to parity,
             \* with its answer and the block radius it replayed under
  mounts, evals

vars == <<slot, fallback, job, proofs, replays, mounts, evals>>

Stages == {"L0", "L1a", "L1b"}
Actions == {"pass", "quarantine", "block"}
NoVerdict == [Stage |-> "L0", Action |-> "pass", Flags |-> {}, HammingDist |-> 0,
              ConfidenceQ8 |-> 0]
NoEvent == [Subsystem |-> 1, Action |-> 0, payload |-> [size |-> "tiny", marks |-> {}]]
IdleJob == [pc |-> "idle", ev |-> NoEvent, cctx |-> NoContext, disk |-> NoDisk,
            v |-> NoVerdict, seen |-> {}]

Init ==
  /\ slot = [f \in Families |-> NoDisk]
  /\ fallback = {}
  /\ job = IdleJob
  /\ proofs = {}
  /\ replays = {}
  /\ mounts = 0
  /\ evals = 0

-----------------------------------------------------------------------------
(* diskFor *)
DiskFor(subsystem) ==
  CASE subsystem = 1 -> slot[1] [] subsystem = 3 -> slot[2] [] subsystem = 4 -> slot[3]
    [] OTHER -> NoDisk

(* MountFloppy: the epoch it also counts is read by nobody.                *)
MountFloppy(f, d) ==
  /\ mounts < MaxMounts
  /\ mounts' = mounts + 1
  /\ slot' = [slot EXCEPT ![f] = d]
  /\ job' = IF job.pc # "idle" /\ <<job.ev.Subsystem, f>> \in {<<1, 1>>, <<3, 2>>, <<4, 3>>}
              THEN [job EXCEPT !.seen = @ \cup {d}] ELSE job
  /\ UNCHANGED <<fallback, proofs, replays, evals>>

(* AddPrototype "must precede any concurrent evaluation".                  *)
AddPrototype(class) ==
  /\ evals = 0
  /\ fallback' = fallback \cup {class}
  /\ UNCHANGED <<slot, job, proofs, replays, mounts, evals>>

-----------------------------------------------------------------------------
applyNonSoftening(prior, new) ==
  IF prior = "block" THEN "block"
  ELSE IF prior = "quarantine" /\ new = "pass" THEN "quarantine"
  ELSE new

BlockRadius(d) == IF d.BlockRadius = 0 THEN 12 ELSE d.BlockRadius

(* The verdict of the ontology on the event in its context.                *)
Onto(ev, cctx) == EvaluateOntology(deriveCascadeOntoKey(ev, cctx))

Blocked(v, conf) ==
  [v EXCEPT !.Action = "block", !.Flags = @ \cup {"blocked"}, !.ConfidenceQ8 = conf]

StructuralReflex(ev) ==
  \/ ev.Subsystem = 3 /\ "encoding" \in ev.payload.marks
  \/ ev.Subsystem = 1 /\ "netcat" \in ev.payload.marks

(* One stage returns the verdict and whether the cascade goes on.          *)
Stop(v) == [v |-> v, pc |-> "done"]
GoOn(v, pc) == [v |-> v, pc |-> pc]

(* The long payload could not be read back: the prefix of 80 bytes, which  *)
(* is the event's own, may only aggravate the quarantine.                  *)
ArenaInvalid(ev, d) ==
  LET v == [NoVerdict EXCEPT !.Action = "quarantine", !.Flags = {"anomaly", "arenaInvalid"}] IN
  IF d.kws /\ "prefix" \in ev.payload.marks
    THEN [Blocked(v, 256) EXCEPT !.Flags = @ \cup {"lolbas"}] ELSE v

Keyword(ev, d) == d.kws /\ ev.payload.marks \cap {"prefix", "keyword"} # {}

LayerL0(ev, cctx, d) ==
  IF Keyword(ev, d) THEN Stop([Blocked(NoVerdict, 256) EXCEPT !.Flags = @ \cup {"lolbas"}])
  ELSE IF StructuralReflex(ev) \/ Onto(ev, cctx) = "deny" THEN Stop(Blocked(NoVerdict, 256))
  ELSE IF Onto(ev, cctx) = "allow" /\ ev.payload.size = "tiny" THEN Stop(NoVerdict)
  ELSE GoOn(NoVerdict, "L1a")

(* The probe of the disk, else the fallback one when both of its classes   *)
(* have a prototype.                                                       *)
ProbeVerdict(d, classes) ==
  IF d.probe # "none" THEN d.probe
  ELSE IF classes = {0, 1} THEN FallbackProbe ELSE "none"

(* Mutant of NearThreat: a certified context shrinks the radius to zero.   *)
NearThreatWithin(d, onto) == d.dist <= IF onto = "allow" THEN 0 ELSE BlockRadius(d)

(* nearThreatWithin at the radius L1a asks for.                            *)
NearThreat(d, onto) ==
  d.dist # NotFound
    /\ d.dist <= IF onto = "allow" \/ BlockRadius(d) >= 24 THEN BlockRadius(d) ELSE 24

LayerL1a(ev, cctx, d, classes, v0) ==
  LET v == [v0 EXCEPT !.Stage = "L1a"]  p == ProbeVerdict(d, classes) IN
  IF p = "confirm" /\ ~NearThreat(d, Onto(ev, cctx))
    THEN Stop([v EXCEPT !.Action = applyNonSoftening(v.Action, "pass")])
  ELSE GoOn(IF p = "anomaly" THEN [v EXCEPT !.Flags = @ \cup {"anomaly"}] ELSE v, "centroid")

(* The nearest centroid, searched within 128 bits.                         *)
ApexCertified(ev, d) ==
  /\ d.dist <= BlockRadius(d) \/ d.dist <= 24
  /\ ev.Subsystem = 3 /\ "apex" \in ev.payload.marks
  /\ d.class = 0 /\ d.conforms

LayerCentroid(ev, cctx, d, v0) ==
  LET v == [v0 EXCEPT !.Stage = "L1b"]
      found == d # NoDisk /\ d.dist <= 128
      w == [v EXCEPT !.HammingDist = d.dist]
  IN
  IF ~found THEN GoOn(v, "head")
  ELSE IF d.dist <= BlockRadius(d) /\ ~ApexCertified(ev, d)
    THEN Stop([w EXCEPT !.Action = applyNonSoftening(w.Action, "block"),
                        !.Flags = @ \cup {"blocked"}, !.ConfidenceQ8 = (128 - d.dist) * 2])
  ELSE IF /\ BlockRadius(d) < d.dist /\ d.dist <= 24
          /\ ~ApexCertified(ev, d) /\ Onto(ev, cctx) # "allow"
    THEN GoOn([w EXCEPT !.Action = applyNonSoftening(w.Action, "quarantine"),
                        !.Flags = @ \cup {"anomaly"}, !.ConfidenceQ8 = 160], "head")
  ELSE GoOn(w, "head")

LayerHead(d, v) ==
  CASE d.class = 1 /\ d.conforms ->
         [Blocked(v, 220) EXCEPT !.Action = applyNonSoftening(v.Action, "block")]
    [] d.class = 1 /\ ~d.conforms ->
         [v EXCEPT !.Action = applyNonSoftening(v.Action, "quarantine"),
                   !.Flags = @ \cup {"anomaly"}, !.ConfidenceQ8 = 128]
    [] OTHER -> [v EXCEPT !.Action = applyNonSoftening(v.Action, "pass")]

(* evaluateResolved as a whole, which the replay of a proof calls.         *)
EvaluateResolved(ev, cctx, d, classes) ==
  LET r0 == LayerL0(ev, cctx, d)
      r1 == LayerL1a(ev, cctx, d, classes, r0.v)
      r2 == LayerCentroid(ev, cctx, d, r1.v)
  IN  IF r0.pc = "done" THEN r0.v
      ELSE IF r1.pc = "done" THEN r1.v
      ELSE IF r2.pc = "done" THEN r2.v
      ELSE LayerHead(d, r2.v)

-----------------------------------------------------------------------------
(* EvaluateEventCtx *)

(* The disk is read once, before anything else.                            *)
EvaluateEventCtx(ev, cctx) ==
  /\ job.pc = "idle" /\ evals < MaxEvals
  /\ evals' = evals + 1
  /\ job' = [IdleJob EXCEPT !.pc = "resolve", !.ev = ev, !.cctx = cctx,
                            !.disk = DiskFor(ev.Subsystem), !.seen = {DiskFor(ev.Subsystem)}]
  /\ UNCHANGED <<slot, fallback, proofs, replays, mounts>>

(* ResolvePayload gives back exactly the payload of the event or an error  *)
(* (theorem ResolveExact of ArenaPoolProofs).                              *)
Resolve ==
  /\ job.pc = "resolve"
  /\ job' = [job EXCEPT !.pc = "L0"]
  /\ UNCHANGED <<slot, fallback, proofs, replays, mounts, evals>>

ResolveFails ==
  /\ job.pc = "resolve" /\ job.ev.payload.size = "arena"
  /\ job' = [job EXCEPT !.pc = "done", !.v = ArenaInvalid(job.ev, job.disk)]
  /\ UNCHANGED <<slot, fallback, proofs, replays, mounts, evals>>

(* The stage r of the evaluation.                                          *)
Take(r) ==
  /\ job' = [job EXCEPT !.pc = r.pc, !.v = r.v]
  /\ UNCHANGED <<slot, fallback, proofs, replays, mounts, evals>>

EvalL0 == job.pc = "L0" /\ Take(LayerL0(job.ev, job.cctx, job.disk))

EvalL1a == job.pc = "L1a" /\ Take(LayerL1a(job.ev, job.cctx, job.disk, fallback, job.v))

EvalCentroid == job.pc = "centroid" /\ Take(LayerCentroid(job.ev, job.cctx, job.disk, job.v))

EvalHead == job.pc = "head" /\ Take(Stop(LayerHead(job.disk, job.v)))

Return ==
  /\ job.pc = "done"
  /\ job' = IdleJob
  /\ UNCHANGED <<slot, fallback, proofs, replays, mounts, evals>>

-----------------------------------------------------------------------------
(* Forensic proofs *)

(* Header.CRC32C: the checksum of the body of the disk, taken to identify  *)
(* it; the header, with the family and the radius, is not part of it.      *)
CRC32C(d) == [kws |-> d.kws, dist |-> d.dist, probe |-> d.probe, class |-> d.class,
              conforms |-> d.conforms]

(* SignForensicProof, called once the verdict is there.  The verdict does  *)
(* not name the disk it was given under: the caller asks GetFloppy for the *)
(* family and the checksum to seal.  A verdict given without the payload   *)
(* is refused.                                                             *)
SignForensicProof ==
  LET d == DiskFor(job.ev.Subsystem) IN
  /\ job.pc = "done" /\ Cardinality(proofs) < MaxProofs
  /\ "arenaInvalid" \notin job.v.Flags
  /\ proofs' = proofs \cup
       { [ev |-> job.ev, cctx |-> job.cctx, v |-> job.v, FloppyFamily |-> d.FamilyID,
          FloppyCRC32 |-> CRC32C(d), clean |-> d = job.disk, radius |-> BlockRadius(d)] }
  /\ UNCHANGED <<slot, fallback, job, replays, mounts, evals>>

Parity(p, d) ==
  IF d = NoDisk THEN p.FloppyFamily = 0
  ELSE d.FamilyID = p.FloppyFamily /\ CRC32C(d) = p.FloppyCRC32

(* Mutant of Sealed: the context of the evaluation is not sealed.          *)
SealedBare(p) == NoContext

(* The context a replay evaluates under.                                   *)
Sealed(p) == p.cctx

(* ReplayForensicProof of a genuine proof: refused when the disk mounted   *)
(* is not of the same parity, else the sealed payload is evaluated again   *)
(* under the sealed context and the four fields of the verdict compared.   *)
ReplayForensicProof(p) ==
  LET d == DiskFor(p.ev.Subsystem)
      v == EvaluateResolved(p.ev, Sealed(p), d, fallback)
  IN
  /\ Parity(p, d)
  /\ replays' = replays \cup
       { [proof |-> p, radius |-> BlockRadius(d),
          reproduced |-> /\ v.Action = p.v.Action /\ v.Stage = p.v.Stage
                         /\ v.HammingDist = p.v.HammingDist
                         /\ v.ConfidenceQ8 = p.v.ConfidenceQ8] }
  /\ UNCHANGED <<slot, fallback, job, proofs, mounts, evals>>

-----------------------------------------------------------------------------
Work ==
  \/ \E class \in {0, 1} : AddPrototype(class)
  \/ \E ev \in Events, cctx \in Contexts : EvaluateEventCtx(ev, cctx)
  \/ Resolve \/ ResolveFails \/ EvalL0 \/ EvalL1a \/ EvalCentroid \/ EvalHead
  \/ Return \/ SignForensicProof
  \/ \E p \in proofs : ReplayForensicProof(p)

Next == Work \/ \E f \in Families, d \in Disks : MountFloppy(f, d)

Spec == Init /\ [][Next]_vars

-----------------------------------------------------------------------------
Uint16 == {n \in Nat : n < 65536}
Flags == {"anomaly", "blocked", "lolbas", "arenaInvalid"}
Verdict == [Stage : Stages, Action : Actions, Flags : SUBSET Flags,
            HammingDist : 0 .. NotFound, ConfidenceQ8 : Uint16]

(* Every verdict fits the fields of CascadeVerdict: ConfidenceQ8 is        *)
(* computed as uint16((128-dist)*2), which no distance makes negative.     *)
TypeOK ==
  /\ slot \in [Families -> Disks \cup {NoDisk}]
  /\ fallback \subseteq {0, 1}
  /\ job.pc \in {"idle", "resolve", "L0", "L1a", "centroid", "head", "done"}
  /\ job.ev \in Events \cup {NoEvent} /\ job.cctx \in Contexts \cup {NoContext}
  /\ job.disk \in Disks \cup {NoDisk} /\ job.v \in Verdict
  /\ job.seen \subseteq Disks \cup {NoDisk}
  /\ mounts \in 0 .. MaxMounts /\ evals \in 0 .. MaxEvals

Done == job.pc = "done"

(* MountFloppy: the probe "commutes with the disk, atomically".  A verdict *)
(* is the one some single disk gives, and that disk was mounted at some    *)
(* moment of the evaluation, whatever was mounted meanwhile.               *)
OneDisk ==
  Done => \E d \in job.seen :
            \/ job.v = EvaluateResolved(job.ev, job.cctx, d, fallback)
            \/ job.ev.payload.size = "arena" /\ job.v = ArenaInvalid(job.ev, d)

(* What L0 finds is not outweighed by any certification: a keyword of the  *)
(* disk, a structural reflex or a context the ontology refuses blocks the  *)
(* event, or holds it in quarantine when its payload could not be read.    *)
ReflexesPrevail ==
  Done /\ (Keyword(job.ev, job.disk) \/ StructuralReflex(job.ev) \/ Onto(job.ev, job.cctx) = "deny")
    => job.v.Action = "block" \/ ("arenaInvalid" \in job.v.Flags /\ job.v.Action = "quarantine")

(* L1a "outside the neighbourhood of every real attack of the disk": no    *)
(* confirmation of the probe lets an event pass that lies within the veto  *)
(* radius of a threat centroid.  Only a certified tiny payload and a       *)
(* registrable name the head certifies may.                                *)
ThreatNeverPasses ==
  Done /\ job.disk.dist <= BlockRadius(job.disk) /\ job.disk.dist <= 128 /\ job.v.Action = "pass"
    => \/ Onto(job.ev, job.cctx) = "allow" /\ job.ev.payload.size = "tiny"
       \/ job.ev.Subsystem = 3 /\ "apex" \in job.ev.payload.marks
            /\ job.disk.class = 0 /\ job.disk.conforms

(* ReplayForensicProof "proves the bit-for-bit reproducibility": a replay  *)
(* that finds the disk sealed in the proof gives the sealed verdict again, *)
(* whatever was mounted between the two.  The proof is one whose signer    *)
(* read from the slot the disk the event was evaluated under; and since    *)
(* the checksum leaves out the header, the block radius must be the same.  *)
Reproduced ==
  \A r \in replays : r.proof.clean /\ r.radius = r.proof.radius => r.reproduced

(* An evaluation is that of one disk, whatever is mounted meanwhile, and a *)
(* proof whose disk is mounted again replays to its verdict.               *)
ReplayReproduces == OneDisk /\ Reproduced

(* No certification, confirmation or allowance outweighs what was found    *)
(* against an event, in any context and under any disk.                    *)
Unsoftened == TypeOK /\ ReflexesPrevail /\ ThreatNeverPasses
=============================================================================
