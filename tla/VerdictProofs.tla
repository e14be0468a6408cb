--------------------------- MODULE VerdictProofs ----------------------------
(***************************************************************************)
(* For every provenance a probe can establish, not only the ones TLC       *)
(* enumerates: what the ontology certifies was earned, a hostile process   *)
(* is refused, and the packed key loses nothing.  For every set of disks,  *)
(* events and contexts: what the cascade finds against an event is never   *)
(* softened, a verdict is that of one disk, and a proof replays to it.     *)
(* For any number of goroutines and sources: the token buckets of the gray *)
(* zone keep to their rate, and an active source keeps its slot.  For any  *)
(* number of forgers, differential runs and readers: the disks that the    *)
(* cascade mounts are whole and genuine, whatever fails.                   *)
(***************************************************************************)
EXTENDS Provenance, Cascade, GrayZone, FloppyStore, FiniteSetTheorems, SequenceTheorems, TLAPS

Axes == 0 .. 15

(* The four axes read back from a packed key: the numbers in use fit their *)
(* fields.                                                                 *)
LEMMA PackUnpack ==
  ASSUME NEW s \in Axes, NEW a \in Axes, NEW t \in Axes, NEW c \in Axes
  PROVE  /\ SubjectOf(PackOntoKey(s, a, t, c)) = s
         /\ ActionOf(PackOntoKey(s, a, t, c)) = a
         /\ TargetOf(PackOntoKey(s, a, t, c)) = t
         /\ ContextOf(PackOntoKey(s, a, t, c)) = c
         /\ PackOntoKey(s, a, t, c) < 1048576
<1>1. PICK k \in Nat : k = s + 64 * a + 2048 * t + 65536 * c
  BY DEF Axes
<1>2. s % 64 = s /\ a % 32 = a /\ t % 32 = t /\ c % 16 = c
  BY DEF Axes
<1>3. PackOntoKey(s, a, t, c) = k
  BY <1>1, <1>2 DEF PackOntoKey
<1>4. k < 1048576
  BY <1>1 DEF Axes
<1>5. k % 64 = s
  BY <1>1 DEF Axes
<1>6. (k \div 64) % 32 = a
  <2>1. k \div 64 = a + 32 * t + 1024 * c
    BY <1>1 DEF Axes
  <2>2. (a + 32 * t + 1024 * c) % 32 = a
    BY DEF Axes
  <2> QED BY <2>1, <2>2
<1>7. (k \div 2048) % 32 = t
  <2>1. k \div 2048 = t + 32 * c
    BY <1>1 DEF Axes
  <2>2. (t + 32 * c) % 32 = t
    BY DEF Axes
  <2> QED BY <2>1, <2>2
<1>8. (k \div 65536) % 16 = c
  <2>1. k \div 65536 = c
    BY <1>1 DEF Axes
  <2> QED BY <2>1, <1>2
<1> QED
  BY <1>3, <1>4, <1>5, <1>6, <1>7, <1>8 DEF SubjectOf, ActionOf, TargetOf, ContextOf

(* The axes a provenance and an event give are numbers of their fields.    *)
LEMMA AxesInRange ==
  ASSUME NEW p \in Provenance, NEW e \in Request
  PROVE  /\ DeriveCascadeContext(p).Subject \in Axes
         /\ DeriveCascadeContext(p).Context \in Axes
         /\ OntoAction(e.Action) \in Axes
         /\ OntoTarget(e.Subsystem) \in Axes
<1>1. DeriveOntoContext(p) \in Axes
  BY DEF DeriveOntoContext, Axes, CtxKworkerSpoof, CtxMemfdSpoof, CtxDeletedExe, CtxAnonWX,
         CtxTmpResidence, CtxDefault
<1>2. SubjectOfProvenance(p) \in Axes
  BY DEF SubjectOfProvenance, Axes, SubjMemfdAnon, SubjDeletedBinary, SubjRootSystemd,
         SubjServiceUnpriv, SubjRootInteractive, SubjUserInteractive, SubjUnknown
<1>3. BenignContext(p) \in Axes
  BY DEF BenignContext, Axes, CtxDefault, CtxSystemdUnit, CtxInteractiveTTY
<1>4. OntoAction(e.Action) \in Axes
  BY DEF OntoAction, Axes, ActExecve, ActWriteFile, ActConnectNet, ActMprotectWX, ActUnknown
<1>5. OntoTarget(e.Subsystem) \in Axes
  BY DEF OntoTarget, Axes, TgtBinSystem, TgtTmpExec, TgtNetExternal, TgtPipeInterpreter, TgtUnknown
<1> QED
  BY <1>1, <1>2, <1>3, <1>4, <1>5 DEF DeriveCascadeContext

(* The verdict of the ontology in terms of the axes themselves; the sealed *)
(* files of axiom A1 are the target of no cascade event.                   *)
LEMMA VerdictOfAxes ==
  ASSUME NEW p \in Provenance, NEW e \in Request
  PROVE  LET c == DeriveCascadeContext(p)
             k == deriveCascadeOntoKey(e, c)
             act == OntoAction(e.Action)
             tgt == OntoTarget(e.Subsystem)
         IN  /\ k < 1048576 /\ SubjectOf(k) = c.Subject /\ ContextOf(k) = c.Context
             /\ ActionOf(k) = act /\ TargetOf(k) = tgt
             /\ EvaluateOntology(k) =
                  IF Refused(c.Subject, act, tgt, c.Context) THEN "deny"
                  ELSE IF Certified(c.Subject, act, tgt, c.Context) THEN "allow" ELSE "ambiguous"
<1> DEFINE c == DeriveCascadeContext(p)
           act == OntoAction(e.Action)
           tgt == OntoTarget(e.Subsystem)
<1>1. c.Subject \in Axes /\ c.Context \in Axes /\ act \in Axes /\ tgt \in Axes
  BY AxesInRange
<1>2. ~SealedFile(act, tgt)
  BY DEF SealedFile, OntoTarget, TgtFIMEtc, TgtFIMSsh, TgtBinSystem, TgtTmpExec, TgtNetExternal,
         TgtPipeInterpreter, TgtUnknown
<1> HIDE DEF c, act, tgt
<1>3. /\ SubjectOf(PackOntoKey(c.Subject, act, tgt, c.Context)) = c.Subject
      /\ ActionOf(PackOntoKey(c.Subject, act, tgt, c.Context)) = act
      /\ TargetOf(PackOntoKey(c.Subject, act, tgt, c.Context)) = tgt
      /\ ContextOf(PackOntoKey(c.Subject, act, tgt, c.Context)) = c.Context
      /\ PackOntoKey(c.Subject, act, tgt, c.Context) < 1048576
  BY <1>1, PackUnpack
<1>4. deriveCascadeOntoKey(e, c) = PackOntoKey(c.Subject, act, tgt, c.Context)
  BY DEF deriveCascadeOntoKey, act, tgt
<1>5. EvaluateOntology(deriveCascadeOntoKey(e, c)) =
        IF Refused(c.Subject, act, tgt, c.Context) THEN "deny"
        ELSE IF Certified(c.Subject, act, tgt, c.Context) THEN "allow" ELSE "ambiguous"
  BY <1>2, <1>3, <1>4 DEF EvaluateOntology
<1> QED
  BY <1>3, <1>4, <1>5 DEF c, act, tgt

-----------------------------------------------------------------------------
(* The inductive invariant: a verdict is the one of the process and event. *)
DecisionInv ==
  /\ pv \in Provenance
  /\ verdict # "none" =>
       /\ ev \in Request
       /\ key = deriveCascadeOntoKey(ev, DeriveCascadeContext(pv))
       /\ verdict = EvaluateOntology(key)

LEMMA DecisionInvariance == ProvenanceSpec => []DecisionInv
<1>1. ProvenanceInit => DecisionInv
  BY ObservedAssumption DEF ProvenanceInit, DecisionInv
<1>2. DecisionInv /\ [ProvenanceNext]_provenanceVars => DecisionInv'
  BY DEF DecisionInv, ProvenanceNext, Decide, Await, provenanceVars
<1> QED
  BY <1>1, <1>2, PTL DEF ProvenanceSpec

LEMMA HostileContext ==
  ASSUME NEW p \in Provenance, Hostile(p)
  PROVE  DeriveCascadeContext(p).Context
           \in {CtxKworkerSpoof, CtxMemfdSpoof, CtxDeletedExe, CtxAnonWX}
BY DEF Hostile, DeriveCascadeContext, DeriveOntoContext, CtxKworkerSpoof, CtxMemfdSpoof,
       CtxDeletedExe, CtxAnonWX, CtxDefault, CtxTmpResidence, Provenance

LEMMA TmpContext ==
  ASSUME NEW p \in Provenance, "tmp" \in p.exe
  PROVE  DeriveCascadeContext(p).Context
           \in {CtxKworkerSpoof, CtxMemfdSpoof, CtxDeletedExe, CtxAnonWX, CtxTmpResidence}
BY DEF DeriveCascadeContext, DeriveOntoContext, CtxKworkerSpoof, CtxMemfdSpoof,
       CtxDeletedExe, CtxAnonWX, CtxDefault, CtxTmpResidence, Provenance

(* PackOntoKey (ontology_table.go) is injective on what the cascade packs. *)
THEOREM KeyIsFaithful == ProvenanceSpec => []KeyFaithful
<1>1. DecisionInv => KeyFaithful
  BY VerdictOfAxes DEF DecisionInv, KeyFaithful
<1> QED
  BY <1>1, DecisionInvariance, PTL

(* Whatever a hostile process claims to be, EvaluateOntology refuses it.   *)
THEOREM HostileIsRefused == ProvenanceSpec => []HostileRefused
<1>1. DecisionInv => HostileRefused
  <2> SUFFICES ASSUME DecisionInv, verdict # "none"
               PROVE  /\ Hostile(pv) => verdict = "deny"
                      /\ "tmp" \in pv.exe /\ ev.Action \in {1, 3} => verdict = "deny"
    BY DEF HostileRefused
  <2> DEFINE c == DeriveCascadeContext(pv)
  <2>1. Refused(c.Subject, OntoAction(ev.Action), OntoTarget(ev.Subsystem), c.Context)
          => verdict = "deny"
    BY VerdictOfAxes DEF DecisionInv
  <2>2. Hostile(pv) => verdict = "deny"
    BY <2>1, HostileContext DEF Refused, DecisionInv
  <2>3. ASSUME "tmp" \in pv.exe, ev.Action \in {1, 3} PROVE verdict = "deny"
    <3>1. OntoAction(ev.Action) \in {ActExecve, ActConnectNet}
      BY <2>3 DEF OntoAction
    <3> QED
      BY <3>1, <2>1, <2>3, TmpContext DEF Refused, DecisionInv
  <2> QED
    BY <2>2, <2>3
<1> QED
  BY <1>1, DecisionInvariance, PTL

(* EvaluateOntology certifies only what DeriveCascadeContext established   *)
(* without ambiguity and without elevation.                                *)
THEOREM CertificationIsEarned == ProvenanceSpec => []CertificationEarned
<1>1. DecisionInv => CertificationEarned
  <2> SUFFICES ASSUME DecisionInv, verdict = "allow"
               PROVE  /\ ev.Subsystem = 1 /\ ev.Action = 1
                      /\ pv.EUID = pv.UID /\ ~Hostile(pv) /\ "tmp" \notin pv.exe
                      /\ \/ pv.SystemdUnit /\ ~pv.LoginSession /\ pv.UID = 0
                         \/ pv.LoginSession /\ pv.HasTTY
    BY DEF CertificationEarned
  <2> DEFINE c == DeriveCascadeContext(pv)
  <2>1. Certified(c.Subject, OntoAction(ev.Action), OntoTarget(ev.Subsystem), c.Context)
    BY VerdictOfAxes DEF DecisionInv
  <2>2. ev.Subsystem = 1 /\ ev.Action = 1
    BY <2>1 DEF Certified, OntoAction, OntoTarget, ActExecve, ActWriteFile, ActConnectNet,
                ActMprotectWX, ActUnknown, TgtBinSystem, TgtTmpExec, TgtNetExternal,
                TgtPipeInterpreter, TgtUnknown
  <2>3. c.Context \in {CtxSystemdUnit, CtxInteractiveTTY}
    BY <2>1 DEF Certified
  <2>4. ~Hostile(pv) /\ "tmp" \notin pv.exe
    BY <2>3, HostileContext, TmpContext
       DEF DecisionInv, CtxSystemdUnit, CtxInteractiveTTY, CtxKworkerSpoof, CtxMemfdSpoof,
           CtxDeletedExe, CtxAnonWX, CtxTmpResidence
  <2>5. c.Context = BenignContext(pv) /\ pv.EUID = pv.UID
    BY <2>3 DEF DeriveCascadeContext, DeriveOntoContext, BenignContext, CtxSystemdUnit,
                CtxInteractiveTTY, CtxKworkerSpoof, CtxMemfdSpoof, CtxDeletedExe, CtxAnonWX,
                CtxTmpResidence, CtxDefault
  <2>6. \/ pv.SystemdUnit /\ ~pv.LoginSession /\ pv.UID = 0
        \/ pv.LoginSession /\ pv.HasTTY
    <3>1. c.Subject = SubjectOfProvenance(pv)
      BY DEF DeriveCascadeContext
    <3> QED
      BY <2>1, <3>1 DEF Certified, SubjectOfProvenance, SubjMemfdAnon, SubjDeletedBinary,
         SubjRootSystemd, SubjServiceUnpriv, SubjRootInteractive, SubjUserInteractive, SubjUnknown
  <2> QED
    BY <2>2, <2>4, <2>5, <2>6
<1> QED
  BY <1>1, DecisionInvariance, PTL

-----------------------------------------------------------------------------
(* The cascade.  DiskSlots is what a slot may hold.                        *)
DiskSlots == Disks \cup {NoDisk}
Pcs == {"idle", "resolve", "L0", "L1a", "centroid", "head", "done"}
Job == [pc : Pcs, ev : Events \cup {NoEvent}, cctx : Contexts \cup {NoContext},
        disk : DiskSlots, v : Verdict, seen : SUBSET DiskSlots]

LEMMA SlotsAreDisks == DiskSlots \subseteq Disk
<1>1. NoDisk \in Disk
  <2>1. 0 \in Byte /\ NotFound \in 0 .. NotFound
    BY DEF Byte, NotFound
  <2> QED BY <2>1 DEF Disk, NoDisk, Probes
<1> QED BY <1>1, CascadeAssumption DEF DiskSlots

LEMMA EventsAreEvents == Events \cup {NoEvent} \subseteq Event
BY CascadeAssumption DEF Event, NoEvent, Payload

LEMMA RadiusIsANumber == \A d \in Disk : BlockRadius(d) \in 0 .. 255
BY DEF BlockRadius, Disk, Byte

(* Each layer keeps the fields of a verdict in their ranges.               *)
LEMMA NoVerdictType == NoVerdict \in Verdict
BY DEF NoVerdict, Verdict, Stages, Actions, Flags, NotFound, Uint16

LEMMA BlockedType ==
  ASSUME NEW v \in Verdict, NEW conf \in Uint16
  PROVE  Blocked(v, conf) \in Verdict
BY DEF Blocked, Verdict, Actions, Flags

LEMMA NonSofteningType ==
  ASSUME NEW a \in Actions, NEW b \in Actions
  PROVE  applyNonSoftening(a, b) \in Actions
BY DEF applyNonSoftening, Actions

LEMMA ArenaType ==
  ASSUME NEW e \in Event, NEW d \in Disk
  PROVE  ArenaInvalid(e, d) \in Verdict
<1> DEFINE v == [NoVerdict EXCEPT !.Action = "quarantine", !.Flags = {"anomaly", "arenaInvalid"}]
<1>1. v \in Verdict
  <2>1. {"anomaly", "arenaInvalid"} \subseteq Flags /\ "quarantine" \in Actions
    BY DEF Flags, Actions
  <2> QED BY <2>1, NoVerdictType DEF Verdict
<1> HIDE DEF v
<1>2. Blocked(v, 256) \in Verdict
  BY <1>1, BlockedType DEF Uint16
<1>3. [Blocked(v, 256) EXCEPT !.Flags = @ \cup {"lolbas"}] \in Verdict
  BY <1>2 DEF Verdict, Flags
<1> QED
  BY <1>1, <1>3 DEF ArenaInvalid, v

LEMMA L0Type ==
  ASSUME NEW e \in Event, NEW c, NEW d \in Disk
  PROVE  LayerL0(e, c, d).v \in Verdict /\ LayerL0(e, c, d).pc \in {"done", "L1a"}
<1>1. Blocked(NoVerdict, 256) \in Verdict
  BY NoVerdictType, BlockedType DEF Uint16
<1>2. [Blocked(NoVerdict, 256) EXCEPT !.Flags = @ \cup {"lolbas"}] \in Verdict
  BY <1>1 DEF Verdict, Flags
<1> QED
  BY <1>1, <1>2, NoVerdictType DEF LayerL0, Stop, GoOn

LEMMA L1aType ==
  ASSUME NEW e \in Event, NEW c, NEW d \in Disk, NEW fb, NEW v0 \in Verdict
  PROVE  /\ LayerL1a(e, c, d, fb, v0).v \in Verdict
         /\ LayerL1a(e, c, d, fb, v0).pc \in {"done", "centroid"}
<1> DEFINE v == [v0 EXCEPT !.Stage = "L1a"]
<1>1. v \in Verdict
  BY DEF Verdict, Stages
<1> HIDE DEF v
<1>2. [v EXCEPT !.Action = applyNonSoftening(v.Action, "pass")] \in Verdict
  <2>1. applyNonSoftening(v.Action, "pass") \in Actions
    BY <1>1, NonSofteningType DEF Verdict, Actions
  <2> QED BY <1>1, <2>1 DEF Verdict
<1>3. [v EXCEPT !.Flags = @ \cup {"anomaly"}] \in Verdict
  BY <1>1 DEF Verdict, Flags
<1> QED
  BY <1>1, <1>2, <1>3 DEF LayerL1a, Stop, GoOn, v

LEMMA CentroidType ==
  ASSUME NEW e \in Event, NEW c, NEW d \in Disk, NEW v0 \in Verdict
  PROVE  /\ LayerCentroid(e, c, d, v0).v \in Verdict
         /\ LayerCentroid(e, c, d, v0).pc \in {"done", "head"}
<1> DEFINE v == [v0 EXCEPT !.Stage = "L1b"]
           w == [v EXCEPT !.HammingDist = d.dist]
           q == [w EXCEPT !.Action = applyNonSoftening(w.Action, "quarantine"),
                          !.Flags = @ \cup {"anomaly"}, !.ConfidenceQ8 = 160]
           b == [w EXCEPT !.Action = applyNonSoftening(w.Action, "block"),
                          !.Flags = @ \cup {"blocked"}, !.ConfidenceQ8 = (128 - d.dist) * 2]
<1>1. v \in Verdict
  BY DEF Verdict, Stages
<1>2. d.dist \in 0 .. NotFound
  BY DEF Disk
<1>3. w \in Verdict
  <2> HIDE DEF v
  <2> QED BY <1>1, <1>2 DEF Verdict
<1> HIDE DEF v, w
<1>4. applyNonSoftening(w.Action, "quarantine") \in Actions /\ applyNonSoftening(w.Action, "block") \in Actions
  BY <1>3, NonSofteningType DEF Verdict, Actions
<1>5. q \in Verdict
  <2>1. 160 \in Uint16
    BY DEF Uint16
  <2> QED BY <1>3, <1>4, <2>1 DEF Verdict, Flags
<1>6. d.dist <= 128 => b \in Verdict
  <2> SUFFICES ASSUME d.dist <= 128 PROVE b \in Verdict
    OBVIOUS
  <2>1. (128 - d.dist) * 2 \in Uint16
    BY <1>2 DEF NotFound, Uint16
  <2> QED BY <1>3, <1>4, <2>1 DEF Verdict, Flags
<1> HIDE DEF q, b
<1> QED
  BY <1>1, <1>3, <1>5, <1>6 DEF LayerCentroid, Stop, GoOn, v, w, q, b

LEMMA HeadType ==
  ASSUME NEW d \in Disk, NEW v \in Verdict
  PROVE  LayerHead(d, v) \in Verdict
<1>1. Blocked(v, 220) \in Verdict
  BY BlockedType DEF Uint16
<1>2. /\ applyNonSoftening(v.Action, "block") \in Actions
      /\ applyNonSoftening(v.Action, "quarantine") \in Actions
      /\ applyNonSoftening(v.Action, "pass") \in Actions
  BY NonSofteningType DEF Verdict, Actions
<1>3. [Blocked(v, 220) EXCEPT !.Action = applyNonSoftening(v.Action, "block")] \in Verdict
  BY <1>1, <1>2 DEF Verdict
<1>4. [v EXCEPT !.Action = applyNonSoftening(v.Action, "quarantine"),
                !.Flags = @ \cup {"anomaly"}, !.ConfidenceQ8 = 128] \in Verdict
  <2>1. 128 \in Uint16
    BY DEF Uint16
  <2> QED BY <1>2, <2>1 DEF Verdict, Flags
<1>5. [v EXCEPT !.Action = applyNonSoftening(v.Action, "pass")] \in Verdict
  BY <1>2 DEF Verdict
<1> QED
  BY <1>3, <1>4, <1>5 DEF LayerHead

-----------------------------------------------------------------------------
(* What a whole evaluation answers.                                        *)

(* A disk is seen through its checksum and its radius alone.               *)
LEMMA SameAnswers ==
  ASSUME NEW e, NEW c, NEW d1 \in Disk, NEW d2 \in Disk, NEW fb,
         CRC32C(d1) = CRC32C(d2), BlockRadius(d1) = BlockRadius(d2)
  PROVE  EvaluateResolved(e, c, d1, fb) = EvaluateResolved(e, c, d2, fb)
<1>1. /\ d1.kws = d2.kws /\ d1.dist = d2.dist /\ d1.probe = d2.probe
      /\ d1.class = d2.class /\ d1.conforms = d2.conforms
  BY DEF CRC32C
<1>2. LayerL0(e, c, d1) = LayerL0(e, c, d2)
  BY <1>1 DEF LayerL0, Keyword
<1>3. ASSUME NEW v PROVE LayerL1a(e, c, d1, fb, v) = LayerL1a(e, c, d2, fb, v)
  BY <1>1 DEF LayerL1a, ProbeVerdict, NearThreat
<1>4. ASSUME NEW v PROVE LayerCentroid(e, c, d1, v) = LayerCentroid(e, c, d2, v)
  <2>1. (d1 # NoDisk /\ d1.dist <= 128) <=> (d2 # NoDisk /\ d2.dist <= 128)
    <3>1. NoDisk.dist = NotFound
      BY DEF NoDisk
    <3> QED BY <1>1, <3>1 DEF NotFound
  <2>2. ApexCertified(e, d1) <=> ApexCertified(e, d2)
    BY <1>1 DEF ApexCertified
  <2> QED BY <1>1, <2>1, <2>2 DEF LayerCentroid
<1>5. ASSUME NEW v PROVE LayerHead(d1, v) = LayerHead(d2, v)
  BY <1>1 DEF LayerHead
<1> QED
  BY <1>2, <1>3, <1>4, <1>5 DEF EvaluateResolved

(* applyNonSoftening never lowers what was there, and blocks for good.     *)
LEMMA NonSoftening ==
  ASSUME NEW a \in Actions
  PROVE  /\ applyNonSoftening(a, "block") = "block"
         /\ applyNonSoftening(a, "quarantine") # "pass"
         /\ applyNonSoftening("block", a) = "block"
         /\ applyNonSoftening(a, "pass") = a
BY DEF applyNonSoftening, Actions

(* What L0 finds against an event blocks it.                               *)
LEMMA FoundByL0 ==
  ASSUME NEW e \in Event, NEW c, NEW d \in Disk, NEW fb,
         Keyword(e, d) \/ StructuralReflex(e) \/ Onto(e, c) = "deny"
  PROVE  EvaluateResolved(e, c, d, fb).Action = "block"
<1>1. Blocked(NoVerdict, 256).Action = "block"
  BY DEF Blocked, NoVerdict
<1>2. [Blocked(NoVerdict, 256) EXCEPT !.Flags = @ \cup {"lolbas"}].Action = "block"
  BY DEF Blocked, NoVerdict
<1>3. LayerL0(e, c, d).v.Action = "block" /\ LayerL0(e, c, d).pc = "done"
  BY <1>1, <1>2 DEF LayerL0, Stop
<1> QED
  BY <1>3 DEF EvaluateResolved

(* An event within the block radius of a centroid passes only certified.   *)
LEMMA WithinRadius ==
  ASSUME NEW e \in Event, NEW c, NEW d \in Disk, NEW fb,
         d.dist <= BlockRadius(d), d.dist <= 128,
         EvaluateResolved(e, c, d, fb).Action = "pass"
  PROVE  \/ Onto(e, c) = "allow" /\ e.payload.size = "tiny"
         \/ e.Subsystem = 3 /\ "apex" \in e.payload.marks /\ d.class = 0 /\ d.conforms
<1> DEFINE r0 == LayerL0(e, c, d)
           r1 == LayerL1a(e, c, d, fb, r0.v)
           r2 == LayerCentroid(e, c, d, r1.v)
<1>0. d.dist \in 0 .. NotFound /\ BlockRadius(d) \in 0 .. 255 /\ d # NoDisk
  <2>1. d.dist \in 0 .. NotFound
    BY DEF Disk
  <2>2. d # NoDisk
    <3>1. NoDisk.dist = 129
      BY DEF NoDisk, NotFound
    <3>2. d.dist # 129
      BY <2>1 DEF NotFound
    <3> QED BY <3>1, <3>2
  <2> QED BY <2>1, <2>2, RadiusIsANumber
<1>1. CASE r0.pc = "done"
  <2>1. Blocked(NoVerdict, 256).Action # "pass"
    BY DEF Blocked, NoVerdict
  <2>2. [Blocked(NoVerdict, 256) EXCEPT !.Flags = @ \cup {"lolbas"}].Action # "pass"
    BY DEF Blocked, NoVerdict
  <2>3. r0.v.Action = "pass"
    BY <1>1 DEF EvaluateResolved
  <2> QED BY <1>1, <2>1, <2>2, <2>3 DEF LayerL0, Stop, GoOn
<1>2. CASE r0.pc # "done"
  <2>1. r0.v \in Verdict
    BY L0Type
  <2>2. NearThreat(d, Onto(e, c))
    BY <1>0 DEF NearThreat, NotFound
  <2>3. r1.pc # "done" /\ r1.v \in Verdict
    <3>1. r1.v \in Verdict
      BY <2>1, L1aType
    <3> QED BY <2>2, <3>1 DEF LayerL1a, GoOn
  <2>4. CASE ApexCertified(e, d)
    BY <2>4 DEF ApexCertified
  <2>5. CASE ~ApexCertified(e, d)
    <3> DEFINE v == [r1.v EXCEPT !.Stage = "L1b"]
               w == [v EXCEPT !.HammingDist = d.dist]
               b == [w EXCEPT !.Action = applyNonSoftening(w.Action, "block"),
                              !.Flags = @ \cup {"blocked"}, !.ConfidenceQ8 = (128 - d.dist) * 2]
    <3> HIDE DEF r0, r1
    <3>1. r2 = Stop(b)
      BY <1>0, <2>5 DEF LayerCentroid
    <3>2. w.Action \in Actions /\ w = [w EXCEPT !.Action = w.Action]
      BY <2>3 DEF Verdict
    <3>3. b.Action = applyNonSoftening(w.Action, "block")
      BY <2>3 DEF Verdict
    <3>4. r2.pc = "done" /\ r2.v.Action = "block"
      <4> HIDE DEF b, w
      <4> QED BY <3>1, <3>2, <3>3, NonSoftening DEF Stop
    <3>5. EvaluateResolved(e, c, d, fb) = r2.v
      BY <1>2, <2>3, <3>4 DEF EvaluateResolved, r0, r1
    <3> QED BY <3>4, <3>5
  <2> QED BY <2>4, <2>5
<1> QED
  BY <1>1, <1>2

(* A verdict without the payload carries its flag, and never passes.       *)
LEMMA ArenaVerdict ==
  ASSUME NEW e, NEW d
  PROVE  /\ "arenaInvalid" \in ArenaInvalid(e, d).Flags
         /\ ArenaInvalid(e, d).Action \in {"quarantine", "block"}
<1> DEFINE v == [NoVerdict EXCEPT !.Action = "quarantine", !.Flags = {"anomaly", "arenaInvalid"}]
<1>1. v.Action = "quarantine" /\ v.Flags = {"anomaly", "arenaInvalid"}
  BY DEF NoVerdict
<1>2. /\ [Blocked(v, 256) EXCEPT !.Flags = @ \cup {"lolbas"}].Action = "block"
      /\ "arenaInvalid" \in [Blocked(v, 256) EXCEPT !.Flags = @ \cup {"lolbas"}].Flags
  BY DEF Blocked, NoVerdict
<1> QED
  BY <1>1, <1>2 DEF ArenaInvalid

-----------------------------------------------------------------------------
(* The inductive invariant of the cascade.                                 *)
CascadeType ==
  /\ slot \in [Families -> DiskSlots]
  /\ fallback \subseteq {0, 1}
  /\ job \in Job
  /\ mounts \in 0 .. MaxMounts /\ evals \in 0 .. MaxEvals

(* A disk once mounted is only ever replaced by another one.               *)
StillMounted(subsystem, d) == d # NoDisk => DiskFor(subsystem) # NoDisk

(* Each pc of the evaluation holds what the layers before it answered, all *)
(* of them under the one disk read at the start.                           *)
JobInv ==
  LET r0 == LayerL0(job.ev, job.cctx, job.disk)
      r1 == LayerL1a(job.ev, job.cctx, job.disk, fallback, r0.v)
      r2 == LayerCentroid(job.ev, job.cctx, job.disk, r1.v)
  IN
  /\ job.pc # "idle" =>
       job.disk \in job.seen /\ evals > 0 /\ StillMounted(job.ev.Subsystem, job.disk)
  /\ job.pc = "L1a" => r0.pc # "done" /\ job.v = r0.v
  /\ job.pc = "centroid" => r0.pc # "done" /\ r1.pc # "done" /\ job.v = r1.v
  /\ job.pc = "head" => r0.pc # "done" /\ r1.pc # "done" /\ r2.pc # "done" /\ job.v = r2.v
  /\ job.pc = "done" =>
       \/ job.v = EvaluateResolved(job.ev, job.cctx, job.disk, fallback)
       \/ job.ev.payload.size = "arena" /\ job.v = ArenaInvalid(job.ev, job.disk)

(* A clean proof seals the disk its verdict was given under.               *)
SealedUnder(p, d) ==
  /\ p.FloppyFamily = d.FamilyID /\ p.FloppyCRC32 = CRC32C(d) /\ p.radius = BlockRadius(d)
  /\ p.v = EvaluateResolved(p.ev, p.cctx, d, fallback)
  /\ StillMounted(p.ev.Subsystem, d)

ProofsInv ==
  \A p \in proofs : evals > 0 /\ (p.clean => \E d \in DiskSlots : SealedUnder(p, d))

CascadeInv == CascadeType /\ JobInv /\ ProofsInv /\ Reproduced

(* A slot holds a disk, and DiskFor reads a slot or none.                  *)
LEMMA DiskForType ==
  ASSUME CascadeType, NEW s
  PROVE  DiskFor(s) \in DiskSlots
BY DEF CascadeType, DiskFor, DiskSlots, Families

(* Nothing that leaves the slots, the probe and the proofs alone disturbs  *)
(* the proofs.                                                             *)
LEMMA ProofsKept ==
  ASSUME ProofsInv, UNCHANGED <<slot, fallback, proofs>>, evals \in Nat, evals' \in Nat, evals <= evals'
  PROVE  ProofsInv'
<1> SUFFICES ASSUME NEW p \in proofs
             PROVE  evals' > 0 /\ (p.clean => \E d \in DiskSlots : SealedUnder(p, d)')
  BY DEF ProofsInv
<1>1. evals > 0 /\ (p.clean => \E d \in DiskSlots : SealedUnder(p, d))
  BY DEF ProofsInv
<1>2. ASSUME NEW d \in DiskSlots PROVE SealedUnder(p, d)' <=> SealedUnder(p, d)
  BY DEF SealedUnder, StillMounted, DiskFor
<1> QED BY <1>1, <1>2

(* One layer more.                                                         *)
LEMMA LayerStep ==
  ASSUME CascadeInv, NEW r, Take(r), r.v \in Verdict, r.pc \in Pcs \ {"idle"}, job.pc # "idle",
         LET r0 == LayerL0(job.ev, job.cctx, job.disk)
             r1 == LayerL1a(job.ev, job.cctx, job.disk, fallback, r0.v)
             r2 == LayerCentroid(job.ev, job.cctx, job.disk, r1.v)
         IN  /\ r.pc = "L1a" => r0.pc # "done" /\ r.v = r0.v
             /\ r.pc = "centroid" => r0.pc # "done" /\ r1.pc # "done" /\ r.v = r1.v
             /\ r.pc = "head" => r0.pc # "done" /\ r1.pc # "done" /\ r2.pc # "done" /\ r.v = r2.v
             /\ r.pc = "done" => r.v = EvaluateResolved(job.ev, job.cctx, job.disk, fallback)
  PROVE  CascadeInv'
<1>1. /\ job'.pc = r.pc /\ job'.v = r.v /\ job'.ev = job.ev /\ job'.cctx = job.cctx
      /\ job'.disk = job.disk /\ job'.seen = job.seen /\ job' \in Job
  BY DEF CascadeInv, CascadeType, Take, Job
<1>2. CascadeType'
  BY <1>1 DEF CascadeInv, CascadeType, Take
<1>3. JobInv'
  <2>1. StillMounted(job.ev.Subsystem, job.disk)' <=> StillMounted(job.ev.Subsystem, job.disk)
    BY <1>1 DEF StillMounted, DiskFor, Take
  <2> QED BY <1>1, <2>1 DEF CascadeInv, JobInv, Take
<1>4. ProofsInv'
  BY ProofsKept DEF CascadeInv, CascadeType, Take
<1>5. Reproduced'
  BY DEF CascadeInv, Reproduced, Take
<1> QED BY <1>2, <1>3, <1>4, <1>5 DEF CascadeInv

LEMMA CascadeStart == Init => CascadeInv
<1> SUFFICES ASSUME Init PROVE CascadeInv
  OBVIOUS
<1>1. IdleJob \in Job
  BY NoVerdictType DEF IdleJob, Job, Pcs, DiskSlots
<1>2. IdleJob.pc = "idle"
  BY DEF IdleJob
<1>3. CascadeType
  BY <1>1, CascadeAssumption DEF CascadeType, Init, DiskSlots
<1>4. JobInv
  BY <1>2 DEF JobInv, Init
<1> QED BY <1>3, <1>4 DEF CascadeInv, ProofsInv, Reproduced, Init

LEMMA MountFloppyStep ==
  ASSUME CascadeInv, NEW f \in Families, NEW d \in Disks, MountFloppy(f, d)
  PROVE  CascadeInv'
<1>1. d \in DiskSlots /\ d # NoDisk
  BY CascadeAssumption DEF DiskSlots
<1>2. slot' \in [Families -> DiskSlots]
  BY <1>1 DEF CascadeInv, CascadeType, MountFloppy
<1>3. /\ job' \in Job /\ job'.pc = job.pc /\ job'.v = job.v /\ job'.ev = job.ev
      /\ job'.cctx = job.cctx /\ job'.disk = job.disk /\ job.seen \subseteq job'.seen
  <2>1. CASE job' = job
    BY <2>1 DEF CascadeInv, CascadeType
  <2>2. CASE job' = [job EXCEPT !.seen = @ \cup {d}]
    BY <2>2, <1>1 DEF CascadeInv, CascadeType, Job
  <2> QED BY <2>1, <2>2 DEF MountFloppy
<1>4. ASSUME NEW s, DiskFor(s) # NoDisk PROVE DiskFor(s)' # NoDisk
  BY <1>1, <1>4 DEF DiskFor, MountFloppy, CascadeInv, CascadeType, Families
<1>5. CascadeType'
  BY <1>2, <1>3, CascadeAssumption DEF CascadeInv, CascadeType, MountFloppy
<1>6. JobInv'
  BY <1>3, <1>4 DEF CascadeInv, JobInv, MountFloppy, StillMounted
<1>7. ProofsInv'
  <2> SUFFICES ASSUME NEW p \in proofs
               PROVE  evals' > 0 /\ (p.clean => \E x \in DiskSlots : SealedUnder(p, x)')
    BY DEF ProofsInv, MountFloppy
  <2>1. evals > 0 /\ (p.clean => \E x \in DiskSlots : SealedUnder(p, x))
    BY DEF CascadeInv, ProofsInv
  <2>2. ASSUME NEW x \in DiskSlots, SealedUnder(p, x) PROVE SealedUnder(p, x)'
    BY <2>2, <1>4 DEF SealedUnder, StillMounted, MountFloppy
  <2> QED BY <2>1, <2>2 DEF MountFloppy
<1>8. Reproduced'
  BY DEF CascadeInv, Reproduced, MountFloppy
<1> QED BY <1>5, <1>6, <1>7, <1>8 DEF CascadeInv

(* No prototype is added once an evaluation began: nothing depends on it.  *)
LEMMA AddPrototypeStep ==
  ASSUME CascadeInv, NEW class \in {0, 1}, AddPrototype(class)
  PROVE  CascadeInv'
<1>1. CascadeType'
  BY DEF CascadeInv, CascadeType, AddPrototype
<1>2. job.pc = "idle" /\ proofs = {}
  BY DEF CascadeInv, JobInv, ProofsInv, AddPrototype
<1>3. JobInv'
  BY <1>2 DEF JobInv, AddPrototype
<1>4. ProofsInv' /\ Reproduced'
  BY <1>2 DEF CascadeInv, ProofsInv, Reproduced, AddPrototype
<1> QED BY <1>1, <1>3, <1>4 DEF CascadeInv

LEMMA EvaluateStep ==
  ASSUME CascadeInv, NEW e \in Events, NEW c \in Contexts, EvaluateEventCtx(e, c)
  PROVE  CascadeInv'
<1>1. DiskFor(e.Subsystem) \in DiskSlots
  BY DiskForType DEF CascadeInv
<1>2. /\ job' \in Job /\ job'.pc = "resolve" /\ job'.ev = e /\ job'.disk = DiskFor(e.Subsystem)
      /\ job'.disk \in job'.seen
  BY <1>1, NoVerdictType DEF EvaluateEventCtx, IdleJob, Job, Pcs
<1>3. CascadeType'
  BY <1>2, CascadeAssumption DEF CascadeInv, CascadeType, EvaluateEventCtx
<1>4. JobInv'
  <2>1. DiskFor(e.Subsystem)' = DiskFor(e.Subsystem)
    BY DEF DiskFor, EvaluateEventCtx
  <2>2. evals' > 0
    BY DEF CascadeInv, CascadeType, EvaluateEventCtx
  <2> QED BY <1>2, <2>1, <2>2 DEF JobInv, StillMounted
<1>5. ProofsInv'
  BY ProofsKept DEF CascadeInv, CascadeType, EvaluateEventCtx
<1> QED BY <1>3, <1>4, <1>5 DEF CascadeInv, Reproduced, EvaluateEventCtx

(* The steps that leave a proof and a slot alone, outside of the layers.   *)
LEMMA ResolveStep ==
  ASSUME CascadeInv, Resolve \/ ResolveFails \/ Return
  PROVE  CascadeInv'
<1>0. job \in Job /\ job.ev \in Event /\ job.disk \in Disk
  BY EventsAreEvents, SlotsAreDisks DEF CascadeInv, CascadeType, Job
<1>1. /\ job' \in Job
      /\ \/ job'.pc = "idle"
         \/ /\ job'.ev = job.ev /\ job'.disk = job.disk /\ job'.seen = job.seen /\ job.pc # "idle"
            /\ \/ job'.pc = "L0"
               \/ /\ job'.pc = "done" /\ job.ev.payload.size = "arena"
                  /\ job'.v = ArenaInvalid(job.ev, job.disk)
  <2>1. CASE Resolve
    BY <1>0, <2>1 DEF Resolve, Job, Pcs
  <2>2. CASE ResolveFails
    <3>1. ArenaInvalid(job.ev, job.disk) \in Verdict
      BY <1>0, ArenaType
    <3> QED BY <1>0, <2>2, <3>1 DEF ResolveFails, Job, Pcs
  <2>3. CASE Return
    BY <2>3, NoVerdictType DEF Return, IdleJob, Job, Pcs, DiskSlots
  <2> QED BY <2>1, <2>2, <2>3
<1>2. UNCHANGED <<slot, fallback, proofs, replays, mounts, evals>>
  BY DEF Resolve, ResolveFails, Return
<1>3. CascadeType'
  BY <1>1, <1>2 DEF CascadeInv, CascadeType
<1>4. JobInv'
  <2>1. StillMounted(job.ev.Subsystem, job.disk) => StillMounted(job.ev.Subsystem, job.disk)'
          \/ job'.ev # job.ev \/ job'.disk # job.disk
    BY <1>2 DEF StillMounted, DiskFor
  <2> QED BY <1>1, <1>2, <2>1 DEF CascadeInv, JobInv
<1>5. ProofsInv'
  BY <1>2, ProofsKept DEF CascadeInv, CascadeType
<1> QED BY <1>2, <1>3, <1>4, <1>5 DEF CascadeInv, Reproduced

LEMMA LayersStep ==
  ASSUME CascadeInv, EvalL0 \/ EvalL1a \/ EvalCentroid \/ EvalHead
  PROVE  CascadeInv'
<1> DEFINE r0 == LayerL0(job.ev, job.cctx, job.disk)
           r1 == LayerL1a(job.ev, job.cctx, job.disk, fallback, r0.v)
           r2 == LayerCentroid(job.ev, job.cctx, job.disk, r1.v)
<1>0. job.ev \in Event /\ job.disk \in Disk
  BY EventsAreEvents, SlotsAreDisks DEF CascadeInv, CascadeType, Job
<1>1. /\ r0.v \in Verdict /\ r0.pc \in {"done", "L1a"}
      /\ r1.v \in Verdict /\ r1.pc \in {"done", "centroid"}
      /\ r2.v \in Verdict /\ r2.pc \in {"done", "head"}
      /\ LayerHead(job.disk, r2.v) \in Verdict
  <2>1. r0.v \in Verdict /\ r0.pc \in {"done", "L1a"}
    BY <1>0, L0Type
  <2> HIDE DEF r0
  <2>2. r1.v \in Verdict /\ r1.pc \in {"done", "centroid"}
    BY <1>0, <2>1, L1aType
  <2> HIDE DEF r1
  <2>3. r2.v \in Verdict /\ r2.pc \in {"done", "head"}
    BY <1>0, <2>2, CentroidType
  <2> HIDE DEF r2
  <2> QED BY <1>0, <2>1, <2>2, <2>3, HeadType
<1>2. /\ r0.pc = "done" => r0.v = EvaluateResolved(job.ev, job.cctx, job.disk, fallback)
      /\ r0.pc # "done" /\ r1.pc = "done" =>
           r1.v = EvaluateResolved(job.ev, job.cctx, job.disk, fallback)
      /\ r0.pc # "done" /\ r1.pc # "done" /\ r2.pc = "done" =>
           r2.v = EvaluateResolved(job.ev, job.cctx, job.disk, fallback)
      /\ r0.pc # "done" /\ r1.pc # "done" /\ r2.pc # "done" =>
           LayerHead(job.disk, r2.v) = EvaluateResolved(job.ev, job.cctx, job.disk, fallback)
  BY DEF EvaluateResolved
<1>3. CASE EvalL0
  <2>1. Take(r0) /\ job.pc = "L0"
    BY <1>3 DEF EvalL0
  <2> QED BY <1>1, <1>2, <2>1, LayerStep DEF Pcs
<1>4. CASE EvalL1a
  <2>1. Take(r1) /\ job.pc = "L1a" /\ r0.pc # "done"
    BY <1>4 DEF EvalL1a, CascadeInv, JobInv
  <2> QED BY <1>1, <1>2, <2>1, LayerStep DEF Pcs
<1>5. CASE EvalCentroid
  <2>1. Take(r2) /\ job.pc = "centroid" /\ r0.pc # "done" /\ r1.pc # "done"
    BY <1>5 DEF EvalCentroid, CascadeInv, JobInv
  <2> QED BY <1>1, <1>2, <2>1, LayerStep DEF Pcs
<1>6. CASE EvalHead
  <2> DEFINE r3 == Stop(LayerHead(job.disk, r2.v))
  <2>1. Take(r3) /\ job.pc = "head" /\ r0.pc # "done" /\ r1.pc # "done" /\ r2.pc # "done"
    BY <1>6 DEF EvalHead, CascadeInv, JobInv
  <2>2. r3.pc = "done" /\ r3.v = LayerHead(job.disk, r2.v)
    BY DEF Stop
  <2> HIDE DEF r3
  <2> QED BY <1>1, <1>2, <2>1, <2>2, LayerStep DEF Pcs
<1> QED BY <1>3, <1>4, <1>5, <1>6

(* A clean signature seals the disk the evaluation read: a verdict given   *)
(* without the payload is refused, so the sealed one is the whole          *)
(* evaluation's.                                                           *)
LEMMA SignStep ==
  ASSUME CascadeInv, SignForensicProof
  PROVE  CascadeInv'
<1> DEFINE d == DiskFor(job.ev.Subsystem)
           q == [ev |-> job.ev, cctx |-> job.cctx, v |-> job.v, FloppyFamily |-> d.FamilyID,
                 FloppyCRC32 |-> CRC32C(d), clean |-> d = job.disk, radius |-> BlockRadius(d)]
<1>1. proofs' = proofs \cup {q} /\ UNCHANGED <<slot, fallback, job, replays, mounts, evals>>
  BY DEF SignForensicProof
<1>2. CascadeType' /\ JobInv' /\ Reproduced'
  BY <1>1 DEF CascadeInv, CascadeType, JobInv, Reproduced, StillMounted, DiskFor
<1>3. d \in DiskSlots
  BY DiskForType DEF CascadeInv
<1>4. d = job.disk => SealedUnder(q, d)
  <2>1. job.v = EvaluateResolved(job.ev, job.cctx, job.disk, fallback)
    BY ArenaVerdict DEF SignForensicProof, CascadeInv, JobInv
  <2>2. StillMounted(job.ev.Subsystem, d)
    BY DEF StillMounted
  <2> HIDE DEF d
  <2> QED BY <2>1, <2>2 DEF SealedUnder
<1>5. evals > 0
  BY DEF CascadeInv, JobInv, SignForensicProof
<1>6. ASSUME NEW p, NEW x PROVE SealedUnder(p, x)' <=> SealedUnder(p, x)
  BY <1>1 DEF SealedUnder, StillMounted, DiskFor
<1>7. ProofsInv'
  <2> SUFFICES ASSUME NEW p \in proofs'
               PROVE  evals > 0 /\ (p.clean => \E x \in DiskSlots : SealedUnder(p, x))
    BY <1>1, <1>6 DEF ProofsInv
  <2>1. CASE p \in proofs
    BY <2>1 DEF CascadeInv, ProofsInv
  <2>2. CASE p = q
    <3>1. p.clean => d = job.disk
      BY <2>2
    <3> HIDE DEF d, q
    <3> QED BY <2>2, <3>1, <1>3, <1>4, <1>5
  <2> QED BY <1>1, <2>1, <2>2
<1> QED BY <1>2, <1>7 DEF CascadeInv

LEMMA ReplayStep ==
  ASSUME CascadeInv, NEW p \in proofs, ReplayForensicProof(p)
  PROVE  CascadeInv'
<1> DEFINE d == DiskFor(p.ev.Subsystem)
           v == EvaluateResolved(p.ev, p.cctx, d, fallback)
           q == [proof |-> p, radius |-> BlockRadius(d),
                 reproduced |-> /\ v.Action = p.v.Action /\ v.Stage = p.v.Stage
                                /\ v.HammingDist = p.v.HammingDist
                                /\ v.ConfidenceQ8 = p.v.ConfidenceQ8]
<1>1. /\ replays' = replays \cup {q} /\ Parity(p, d)
      /\ UNCHANGED <<slot, fallback, job, proofs, mounts, evals>>
  BY DEF ReplayForensicProof, Sealed
<1>2. CascadeType' /\ JobInv'
  BY <1>1 DEF CascadeInv, CascadeType, JobInv, StillMounted, DiskFor
<1>3. ProofsInv'
  BY <1>1, ProofsKept DEF CascadeInv, CascadeType
<1>4. d \in DiskSlots
  BY DiskForType DEF CascadeInv
<1>5. ASSUME p.clean, BlockRadius(d) = p.radius PROVE v = p.v
  <2>1. PICK x \in DiskSlots : SealedUnder(p, x)
    BY <1>5 DEF CascadeInv, ProofsInv
  <2> HIDE DEF d
  <2>2. CASE d = NoDisk
    <3>1. x = NoDisk
      BY <2>1, <2>2 DEF SealedUnder, StillMounted, d
    <3> QED BY <2>1, <2>2, <3>1 DEF SealedUnder
  <2>3. CASE d # NoDisk
    <3>1. CRC32C(d) = CRC32C(x) /\ BlockRadius(d) = BlockRadius(x)
      BY <1>1, <1>5, <2>1, <2>3 DEF Parity, SealedUnder
    <3>2. EvaluateResolved(p.ev, p.cctx, d, fallback) = EvaluateResolved(p.ev, p.cctx, x, fallback)
      BY <1>4, <3>1, SameAnswers, SlotsAreDisks
    <3> QED BY <2>1, <3>2 DEF SealedUnder
  <2> QED BY <2>2, <2>3
<1>6. q.proof.clean /\ q.radius = q.proof.radius => q.reproduced
  <2>1. q.proof = p /\ q.radius = BlockRadius(d)
    OBVIOUS
  <2>2. v = p.v => q.reproduced
    <3> HIDE DEF v
    <3> QED OBVIOUS
  <2> HIDE DEF d, v, q
  <2> QED BY <2>1, <2>2, <1>5
<1>7. Reproduced'
  <2> HIDE DEF q
  <2> QED BY <1>1, <1>6 DEF CascadeInv, Reproduced
<1> QED BY <1>2, <1>3, <1>7 DEF CascadeInv

LEMMA CascadeInvariance == Spec => []CascadeInv
<1>1. CascadeInv /\ [Next]_vars => CascadeInv'
  <2> SUFFICES ASSUME CascadeInv, [Next]_vars PROVE CascadeInv'
    OBVIOUS
  <2>1. CASE UNCHANGED vars
    BY <2>1 DEF vars, CascadeInv, CascadeType, JobInv, ProofsInv, Reproduced, SealedUnder,
                StillMounted, DiskFor
  <2>2. CASE Next
    BY <2>2, AddPrototypeStep, EvaluateStep, ResolveStep, LayersStep, SignStep, ReplayStep,
       MountFloppyStep DEF Next, Work
  <2> QED BY <2>1, <2>2
<1> QED
  BY <1>1, CascadeStart, PTL DEF Spec

(* For every set of disks, events and contexts: what EvaluateEventCtx finds *)
(* against an event, by L0 or by the centroids of the disk, is outweighed  *)
(* by no confirmation, no certified context and no allowance; and the      *)
(* fields of every verdict keep their types.                               *)
THEOREM VerdictsUnsoftened == Spec => []Unsoftened
<1>1. CascadeInv => Unsoftened
  <2> SUFFICES ASSUME CascadeInv PROVE TypeOK /\ ReflexesPrevail /\ ThreatNeverPasses
    BY DEF Unsoftened
  <2>0. job.ev \in Event /\ job.disk \in Disk /\ job.v \in Verdict
    BY EventsAreEvents, SlotsAreDisks DEF CascadeInv, CascadeType, Job
  <2>1. TypeOK
    BY DEF CascadeInv, CascadeType, Job, TypeOK, DiskSlots, Pcs
  <2>2. Done => \/ job.v = EvaluateResolved(job.ev, job.cctx, job.disk, fallback)
                \/ job.v = ArenaInvalid(job.ev, job.disk)
    BY DEF Done, CascadeInv, JobInv
  <2>3. ReflexesPrevail
    <3> SUFFICES ASSUME Done, \/ Keyword(job.ev, job.disk) \/ StructuralReflex(job.ev)
                              \/ Onto(job.ev, job.cctx) = "deny"
                 PROVE  \/ job.v.Action = "block"
                        \/ "arenaInvalid" \in job.v.Flags /\ job.v.Action = "quarantine"
      BY DEF ReflexesPrevail
    <3>1. CASE job.v = EvaluateResolved(job.ev, job.cctx, job.disk, fallback)
      <4>1. EvaluateResolved(job.ev, job.cctx, job.disk, fallback).Action = "block"
        BY <2>0, FoundByL0, Zenon
      <4> QED BY <3>1, <4>1
    <3>2. CASE job.v = ArenaInvalid(job.ev, job.disk)
      BY <3>2, ArenaVerdict
    <3> QED BY <2>2, <3>1, <3>2
  <2>4. ThreatNeverPasses
    BY <2>0, <2>2, WithinRadius, ArenaVerdict DEF ThreatNeverPasses
  <2> QED BY <2>1, <2>3, <2>4
<1> QED
  BY <1>1, CascadeInvariance, PTL

(* For every history of MountFloppy: a verdict is the one of a single disk *)
(* that was mounted while the event was evaluated, and ReplayForensicProof *)
(* reproduces every proof whose signer sealed that disk, whenever it finds *)
(* the same checksum, family and radius again.                             *)
THEOREM ProofsReplay == Spec => []ReplayReproduces
<1>1. CascadeInv => ReplayReproduces
  BY DEF CascadeInv, JobInv, OneDisk, Done, ReplayReproduces
<1> QED
  BY <1>1, CascadeInvariance, PTL

-----------------------------------------------------------------------------
(* The gray zone.                                                          *)

Owners == Sources \cup {"none"}
SlotPcs == {"owner", "inactive", "claim", "fill", "stamp"}
BucketPcs == {"last", "win", "load", "refill", "take", "spend"}
Callers ==
  [pc : {"idle"} \cup SlotPcs \cup BucketPcs, b : Buckets, src : Owners, t : Nat, last : Nat,
   owner : Owners, cur : Nat, verdict : {"none", "drop", "pass", "queueFull", "throttled", "escalate"}]

GrayTypeInv ==
  /\ now \in Nat /\ T0 <= now /\ now <= TEnd
  /\ bucket \in [Buckets -> [src : Owners, tokens : Nat, last : Nat]]
  /\ g \in [Goroutines -> Callers]
  /\ escalated \in Nat /\ raced \in Nat
  /\ decisions \in Nat /\ decisions <= MaxDecisions
  /\ alone \in [Goroutines -> BOOLEAN]

(* What a goroutine knows at each of its accesses.                         *)
Knows(c) ==
  /\ c.t <= now
  /\ c.pc \in SlotPcs => c.b \in Slots
  /\ c.pc = "spend" => c.cur > 0
  /\ c.pc \in {"win", "load", "refill"} => c.t - c.last > Second

(* A goroutine that nobody disturbed still sees what it tested.            *)
Tested(c, alone_c) ==
  c.pc = "claim" /\ alone_c => c.owner = "none" \/ c.t - bucket[c.b].last > 3 * Second

HoldInv ==
  /\ \A b \in Buckets : bucket[b].tokens <= Cap(b) /\ bucket[b].last <= now
  /\ \A i \in Goroutines : Knows(g[i]) /\ Tested(g[i], alone[i])

(* The seconds that a won refill adds; those of the refills of the global  *)
(* bucket that have not loaded the tokens yet.                             *)
Gap(c) == (c.t - c.last) \div Second
Pending == {x \in Goroutines \X Nat :
              g[x[1]].pc = "load" /\ g[x[1]].b = "global" /\ x[2] \in 1 .. Gap(g[x[1]])}

Limit == MaxBurst + RefillPerSec * ((bucket["global"].last - T0) \div Second) + raced

(* What was let through, what is in the global bucket, or in the hands of  *)
(* a refill that will store it, and what pending refills will add come to  *)
(* no more than the limit.                                                 *)
RateInv ==
  /\ IsFiniteSet(Pending) /\ bucket["global"].last >= T0
  /\ escalated + bucket["global"].tokens + RefillPerSec * Cardinality(Pending) <= Limit
  /\ \A j \in Goroutines : Refilling(j) =>
       escalated + g[j].cur + RefillPerSec * Gap(g[j]) + RefillPerSec * Cardinality(Pending) <= Limit

GrayInv == GrayTypeInv /\ HoldInv /\ RateInv

(* Arithmetic of the refill.                                               *)
LEMMA DivSum ==
  ASSUME NEW a \in Nat, NEW b \in Nat, NEW s \in Nat \ {0}
  PROVE  a \div s \in Nat /\ b \div s \in Nat /\ a \div s + b \div s <= (a + b) \div s
<1>1. PICK p \in Nat, x \in Nat : p = a \div s /\ x = a % s
  OBVIOUS
<1>2. PICK q \in Nat, y \in Nat : q = b \div s /\ y = b % s
  OBVIOUS
<1>3. a = s * p + x /\ b = s * q + y
  BY <1>1, <1>2
<1>4. PICK r \in Nat, z \in Nat : r = (a + b) \div s /\ z = (a + b) % s
  OBVIOUS
<1>5. a + b = s * r + z /\ z < s
  BY <1>4
<1>6. s * (p + q) <= s * r + z /\ z < s
  BY <1>3, <1>5
<1>7. p + q <= r
  <2> SUFFICES ASSUME p + q >= r + 1 PROVE FALSE
    OBVIOUS
  <2>1. s * (p + q) >= s * (r + 1)
    OBVIOUS
  <2>2. s * (r + 1) = s * r + s
    OBVIOUS
  <2> QED
    BY <1>6, <2>1, <2>2
<1> QED
  BY <1>1, <1>2, <1>4, <1>7

LEMMA DivMonotone ==
  ASSUME NEW a \in Nat, NEW b \in Nat, NEW s \in Nat \ {0}, a <= b
  PROVE  a \div s \in Nat /\ b \div s \in Nat /\ a \div s <= b \div s
<1>1. b - a \in Nat /\ a + (b - a) = b
  OBVIOUS
<1>2. a \div s + (b - a) \div s <= b \div s /\ (b - a) \div s \in Nat /\ a \div s \in Nat
  BY <1>1, DivSum
<1> QED
  BY <1>2

LEMMA Wraps ==
  ASSUME NEW a \in Nat, NEW m \in Nat \ {0}
  PROVE  a % m \in Nat /\ a % m <= a
<1>1. PICK q \in Nat, y \in Nat : q = a \div m /\ y = a % m
  OBVIOUS
<1>2. a = m * q + y
  BY <1>1
<1>3. m * q \in Nat
  OBVIOUS
<1> QED
  BY <1>1, <1>2, <1>3

BucketRec == [src : Owners, tokens : Nat, last : Nat]

LEMMA GrayConstants ==
  /\ "global" \in Buckets /\ "global" \notin Slots /\ Slots \subseteq Buckets /\ "none" \notin Sources
  /\ \A b \in Buckets : Cap(b) \in Nat \ {0} /\ Cap(b) <= Word - 1 /\ Rate(b) \in Nat \ {0} /\ (b # "global" => b \in Slots)
  /\ Cap("global") = MaxBurst /\ Rate("global") = RefillPerSec /\ \A b \in Slots : Cap(b) = SourceMaxBurst
  /\ Second \in Nat \ {0} /\ Word \in Nat \ {0} /\ T0 \in Nat /\ MaxBurst \in Nat /\ RefillPerSec \in Nat
  /\ SlotOf \in [Sources -> Slots]
  BY GrayZoneAssumption DEF Buckets, Cap, Rate

LEMMA IdleCaller == IdleG \in Callers /\ \A v \in {"drop", "pass", "queueFull", "throttled", "escalate"} :
                      LET c == [IdleG EXCEPT !.verdict = v] IN c \in Callers /\ c.pc = "idle" /\ c.t = 0
  BY GrayConstants DEF IdleG, Callers, Owners

LEMMA GrayInitially == GrayInit => GrayInv
<1> SUFFICES ASSUME GrayInit PROVE GrayInv
  OBVIOUS
<1>1. GrayTypeInv
  <2>1. now \in Nat /\ T0 <= now /\ now <= TEnd
    BY GrayZoneAssumption DEF GrayInit
  <2>2. bucket \in [Buckets -> BucketRec]
    BY GrayConstants DEF GrayInit, BucketRec, Owners
  <2>3. g \in [Goroutines -> Callers]
    BY IdleCaller DEF GrayInit
  <2> QED
    BY <2>1, <2>2, <2>3, GrayZoneAssumption DEF GrayInit, GrayTypeInv, BucketRec
<1>2. HoldInv
  <2>1. \A b \in Buckets : bucket[b].tokens <= Cap(b) /\ bucket[b].last <= now
    BY GrayConstants DEF GrayInit
  <2>2. \A i \in Goroutines : g[i].t = 0 /\ g[i].pc = "idle"
    BY DEF GrayInit, IdleG
  <2>3. now \in Nat
    BY <1>1 DEF GrayTypeInv
  <2> QED
    BY <2>1, <2>2, <2>3 DEF HoldInv, Knows, Tested, SlotPcs
<1>3. RateInv
  <2>1. \A i \in Goroutines : g[i].pc = "idle"
    BY DEF GrayInit, IdleG
  <2>2. Pending = {}
    BY <2>1 DEF Pending
  <2>3. IsFiniteSet(Pending) /\ Cardinality(Pending) = 0
    BY <2>2, FS_EmptySet
  <2>4. bucket["global"].last = T0 /\ bucket["global"].tokens = MaxBurst /\ escalated = 0 /\ raced = 0
    BY GrayConstants DEF GrayInit
  <2>5. (T0 - T0) \div Second = 0
    BY GrayConstants
  <2>6. \A j \in Goroutines : ~Refilling(j)
    BY <2>1 DEF Refilling, At
  <2> QED
    BY <2>3, <2>4, <2>5, <2>6, GrayConstants DEF RateInv, Limit
<1> QED
  BY <1>1, <1>2, <1>3 DEF GrayInv

(* What an access of a goroutine does to the rate: nothing, or one of the  *)
(* four steps of the global bucket.                                        *)
Quiet(i, c, m) ==
  /\ escalated' = escalated
  /\ g[i].b = "global" => m.tokens = Mine(i).tokens /\ m.last = Mine(i).last
  /\ ~(g[i].b = "global" /\ g[i].pc \in {"load", "refill"})
  /\ ~(c.b = "global" /\ c.pc \in {"load", "refill"})
WonGlobal(i, c, m) ==
  /\ escalated' = escalated /\ g[i].b = "global" /\ c.b = "global" /\ g[i].pc = "win" /\ c.pc = "load"
  /\ Mine(i).last = g[i].last /\ c.t = g[i].t /\ c.last = g[i].last
  /\ m.last = g[i].t /\ m.tokens = Mine(i).tokens
LoadedGlobal(i, c, m) ==
  /\ escalated' = escalated /\ g[i].b = "global" /\ c.b = "global" /\ g[i].pc = "load" /\ c.pc = "refill"
  /\ c.cur = Mine(i).tokens /\ c.t = g[i].t /\ c.last = g[i].last
  /\ m = Mine(i)
StoredGlobal(i, c, m) ==
  /\ escalated' = escalated /\ g[i].b = "global" /\ g[i].pc = "refill" /\ c.pc = "take"
  /\ m.last = Mine(i).last /\ m.tokens <= g[i].cur + RefillPerSec * Gap(g[i])
SpentGlobal(i, c, m) ==
  /\ escalated' = escalated + 1 /\ g[i].b = "global" /\ g[i].pc = "spend" /\ c.pc = "idle"
  /\ m.last = Mine(i).last /\ m.tokens = Mine(i).tokens - 1

Effect(i, c, m) ==
  Quiet(i, c, m) \/ WonGlobal(i, c, m) \/ LoadedGlobal(i, c, m) \/ StoredGlobal(i, c, m) \/ SpentGlobal(i, c, m)

Moves(i, c, m) ==
  /\ c \in Callers /\ m \in BucketRec
  /\ g' = [g EXCEPT ![i] = c] /\ bucket' = [bucket EXCEPT ![g[i].b] = m]
  /\ now' = now /\ decisions' = decisions
  /\ Knows(c) /\ m.tokens <= Cap(g[i].b) /\ m.last <= now
  /\ c.pc = "claim" => m = Mine(i) /\ c.b = g[i].b /\ (c.owner = "none" \/ c.t - m.last > 3 * Second)
  /\ Effect(i, c, m)

(* The caller that moves and its bucket.                                   *)
LEMMA CallerShape ==
  ASSUME GrayTypeInv, HoldInv, NEW i \in Goroutines
  PROVE  /\ g[i] \in Callers /\ g[i].b \in Buckets /\ Mine(i) \in BucketRec /\ Knows(g[i])
         /\ Mine(i).tokens <= Cap(g[i].b) /\ Mine(i).last <= now /\ now \in Nat /\ T0 <= now
         /\ bucket = [bucket EXCEPT ![g[i].b] = Mine(i)]
         /\ bucket \in [Buckets -> BucketRec] /\ g \in [Goroutines -> Callers]
<1>1. g[i] \in Callers /\ g[i].b \in Buckets /\ now \in Nat /\ T0 <= now /\ g \in [Goroutines -> Callers]
  BY DEF GrayTypeInv, Callers
<1>2. bucket \in [Buckets -> BucketRec]
  BY DEF GrayTypeInv, BucketRec
<1> QED
  BY <1>1, <1>2 DEF Mine, HoldInv

LEMMA LoadOwnerMoves ==
  ASSUME GrayTypeInv, HoldInv, NEW i \in Goroutines, LoadOwner(i) PROVE \E c, m : Moves(i, c, m)
<1> DEFINE c == [g[i] EXCEPT !.t = now, !.owner = Mine(i).src, !.pc = IF Mine(i).src # g[i].src THEN "inactive" ELSE "last"]
<1>1. g[i].pc = "owner" /\ g' = [g EXCEPT ![i] = c] /\ UNCHANGED <<now, bucket, escalated, decisions>>
  BY DEF LoadOwner, At, counters
<1>2. c \in Callers /\ c.pc \in {"inactive", "last"} /\ c.b = g[i].b /\ c.t = now /\ g[i].b \in Slots
  BY ZenonT(30), <1>1, CallerShape DEF Callers, BucketRec, Owners, Knows, SlotPcs, BucketPcs
<1> HIDE DEF c
<1>3. Knows(c)
  BY <1>2, CallerShape DEF Knows, SlotPcs
<1>4. Quiet(i, c, Mine(i))
  BY <1>1, <1>2 DEF Quiet
<1>5. Moves(i, c, Mine(i))
  BY <1>1, <1>2, <1>3, <1>4, CallerShape DEF Moves, Effect
<1> QED
  BY <1>5

(* A step to another access of the same call.                              *)
LEMMA StepTo ==
  ASSUME GrayTypeInv, HoldInv, NEW i \in Goroutines, NEW pc \in SlotPcs \cup BucketPcs, GoTo(i, pc)
  PROVE  \E c \in Callers : /\ g' = [g EXCEPT ![i] = c] /\ c.pc = pc /\ c.b = g[i].b /\ c.t = g[i].t /\ c.last = g[i].last
                            /\ c.cur = g[i].cur /\ c.owner = g[i].owner /\ c.src = g[i].src
<1> DEFINE c == [g[i] EXCEPT !.pc = pc]
<1>1. g' = [g EXCEPT ![i] = c]
  BY DEF GoTo
<1>2. c \in Callers /\ c.pc = pc /\ c.b = g[i].b /\ c.t = g[i].t /\ c.last = g[i].last
      /\ c.cur = g[i].cur /\ c.owner = g[i].owner /\ c.src = g[i].src
  BY CallerShape DEF Callers
<1> QED
  BY <1>1, <1>2

LEMMA LoadInactiveMoves ==
  ASSUME GrayTypeInv, HoldInv, NEW i \in Goroutines, LoadInactive(i) PROVE \E c, m : Moves(i, c, m)
<1> DEFINE free == g[i].owner = "none" \/ g[i].t - Mine(i).last > 3 * Second
           pc == IF free THEN "claim" ELSE "last"
<1>1. g[i].pc = "inactive" /\ GoTo(i, pc) /\ UNCHANGED <<now, bucket, escalated, decisions>>
  BY DEF LoadInactive, At, counters
<1>2. pc \in SlotPcs \cup BucketPcs /\ pc \in {"claim", "last"} /\ (pc = "claim" => free)
  BY DEF SlotPcs, BucketPcs
<1> HIDE DEF pc
<1>3. PICK c \in Callers : /\ g' = [g EXCEPT ![i] = c] /\ c.pc = pc /\ c.b = g[i].b /\ c.t = g[i].t /\ c.last = g[i].last
                           /\ c.cur = g[i].cur /\ c.owner = g[i].owner
  BY <1>1, <1>2, StepTo
<1>4. g[i].b \in Slots /\ g[i].t <= now
  BY <1>1, CallerShape DEF Knows, SlotPcs
<1>5. Knows(c)
  BY <1>2, <1>3, <1>4 DEF Knows
<1>6. Quiet(i, c, Mine(i))
  BY <1>1, <1>2, <1>3 DEF Quiet
<1>7. Moves(i, c, Mine(i))
  BY <1>1, <1>2, <1>3, <1>5, <1>6, CallerShape DEF Moves, Effect
<1> QED
  BY <1>7

(* A bucket written in one field.                                          *)
LEMMA BucketWritten ==
  ASSUME NEW m \in BucketRec
  PROVE  /\ \A x \in Owners : LET n == [m EXCEPT !.src = x] IN n \in BucketRec /\ n.tokens = m.tokens /\ n.last = m.last /\ n.src = x
         /\ \A x \in Nat : LET n == [m EXCEPT !.tokens = x] IN n \in BucketRec /\ n.tokens = x /\ n.last = m.last
         /\ \A x \in Nat : LET n == [m EXCEPT !.last = x] IN n \in BucketRec /\ n.tokens = m.tokens /\ n.last = x
  BY DEF BucketRec

LEMMA ClaimMoves ==
  ASSUME GrayTypeInv, HoldInv, NEW i \in Goroutines, Claim(i) PROVE \E c, m : Moves(i, c, m)
<1>1. g[i].pc = "claim" /\ UNCHANGED <<now, escalated, decisions>>
  BY DEF Claim, At, counters
<1>2. g[i].b \in Slots /\ g[i].t <= now /\ g[i].src \in Owners
  BY <1>1, CallerShape DEF Knows, SlotPcs, Callers
<1>3. CASE Mine(i).src = g[i].owner
  <2> DEFINE m == [Mine(i) EXCEPT !.src = g[i].src]
  <2>1. bucket' = [bucket EXCEPT ![g[i].b] = m] /\ GoTo(i, "fill")
    BY <1>3 DEF Claim, Mine
  <2>2. m \in BucketRec /\ m.tokens = Mine(i).tokens /\ m.last = Mine(i).last
    BY <1>2, BucketWritten, CallerShape
  <2> HIDE DEF m
  <2>3. PICK c \in Callers : g' = [g EXCEPT ![i] = c] /\ c.pc = "fill" /\ c.b = g[i].b /\ c.t = g[i].t
    BY <2>1, StepTo DEF SlotPcs
  <2>4. Knows(c)
    BY <1>2, <2>3 DEF Knows
  <2>5. Quiet(i, c, m)
    BY <1>1, <2>2, <2>3 DEF Quiet
  <2>6. Moves(i, c, m)
    BY <1>1, <2>1, <2>2, <2>3, <2>4, <2>5, CallerShape DEF Moves, Effect
  <2> QED
    BY <2>6
<1>4. CASE Mine(i).src # g[i].owner
  <2>1. bucket' = bucket /\ GoTo(i, "last")
    BY <1>4 DEF Claim
  <2>2. PICK c \in Callers : g' = [g EXCEPT ![i] = c] /\ c.pc = "last" /\ c.b = g[i].b /\ c.t = g[i].t
    BY <2>1, StepTo DEF BucketPcs
  <2>3. Knows(c)
    BY <1>2, <2>2 DEF Knows, SlotPcs
  <2>4. Quiet(i, c, Mine(i))
    BY <1>1, <2>2 DEF Quiet
  <2>5. Moves(i, c, Mine(i))
    BY <1>1, <2>1, <2>2, <2>3, <2>4, CallerShape DEF Moves, Effect
  <2> QED
    BY <2>5
<1> QED
  BY <1>3, <1>4

LEMMA FillMoves ==
  ASSUME GrayTypeInv, HoldInv, NEW i \in Goroutines, Fill(i) PROVE \E c, m : Moves(i, c, m)
<1> DEFINE m == [Mine(i) EXCEPT !.tokens = SourceMaxBurst]
<1>1. g[i].pc = "fill" /\ bucket' = [bucket EXCEPT ![g[i].b] = m] /\ GoTo(i, "stamp") /\ UNCHANGED <<now, escalated, decisions>>
  BY DEF Fill, Mine, At, counters
<1>2. g[i].b \in Slots /\ g[i].t <= now /\ SourceMaxBurst = Cap(g[i].b) /\ SourceMaxBurst \in Nat /\ g[i].b # "global"
  BY <1>1, CallerShape, GrayConstants DEF Knows, SlotPcs
<1>3. m \in BucketRec /\ m.tokens = SourceMaxBurst /\ m.last = Mine(i).last
  BY <1>2, BucketWritten, CallerShape
<1> HIDE DEF m
<1>4. PICK c \in Callers : g' = [g EXCEPT ![i] = c] /\ c.pc = "stamp" /\ c.b = g[i].b /\ c.t = g[i].t
  BY <1>1, StepTo DEF SlotPcs
<1>5. Knows(c)
  BY <1>2, <1>4 DEF Knows
<1>6. Quiet(i, c, m)
  BY <1>1, <1>2, <1>4 DEF Quiet
<1>7. m.tokens <= Cap(g[i].b)
  BY <1>2, <1>3
<1>8. Moves(i, c, m)
  BY <1>1, <1>3, <1>4, <1>5, <1>6, <1>7, CallerShape DEF Moves, Effect
<1> QED
  BY <1>8

LEMMA StampMoves ==
  ASSUME GrayTypeInv, HoldInv, NEW i \in Goroutines, Stamp(i) PROVE \E c, m : Moves(i, c, m)
<1> DEFINE m == [Mine(i) EXCEPT !.last = g[i].t]
<1>1. g[i].pc = "stamp" /\ bucket' = [bucket EXCEPT ![g[i].b] = m] /\ GoTo(i, "last") /\ UNCHANGED <<now, escalated, decisions>>
  BY DEF Stamp, Mine, At, counters
<1>2. g[i].b \in Slots /\ g[i].t <= now /\ g[i].t \in Nat /\ g[i].b # "global"
  BY <1>1, CallerShape, GrayConstants DEF Knows, SlotPcs, Callers
<1>3. m \in BucketRec /\ m.tokens = Mine(i).tokens /\ m.last = g[i].t
  BY <1>2, BucketWritten, CallerShape
<1> HIDE DEF m
<1>4. PICK c \in Callers : g' = [g EXCEPT ![i] = c] /\ c.pc = "last" /\ c.b = g[i].b /\ c.t = g[i].t
  BY <1>1, StepTo DEF BucketPcs
<1>5. Knows(c)
  BY <1>2, <1>4 DEF Knows, SlotPcs
<1>6. Quiet(i, c, m)
  BY <1>1, <1>2, <1>4 DEF Quiet
<1>7. Moves(i, c, m)
  BY <1>1, <1>2, <1>3, <1>4, <1>5, <1>6, CallerShape DEF Moves, Effect
<1> QED
  BY <1>7

LEMMA LoadLastMoves ==
  ASSUME GrayTypeInv, HoldInv, NEW i \in Goroutines, LoadLast(i) PROVE \E c, m : Moves(i, c, m)
<1> DEFINE c == [g[i] EXCEPT !.t = Clock(i), !.last = Mine(i).last,
                             !.pc = IF Clock(i) - Mine(i).last > Second THEN "win" ELSE "take"]
<1>1. g[i].pc = "last" /\ g' = [g EXCEPT ![i] = c] /\ UNCHANGED <<now, bucket, escalated, decisions>>
  BY DEF LoadLast, At, counters
<1>2. Clock(i) \in Nat /\ Clock(i) <= now
  BY CallerShape DEF Clock, Knows, Callers
<1>3. c \in Callers /\ c.pc \in {"win", "take"} /\ c.b = g[i].b /\ c.t = Clock(i) /\ c.last = Mine(i).last
      /\ (c.pc = "win" => Clock(i) - Mine(i).last > Second)
  BY ZenonT(30), <1>1, <1>2, CallerShape DEF Callers, BucketRec, Owners, SlotPcs, BucketPcs
<1> HIDE DEF c
<1>4. Knows(c)
  BY <1>2, <1>3 DEF Knows, SlotPcs
<1>5. Quiet(i, c, Mine(i))
  BY <1>1, <1>3 DEF Quiet
<1>6. Moves(i, c, Mine(i))
  BY <1>1, <1>3, <1>4, <1>5, CallerShape DEF Moves, Effect
<1> QED
  BY <1>6

LEMMA WinMoves ==
  ASSUME GrayTypeInv, HoldInv, NEW i \in Goroutines, Win(i) PROVE \E c, m : Moves(i, c, m)
<1>1. g[i].pc = "win" /\ UNCHANGED <<now, escalated, decisions>>
  BY DEF Win, At, counters
<1>2. g[i].t <= now /\ g[i].t \in Nat /\ g[i].t - g[i].last > Second
  BY <1>1, CallerShape DEF Knows, Callers
<1>3. CASE Mine(i).last = g[i].last
  <2> DEFINE m == [Mine(i) EXCEPT !.last = g[i].t]
  <2>1. bucket' = [bucket EXCEPT ![g[i].b] = m] /\ GoTo(i, "load")
    BY <1>3 DEF Win, Mine
  <2>2. m \in BucketRec /\ m.tokens = Mine(i).tokens /\ m.last = g[i].t
    BY <1>2, BucketWritten, CallerShape
  <2> HIDE DEF m
  <2>3. PICK c \in Callers : g' = [g EXCEPT ![i] = c] /\ c.pc = "load" /\ c.b = g[i].b /\ c.t = g[i].t /\ c.last = g[i].last
    BY <2>1, StepTo DEF BucketPcs
  <2>4. Knows(c)
    BY <1>2, <2>3 DEF Knows, SlotPcs
  <2>5. Effect(i, c, m)
    BY <1>1, <1>3, <2>2, <2>3 DEF Effect, Quiet, WonGlobal
  <2>6. Moves(i, c, m)
    BY <1>1, <1>2, <2>1, <2>2, <2>3, <2>4, <2>5, CallerShape DEF Moves
  <2> QED
    BY <2>6
<1>4. CASE Mine(i).last # g[i].last
  <2>1. bucket' = bucket /\ GoTo(i, "take")
    BY <1>4 DEF Win
  <2>2. PICK c \in Callers : g' = [g EXCEPT ![i] = c] /\ c.pc = "take" /\ c.b = g[i].b /\ c.t = g[i].t
    BY <2>1, StepTo DEF BucketPcs
  <2>3. Knows(c)
    BY <1>2, <2>2 DEF Knows, SlotPcs
  <2>4. Quiet(i, c, Mine(i))
    BY <1>1, <2>2 DEF Quiet
  <2>5. Moves(i, c, Mine(i))
    BY <1>1, <2>1, <2>2, <2>3, <2>4, CallerShape DEF Moves, Effect
  <2> QED
    BY <2>5
<1> QED
  BY <1>3, <1>4

LEMMA LoadTokensMoves ==
  ASSUME GrayTypeInv, HoldInv, NEW i \in Goroutines, LoadTokens(i) PROVE \E c, m : Moves(i, c, m)
<1> DEFINE c == [g[i] EXCEPT !.cur = Mine(i).tokens, !.pc = "refill"]
<1>1. g[i].pc = "load" /\ g' = [g EXCEPT ![i] = c] /\ UNCHANGED <<now, bucket, escalated, decisions>>
  BY DEF LoadTokens, At, counters
<1>2. c \in Callers /\ c.pc = "refill" /\ c.b = g[i].b /\ c.t = g[i].t /\ c.last = g[i].last /\ c.cur = Mine(i).tokens
  BY ZenonT(30), <1>1, CallerShape DEF Callers, BucketRec, SlotPcs, BucketPcs
<1> HIDE DEF c
<1>3. Knows(c)
  BY <1>1, <1>2, CallerShape DEF Knows, SlotPcs
<1>4. Effect(i, c, Mine(i))
  BY <1>1, <1>2 DEF Effect, Quiet, LoadedGlobal
<1>5. Moves(i, c, Mine(i))
  BY <1>1, <1>2, <1>3, <1>4, CallerShape DEF Moves
<1> QED
  BY <1>5

(* The tokens that a refill stores are no more than those it loaded and    *)
(* those it adds, although both sums wrap.                                 *)
LEMMA ToppedBound ==
  ASSUME GrayTypeInv, HoldInv, NEW i \in Goroutines, g[i].pc = "refill"
  PROVE  /\ Topped(i) \in Nat /\ Topped(i) <= Cap(g[i].b)
         /\ g[i].b = "global" => Topped(i) <= g[i].cur + RefillPerSec * Gap(g[i])
<1>1. PICK d \in Nat : d = g[i].t - g[i].last
  <2>1. g[i].t \in Nat /\ g[i].last \in Nat /\ g[i].t - g[i].last > Second
    BY CallerShape DEF Knows, Callers
  <2> QED
    BY <2>1, GrayConstants
<1>2. PICK q \in Nat : q = d \div Second /\ q = Gap(g[i])
  BY <1>1, GrayConstants, DivSum DEF Gap
<1>3. PICK k \in Nat : k = Rate(g[i].b)
  BY CallerShape, GrayConstants
<1>4. PICK u \in Nat : u = g[i].cur
  BY CallerShape DEF Callers
<1>5. PICK v \in Nat : v = Cap(g[i].b)
  BY CallerShape, GrayConstants
<1>6. q * k \in Nat /\ q * k = k * q
  OBVIOUS
<1>7. PICK a \in Nat : a = Added(i) /\ a <= k * q
  <2>1. Added(i) = (q * k) % Word
    BY <1>1, <1>2, <1>3 DEF Added
  <2> QED
    BY <1>6, <2>1, Wraps, GrayConstants
<1>8. PICK n \in Nat : n = (u + a) % Word /\ n <= u + a
  BY Wraps, GrayConstants
<1>9. Topped(i) = IF n < v THEN n ELSE v
  BY <1>4, <1>5, <1>7, <1>8 DEF Topped
<1>10. g[i].b = "global" => k = RefillPerSec
  BY <1>3, GrayConstants
<1>11. Topped(i) \in Nat /\ Topped(i) <= v /\ Topped(i) <= u + k * q
  BY <1>6, <1>7, <1>8, <1>9
<1> QED
  BY <1>2, <1>4, <1>5, <1>10, <1>11

LEMMA RefillMoves ==
  ASSUME GrayTypeInv, HoldInv, NEW i \in Goroutines, Refill(i) PROVE \E c, m : Moves(i, c, m)
<1> DEFINE m == [Mine(i) EXCEPT !.tokens = Topped(i)]
<1>1. g[i].pc = "refill" /\ bucket' = [bucket EXCEPT ![g[i].b] = m] /\ GoTo(i, "take") /\ UNCHANGED <<now, escalated, decisions>>
  BY DEF Refill, Mine, At, counters
<1>2. /\ Topped(i) \in Nat /\ Topped(i) <= Cap(g[i].b)
      /\ g[i].b = "global" => Topped(i) <= g[i].cur + RefillPerSec * Gap(g[i])
  BY <1>1, ToppedBound
<1>3. m \in BucketRec /\ m.tokens = Topped(i) /\ m.last = Mine(i).last
  BY <1>2, BucketWritten, CallerShape
<1> HIDE DEF m
<1>4. PICK c \in Callers : g' = [g EXCEPT ![i] = c] /\ c.pc = "take" /\ c.b = g[i].b /\ c.t = g[i].t
  BY <1>1, StepTo DEF BucketPcs
<1>5. Knows(c)
  BY <1>4, CallerShape DEF Knows, SlotPcs
<1>6. Effect(i, c, m)
  BY <1>1, <1>2, <1>3, <1>4 DEF Effect, Quiet, StoredGlobal
<1>7. Moves(i, c, m)
  BY <1>1, <1>2, <1>3, <1>4, <1>5, <1>6, CallerShape DEF Moves
<1> QED
  BY <1>7

LEMMA TakeTokenMoves ==
  ASSUME GrayTypeInv, HoldInv, NEW i \in Goroutines, TakeToken(i) PROVE \E c, m : Moves(i, c, m)
<1>1. g[i].pc = "take" /\ UNCHANGED <<now, bucket, escalated, decisions>>
  BY DEF TakeToken, At
<1>2. CASE Mine(i).tokens = 0
  <2> DEFINE v == IF g[i].b = "global" THEN "queueFull" ELSE "throttled"
             c == [IdleG EXCEPT !.verdict = v]
  <2>1. g' = [g EXCEPT ![i] = c]
    BY <1>2 DEF TakeToken
  <2>2. c \in Callers /\ c.pc = "idle" /\ c.t = 0
    BY IdleCaller
  <2> HIDE DEF c
  <2>3. Knows(c)
    BY <2>2, CallerShape DEF Knows, SlotPcs
  <2>4. Quiet(i, c, Mine(i))
    BY <1>1, <2>2 DEF Quiet
  <2>5. Moves(i, c, Mine(i))
    BY <1>1, <2>1, <2>2, <2>3, <2>4, CallerShape DEF Moves, Effect
  <2> QED
    BY <2>5
<1>3. CASE Mine(i).tokens # 0
  <2> DEFINE c == [g[i] EXCEPT !.cur = Mine(i).tokens, !.pc = "spend"]
  <2>1. g' = [g EXCEPT ![i] = c]
    BY <1>3 DEF TakeToken
  <2>2. c \in Callers /\ c.pc = "spend" /\ c.b = g[i].b /\ c.t = g[i].t /\ c.cur = Mine(i).tokens /\ c.cur > 0
    <3>1. Mine(i).tokens \in Nat /\ Mine(i).tokens > 0
      BY <1>3, CallerShape DEF BucketRec
    <3>2. c \in Callers /\ c.pc = "spend" /\ c.b = g[i].b /\ c.t = g[i].t /\ c.cur = Mine(i).tokens
      BY <3>1, CallerShape DEF Callers, SlotPcs, BucketPcs
    <3> QED
      BY <3>1, <3>2
  <2> HIDE DEF c
  <2>3. Knows(c)
    BY <2>2, CallerShape DEF Knows, SlotPcs
  <2>4. Quiet(i, c, Mine(i))
    BY <1>1, <2>2 DEF Quiet
  <2>5. Moves(i, c, Mine(i))
    BY <1>1, <2>1, <2>2, <2>3, <2>4, CallerShape DEF Moves, Effect
  <2> QED
    BY <2>5
<1> QED
  BY <1>2, <1>3

LEMMA SpendMoves ==
  ASSUME GrayTypeInv, HoldInv, NEW i \in Goroutines, Spend(i) PROVE \E c, m : Moves(i, c, m)
<1>1. g[i].pc = "spend" /\ UNCHANGED <<now, decisions>>
  BY DEF Spend, At
<1>2. CASE Mine(i).tokens = g[i].cur
  <2>1. PICK k \in Nat : k = Mine(i).tokens - 1 /\ k <= Mine(i).tokens
    BY <1>1, <1>2, CallerShape DEF Knows, BucketRec
  <2> DEFINE m == [Mine(i) EXCEPT !.tokens = k]
             out == [IdleG EXCEPT !.verdict = "escalate"]
             on == [g[i] EXCEPT !.b = "global", !.pc = "last"]
             c == IF g[i].b = "global" THEN out ELSE on
  <2>2. bucket' = [bucket EXCEPT ![g[i].b] = m] /\ g' = [g EXCEPT ![i] = c]
        /\ escalated' = escalated + IF g[i].b = "global" THEN 1 ELSE 0
    BY <1>2, <2>1 DEF Spend, Mine
  <2>3. m \in BucketRec /\ m.tokens = k /\ m.last = Mine(i).last
    BY <2>1, BucketWritten, CallerShape
  <2>4. out \in Callers /\ out.pc = "idle" /\ out.t = 0
    BY IdleCaller
  <2>5. on \in Callers /\ on.pc = "last" /\ on.b = "global" /\ on.t = g[i].t
    BY ZenonT(30), CallerShape, GrayConstants DEF Callers, SlotPcs, BucketPcs
  <2> HIDE DEF m, out, on
  <2>6. c \in Callers /\ Knows(c) /\ c.pc \in {"idle", "last"} /\ (g[i].b = "global" => c.pc = "idle")
    BY <2>4, <2>5, CallerShape DEF Knows, SlotPcs
  <2> HIDE DEF c
  <2>7. Effect(i, c, m)
    <3>1. CASE g[i].b = "global"
      BY <1>1, <2>1, <2>2, <2>3, <2>6, <3>1 DEF Effect, SpentGlobal
    <3>2. CASE g[i].b # "global"
      <4>1. escalated' = escalated
        BY <2>2, <3>2 DEF GrayTypeInv
      <4> QED
        BY <1>1, <2>6, <3>2, <4>1 DEF Effect, Quiet
    <3> QED
      BY <3>1, <3>2
  <2>8. m.tokens <= Cap(g[i].b) /\ m.last <= now
    <3>1. Mine(i).tokens \in Nat /\ Mine(i).tokens <= Cap(g[i].b) /\ Cap(g[i].b) \in Nat /\ Mine(i).last <= now
      BY CallerShape, GrayConstants DEF BucketRec
    <3> QED
      BY <2>1, <2>3, <3>1
  <2>9. Moves(i, c, m)
    BY <1>1, <2>2, <2>3, <2>6, <2>7, <2>8 DEF Moves
  <2> QED
    BY <2>9
<1>3. CASE Mine(i).tokens # g[i].cur
  <2>1. bucket' = bucket /\ escalated' = escalated /\ GoTo(i, "take")
    BY <1>3 DEF Spend
  <2>2. PICK c \in Callers : g' = [g EXCEPT ![i] = c] /\ c.pc = "take" /\ c.b = g[i].b /\ c.t = g[i].t
    BY <2>1, StepTo DEF BucketPcs
  <2>3. Knows(c)
    BY <2>2, CallerShape DEF Knows, SlotPcs
  <2>4. Quiet(i, c, Mine(i))
    BY <1>1, <2>1, <2>2 DEF Quiet
  <2>5. Moves(i, c, Mine(i))
    BY <1>1, <2>1, <2>2, <2>3, <2>4, CallerShape DEF Moves, Effect
  <2> QED
    BY <2>5
<1> QED
  BY <1>2, <1>3

LEMMA AccessMoves ==
  ASSUME GrayTypeInv, HoldInv, NEW i \in Goroutines, Access(i) PROVE \E c, m : Moves(i, c, m)
  BY LoadOwnerMoves, LoadInactiveMoves, ClaimMoves, FillMoves, StampMoves, LoadLastMoves, WinMoves,
     LoadTokensMoves, RefillMoves, TakeTokenMoves, SpendMoves DEF Access

(* The buckets and the callers after an access.                            *)
LEMMA HoldStep ==
  ASSUME GrayTypeInv, HoldInv, NEW i \in Goroutines, Step(i), NEW c, NEW m, Moves(i, c, m)
  PROVE  GrayTypeInv' /\ HoldInv'
<1>1. /\ c \in Callers /\ m \in BucketRec
      /\ g' = [g EXCEPT ![i] = c] /\ bucket' = [bucket EXCEPT ![g[i].b] = m]
      /\ now' = now /\ decisions' = decisions
      /\ Knows(c) /\ m.tokens <= Cap(g[i].b) /\ m.last <= now
      /\ c.pc = "claim" => m = Mine(i) /\ c.b = g[i].b /\ (c.owner = "none" \/ c.t - m.last > 3 * Second)
      /\ Effect(i, c, m)
  BY DEF Moves
<1>2. g' \in [Goroutines -> Callers] /\ g'[i] = c /\ \A j \in Goroutines : j # i => g'[j] = g[j]
  BY <1>1, CallerShape
<1>3. bucket' \in [Buckets -> BucketRec] /\ bucket'[g[i].b] = m /\ \A b \in Buckets : b # g[i].b => bucket'[b] = bucket[b]
  BY <1>1, CallerShape
<1>4. alone' \in [Goroutines -> BOOLEAN]
      /\ \A j \in Goroutines : j # i /\ alone'[j] => alone[j] /\ bucket'[g[j].b] = bucket[g[j].b]
  BY DEF Step, GrayTypeInv
<1>5. escalated' \in Nat /\ raced' \in Nat
  <2>1. escalated' = escalated \/ escalated' = escalated + 1
    BY <1>1 DEF Effect, Quiet, WonGlobal, LoadedGlobal, StoredGlobal, SpentGlobal
  <2>2. raced' = raced \/ raced' = raced + 1
    BY DEF Step, GrayTypeInv
  <2> QED
    BY <2>1, <2>2 DEF GrayTypeInv
<1>6. GrayTypeInv'
  BY <1>1, <1>2, <1>3, <1>4, <1>5 DEF GrayTypeInv, BucketRec
<1>7. \A b \in Buckets : bucket'[b].tokens <= Cap(b) /\ bucket'[b].last <= now'
  BY <1>1, <1>3 DEF HoldInv
<1>8. ASSUME NEW j \in Goroutines PROVE Knows(g[j])' /\ Tested(g[j], alone[j])'
  <2>1. CASE j = i
    <3>1. Knows(g[i])'
      BY <1>1, <1>2 DEF Knows
    <3>2. Tested(g[i], alone[i])'
      BY <1>1, <1>2, <1>3 DEF Tested
    <3> QED
      BY <2>1, <3>1, <3>2
  <2>2. CASE j # i
    <3>1. g'[j] = g[j] /\ Knows(g[j]) /\ Tested(g[j], alone[j]) /\ (alone'[j] => alone[j] /\ bucket'[g[j].b] = bucket[g[j].b])
      BY <1>2, <1>4, <2>2 DEF HoldInv
    <3>2. Knows(g[j])'
      BY <1>1, <3>1 DEF Knows
    <3>3. Tested(g[j], alone[j])'
      BY <3>1 DEF Tested
    <3> QED
      BY <3>2, <3>3
  <2> QED
    BY <2>1, <2>2
<1>9. HoldInv'
  BY <1>7, <1>8 DEF HoldInv
<1> QED
  BY <1>6, <1>9

(* The seconds of one more pending refill.                                 *)
LEMMA PendingAdd ==
  ASSUME NEW P, IsFiniteSet(P), NEW i, NEW n \in Nat, \A x \in P : x[1] # i
  PROVE  /\ IsFiniteSet(P \cup ({i} \X (1 .. n)))
         /\ Cardinality(P \cup ({i} \X (1 .. n))) = Cardinality(P) + n
<1> DEFINE Q == {i} \X (1 .. n)
<1>1. IsFiniteSet(1 .. n) /\ Cardinality(1 .. n) = n
  <2>1. IsFiniteSet(1 .. n) /\ Cardinality(1 .. n) = IF 1 > n THEN 0 ELSE n - 1 + 1
    BY FS_Interval
  <2> QED
    BY <2>1
<1>2. IsFiniteSet({i}) /\ Cardinality({i}) = 1
  BY FS_Singleton
<1>3. IsFiniteSet(Q) /\ Cardinality(Q) = 1 * n
  BY <1>1, <1>2, FS_Product
<1>4. P \cap Q = {}
  OBVIOUS
<1> HIDE DEF Q
<1>5. IsFiniteSet(P \cup Q) /\ Cardinality(P \cup Q) = Cardinality(P) + Cardinality(Q) - Cardinality(P \cap Q)
  BY <1>3, FS_Union
<1>6. Cardinality(P \cap Q) = 0
  BY <1>4, FS_EmptySet
<1>7. Cardinality(P) \in Nat
  BY FS_CardinalityType
<1> QED
  BY <1>3, <1>5, <1>6, <1>7 DEF Q

LEMMA Product ==
  ASSUME NEW r \in Nat, NEW a \in Nat, NEW b \in Nat
  PROVE  /\ r * a \in Nat /\ r * (a + b) = r * a + r * b
         /\ a <= b => r * a <= r * b
<1>1. r * a \in Nat /\ r * (a + b) = r * a + r * b
  OBVIOUS
<1>2. ASSUME a <= b PROVE r * a <= r * b
  <2>1. PICK d \in Nat : b = a + d
    BY <1>2
  <2>2. r * (a + d) = r * a + r * d /\ r * d \in Nat /\ r * a \in Nat
    OBVIOUS
  <2> QED
    BY <2>1, <2>2
<1> QED
  BY <1>1, <1>2

(* The rate as numbers: what was let through, the tokens, the product of   *)
(* the pending seconds and of the elapsed ones.                            *)
Owed == RefillPerSec * Cardinality(Pending)
Earned == RefillPerSec * ((bucket["global"].last - T0) \div Second)

LEMMA RateNumbers ==
  ASSUME GrayInv
  PROVE  /\ escalated \in Nat /\ raced \in Nat /\ MaxBurst \in Nat /\ bucket["global"].tokens \in Nat
         /\ Cardinality(Pending) \in Nat /\ Owed \in Nat /\ Earned \in Nat /\ Limit = MaxBurst + Earned + raced
         /\ bucket["global"].last \in Nat /\ bucket["global"].last >= T0 /\ T0 \in Nat
         /\ escalated + bucket["global"].tokens + Owed <= MaxBurst + Earned + raced
         /\ \A j \in Goroutines : Refilling(j) =>
              escalated + g[j].cur + RefillPerSec * Gap(g[j]) + Owed <= MaxBurst + Earned + raced
<1>1. escalated \in Nat /\ raced \in Nat /\ bucket["global"] \in BucketRec
  BY GrayConstants DEF GrayInv, GrayTypeInv, BucketRec
<1>2. Cardinality(Pending) \in Nat
  BY FS_CardinalityType DEF GrayInv, RateInv
<1>3. bucket["global"].last \in Nat /\ bucket["global"].tokens \in Nat /\ bucket["global"].last >= T0
  BY <1>1 DEF BucketRec, GrayInv, RateInv
<1>4. bucket["global"].last - T0 \in Nat
  BY <1>3, GrayConstants
<1>5. (bucket["global"].last - T0) \div Second \in Nat
  BY <1>4, GrayConstants, DivSum
<1>6. Owed \in Nat /\ Earned \in Nat
  BY <1>2, <1>5, GrayConstants, Product DEF Owed, Earned
<1> QED
  BY <1>1, <1>2, <1>3, <1>6, GrayConstants DEF GrayInv, RateInv, Limit, Owed, Earned

(* RateInv from its numbers.                                               *)
LEMMA RateBack ==
  ASSUME IsFiniteSet(Pending)', bucket'["global"].last >= T0,
         escalated' + bucket'["global"].tokens + Owed' <= MaxBurst + Earned' + raced',
         \A j \in Goroutines : Refilling(j)' =>
           escalated' + g'[j].cur + RefillPerSec * Gap(g'[j]) + Owed' <= MaxBurst + Earned' + raced'
  PROVE  RateInv'
  BY DEF RateInv, Limit, Owed, Earned, Gap

LEMMA QuietRate ==
  ASSUME GrayInv, NEW i \in Goroutines, NEW c, NEW m, Moves(i, c, m), Quiet(i, c, m), raced' = raced
  PROVE  RateInv'
<1>1. g'[i] = c /\ \A j \in Goroutines : j # i => g'[j] = g[j]
  BY CallerShape DEF Moves, GrayInv
<1>2. bucket'["global"].tokens = bucket["global"].tokens /\ bucket'["global"].last = bucket["global"].last
  <2>1. CASE g[i].b = "global"
    BY <2>1, CallerShape DEF Moves, Quiet, GrayInv, Mine
  <2>2. CASE g[i].b # "global"
    BY <2>2, CallerShape, GrayConstants DEF Moves, GrayInv
  <2> QED
    BY <2>1, <2>2
<1>3. Pending' = Pending
  <2>1. \A j \in Goroutines : /\ (g'[j].pc = "load" /\ g'[j].b = "global") <=> (g[j].pc = "load" /\ g[j].b = "global")
                              /\ g[j].pc = "load" /\ g[j].b = "global" => g'[j] = g[j]
    BY <1>1 DEF Quiet
  <2> QED
    BY <2>1 DEF Pending
<1>4. \A j \in Goroutines : Refilling(j)' => Refilling(j) /\ g'[j] = g[j]
  BY <1>1 DEF Refilling, At, Quiet
<1>5. Owed' = Owed /\ Earned' = Earned /\ escalated' = escalated
  BY <1>2, <1>3 DEF Owed, Earned, Quiet
<1>6. IsFiniteSet(Pending)'
  BY <1>3 DEF GrayInv, RateInv
<1> QED
  BY <1>2, <1>4, <1>5, <1>6, RateNumbers, RateBack

(* A goroutine that wins a refill adds its seconds to both sides.          *)
LEMMA WonRate ==
  ASSUME GrayInv, NEW i \in Goroutines, NEW c, NEW m, Moves(i, c, m), WonGlobal(i, c, m), raced' = raced
  PROVE  RateInv'
<1>1. g'[i] = c /\ \A j \in Goroutines : j # i => g'[j] = g[j]
  BY CallerShape DEF Moves, GrayInv
<1>2. bucket'["global"] = m /\ m.tokens = bucket["global"].tokens /\ m.last = g[i].t
      /\ bucket["global"].last = g[i].last
  BY CallerShape DEF Moves, GrayInv, WonGlobal, Mine
<1>3. PICK d \in Nat : d = g[i].t - g[i].last /\ d > Second
  <2>1. g[i].t \in Nat /\ g[i].last \in Nat /\ g[i].t - g[i].last > Second
    BY CallerShape DEF GrayInv, Knows, Callers, WonGlobal
  <2> QED
    BY <2>1, GrayConstants
<1>4. PICK n \in Nat : n = d \div Second /\ n = Gap(c)
  BY <1>3, GrayConstants, DivSum DEF Gap, WonGlobal
<1>5. Pending' = Pending \cup ({i} \X (1 .. n)) /\ \A x \in Pending : x[1] # i
  <2>1. c.pc = "load" /\ c.b = "global" /\ g[i].pc = "win"
    BY DEF WonGlobal
  <2>2. \A x \in Pending : x[1] # i
    BY <2>1 DEF Pending
  <2>3. \A x \in Goroutines \X Nat : x \in Pending' <=> x \in Pending \/ (x[1] = i /\ x[2] \in 1 .. n)
    BY <1>1, <1>4, <2>1, <2>2 DEF Pending, Gap
  <2>4. Pending' \subseteq Goroutines \X Nat /\ Pending \subseteq Goroutines \X Nat
    BY DEF Pending
  <2> QED
    BY <2>2, <2>3, <2>4
<1>6. IsFiniteSet(Pending') /\ Cardinality(Pending') = Cardinality(Pending) + n
  BY <1>5, PendingAdd DEF GrayInv, RateInv
<1>7. Owed' = Owed + RefillPerSec * n
  BY <1>6, RateNumbers, GrayConstants, Product DEF Owed
<1>8. Earned' >= Earned + RefillPerSec * n /\ bucket'["global"].last >= T0 /\ Earned' \in Nat
  <2>1. PICK e \in Nat : e = bucket["global"].last - T0
    BY RateNumbers
  <2>2. bucket'["global"].last - T0 = e + d /\ bucket'["global"].last >= T0
    <3>1. bucket["global"].last \in Nat /\ bucket["global"].last >= T0 /\ T0 \in Nat
      BY RateNumbers
    <3>2. m.last = bucket["global"].last + d
      <4>1. g[i].t \in Nat /\ g[i].last \in Nat
        BY CallerShape DEF GrayInv, Callers
      <4> QED
        BY <1>2, <1>3, <4>1
    <3> QED
      BY <1>2, <2>1, <3>1, <3>2
  <2>3. PICK u \in Nat, v \in Nat : u = e \div Second /\ v = (e + d) \div Second /\ u + n <= v
    <3>1. e \div Second \in Nat /\ e \div Second + d \div Second <= (e + d) \div Second
      BY DivSum, GrayConstants
    <3>2. e + d \in Nat
      OBVIOUS
    <3>3. (e + d) \div Second \in Nat
      BY <3>2, DivSum, GrayConstants
    <3> QED
      BY <1>4, <3>1, <3>3
  <2>4. RefillPerSec * (u + n) = RefillPerSec * u + RefillPerSec * n /\ RefillPerSec * (u + n) <= RefillPerSec * v
        /\ RefillPerSec * v \in Nat
    BY <2>3, Product, GrayConstants
  <2> QED
    BY <2>1, <2>2, <2>3, <2>4 DEF Earned
<1>9. PICK k \in Nat : k = RefillPerSec * n
  BY Product, GrayConstants
<1>10. \A j \in Goroutines : Refilling(j)' => Refilling(j) /\ g'[j] = g[j]
  BY <1>1 DEF Refilling, At, WonGlobal
<1>11. escalated' = escalated
  BY DEF WonGlobal
<1>12. escalated' + bucket'["global"].tokens + Owed' <= MaxBurst + Earned' + raced'
  BY <1>2, <1>7, <1>8, <1>9, <1>11, RateNumbers
<1>13. ASSUME NEW j \in Goroutines, Refilling(j)'
       PROVE  escalated' + g'[j].cur + RefillPerSec * Gap(g'[j]) + Owed' <= MaxBurst + Earned' + raced'
  <2>1. escalated + g[j].cur + RefillPerSec * Gap(g[j]) + Owed <= MaxBurst + Earned + raced
    BY <1>10, <1>13, RateNumbers
  <2>2. PICK x \in Nat : x = g[j].cur
    BY CallerShape DEF GrayInv, Callers
  <2>3. PICK y \in Nat : y = RefillPerSec * Gap(g[j])
    <3>1. g[j].t \in Nat /\ g[j].last \in Nat /\ g[j].t - g[j].last > Second
      BY <1>10, <1>13, CallerShape DEF GrayInv, Callers, Knows, Refilling, At
    <3>2. g[j].t - g[j].last \in Nat
      BY <3>1, GrayConstants
    <3>3. Gap(g[j]) \in Nat
      BY <3>2, DivSum, GrayConstants DEF Gap
    <3> QED
      BY <3>3, Product, GrayConstants
  <2>4. g'[j] = g[j]
    BY <1>10, <1>13
  <2> QED
    BY <1>7, <1>8, <1>9, <1>11, <2>1, <2>2, <2>3, <2>4, RateNumbers
<1>14. IsFiniteSet(Pending)'
  BY <1>6
<1> QED
  BY <1>8, <1>12, <1>13, <1>14, RateBack

(* What a refill under way adds.                                           *)
LEMMA GapNumber ==
  ASSUME GrayInv, NEW j \in Goroutines, g[j].pc \in {"load", "refill"}
  PROVE  Gap(g[j]) \in Nat /\ RefillPerSec * Gap(g[j]) \in Nat /\ g[j].cur \in Nat
<1>1. g[j].t \in Nat /\ g[j].last \in Nat /\ g[j].t - g[j].last > Second /\ g[j].cur \in Nat
  BY CallerShape DEF GrayInv, Callers, Knows
<1>2. g[j].t - g[j].last \in Nat
  BY <1>1, GrayConstants
<1>3. Gap(g[j]) \in Nat
  BY <1>2, DivSum, GrayConstants DEF Gap
<1> QED
  BY <1>1, <1>3, Product, GrayConstants

(* A refill that loads the tokens takes its seconds in its own hands.      *)
LEMMA LoadedRate ==
  ASSUME GrayInv, NEW i \in Goroutines, NEW c, NEW m, Moves(i, c, m), LoadedGlobal(i, c, m), raced' = raced
  PROVE  RateInv'
<1>1. g'[i] = c /\ \A j \in Goroutines : j # i => g'[j] = g[j]
  BY CallerShape DEF Moves, GrayInv
<1>2. bucket'["global"] = bucket["global"] /\ c.cur = bucket["global"].tokens /\ Gap(c) = Gap(g[i]) /\ escalated' = escalated
      /\ g[i].pc = "load" /\ g[i].b = "global" /\ c.pc = "refill"
  BY CallerShape DEF Moves, GrayInv, LoadedGlobal, Mine, Gap
<1>3. PICK n \in Nat : n = Gap(g[i])
  BY <1>2, GapNumber
<1>4. Pending = Pending' \cup ({i} \X (1 .. n)) /\ \A x \in Pending' : x[1] # i
  <2>1. \A x \in Pending' : x[1] # i
    BY <1>1, <1>2 DEF Pending
  <2>2. \A x \in Goroutines \X Nat : x \in Pending <=> x \in Pending' \/ (x[1] = i /\ x[2] \in 1 .. n)
    BY <1>1, <1>2, <1>3, <2>1 DEF Pending, Gap
  <2>3. Pending' \subseteq Goroutines \X Nat /\ Pending \subseteq Goroutines \X Nat
    BY DEF Pending
  <2> QED
    BY <2>1, <2>2, <2>3
<1>5. IsFiniteSet(Pending')
  BY <1>4, FS_Subset DEF GrayInv, RateInv
<1>6. Cardinality(Pending) = Cardinality(Pending') + n /\ Cardinality(Pending') \in Nat
  BY <1>4, <1>5, PendingAdd, FS_CardinalityType
<1>7. Owed = Owed' + RefillPerSec * n /\ Owed' \in Nat /\ RefillPerSec * n \in Nat
  BY <1>6, GrayConstants, Product DEF Owed
<1>8. Earned' = Earned
  BY <1>2 DEF Earned
<1>9. PICK k \in Nat : k = RefillPerSec * n
  BY <1>7
<1>10. escalated' + bucket'["global"].tokens + Owed' <= MaxBurst + Earned' + raced'
  BY <1>2, <1>7, <1>8, <1>9, RateNumbers
<1>11. ASSUME NEW j \in Goroutines, Refilling(j)'
       PROVE  escalated' + g'[j].cur + RefillPerSec * Gap(g'[j]) + Owed' <= MaxBurst + Earned' + raced'
  <2>1. CASE j = i
    <3>1. g'[j].cur = bucket["global"].tokens /\ RefillPerSec * Gap(g'[j]) = k
      BY <1>1, <1>2, <1>3, <1>9, <2>1
    <3> QED
      BY <1>2, <1>7, <1>8, <1>9, <3>1, RateNumbers
  <2>2. CASE j # i
    <3>1. g'[j] = g[j] /\ Refilling(j)
      BY <1>1, <1>11, <2>2 DEF Refilling, At
    <3>2. PICK x \in Nat, y \in Nat : x = g[j].cur /\ y = RefillPerSec * Gap(g[j])
      BY <3>1, GapNumber DEF Refilling, At
    <3>3. escalated + x + y + Owed <= MaxBurst + Earned + raced
      BY <3>1, <3>2, RateNumbers
    <3> QED
      BY <1>2, <1>7, <1>8, <1>9, <3>1, <3>2, <3>3, RateNumbers
  <2> QED
    BY <2>1, <2>2
<1>12. IsFiniteSet(Pending)' /\ bucket'["global"].last >= T0
  BY <1>2, <1>5, RateNumbers
<1> QED
  BY <1>10, <1>11, <1>12, RateBack

(* Steps that leave the pending refills and the time of the last one.      *)
LEMMA SamePending ==
  ASSUME GrayInv, NEW i \in Goroutines, NEW c, NEW m, Moves(i, c, m),
         g[i].b = "global", g[i].pc # "load", c.pc \notin {"load", "refill"}, m.last = Mine(i).last
  PROVE  /\ IsFiniteSet(Pending)' /\ Owed' = Owed /\ Earned' = Earned
         /\ bucket'["global"] = m /\ bucket'["global"].last >= T0
         /\ \A j \in Goroutines : Refilling(j)' => Refilling(j) /\ g'[j] = g[j] /\ j # i
<1>1. g'[i] = c /\ \A j \in Goroutines : j # i => g'[j] = g[j]
  BY CallerShape DEF Moves, GrayInv
<1>2. bucket'["global"] = m /\ bucket'["global"].last = bucket["global"].last
  BY CallerShape DEF Moves, GrayInv, Mine
<1>3. Pending' = Pending
  <2>1. \A j \in Goroutines : /\ (g'[j].pc = "load" /\ g'[j].b = "global") <=> (g[j].pc = "load" /\ g[j].b = "global")
                              /\ g[j].pc = "load" /\ g[j].b = "global" => g'[j] = g[j]
    BY <1>1
  <2> QED
    BY <2>1 DEF Pending
<1>4. \A j \in Goroutines : Refilling(j)' => Refilling(j) /\ g'[j] = g[j] /\ j # i
  BY <1>1 DEF Refilling, At
<1> QED
  BY <1>2, <1>3, <1>4, RateNumbers DEF Owed, Earned, GrayInv, RateInv

LEMMA StoredRate ==
  ASSUME GrayInv, NEW i \in Goroutines, NEW c, NEW m, Moves(i, c, m), StoredGlobal(i, c, m), raced' = raced
  PROVE  RateInv'
<1>1. /\ IsFiniteSet(Pending)' /\ Owed' = Owed /\ Earned' = Earned
      /\ bucket'["global"] = m /\ bucket'["global"].last >= T0
      /\ \A j \in Goroutines : Refilling(j)' => Refilling(j) /\ g'[j] = g[j] /\ j # i
  BY SamePending DEF StoredGlobal
<1>2. Refilling(i) /\ escalated' = escalated /\ m.tokens <= g[i].cur + RefillPerSec * Gap(g[i])
  BY DEF StoredGlobal, Refilling, At
<1>3. PICK x \in Nat, y \in Nat : x = g[i].cur /\ y = RefillPerSec * Gap(g[i])
  BY <1>2, GapNumber DEF Refilling, At
<1>4. escalated + x + y + Owed <= MaxBurst + Earned + raced
  BY <1>2, <1>3, RateNumbers
<1>5. PICK z \in Nat : z = m.tokens
  BY DEF Moves, BucketRec
<1>6. escalated' + bucket'["global"].tokens + Owed' <= MaxBurst + Earned' + raced'
  BY <1>1, <1>2, <1>3, <1>4, <1>5, RateNumbers
<1>7. \A j \in Goroutines : Refilling(j)' =>
        escalated' + g'[j].cur + RefillPerSec * Gap(g'[j]) + Owed' <= MaxBurst + Earned' + raced'
  BY <1>1, <1>2, RateNumbers
<1> QED
  BY <1>1, <1>6, <1>7, RateBack

(* An escalation is paid by a token, and the refills under way that will   *)
(* store a count loaded before it are what raced counts.                   *)
LEMMA SpentRate ==
  ASSUME GrayInv, NEW i \in Goroutines, NEW c, NEW m, Moves(i, c, m), SpentGlobal(i, c, m), Step(i)
  PROVE  RateInv'
<1>1. /\ IsFiniteSet(Pending)' /\ Owed' = Owed /\ Earned' = Earned
      /\ bucket'["global"] = m /\ bucket'["global"].last >= T0
      /\ \A j \in Goroutines : Refilling(j)' => Refilling(j) /\ g'[j] = g[j] /\ j # i
  BY SamePending DEF SpentGlobal
<1>2. escalated' = escalated + 1 /\ m.tokens = bucket["global"].tokens - 1 /\ escalated' > escalated
  BY RateNumbers DEF SpentGlobal, Mine
<1>3. raced' = raced + IF \E j \in Goroutines \ {i} : Refilling(j) THEN 1 ELSE 0
  BY <1>2 DEF Step
<1>4. raced' \in Nat /\ raced' >= raced
  BY <1>3, RateNumbers
<1>5. escalated' + bucket'["global"].tokens + Owed' <= MaxBurst + Earned' + raced'
  BY <1>1, <1>2, <1>4, RateNumbers
<1>6. ASSUME NEW j \in Goroutines, Refilling(j)'
      PROVE  escalated' + g'[j].cur + RefillPerSec * Gap(g'[j]) + Owed' <= MaxBurst + Earned' + raced'
  <2>1. Refilling(j) /\ g'[j] = g[j] /\ raced' = raced + 1
    BY <1>1, <1>3, <1>6
  <2>2. PICK x \in Nat, y \in Nat : x = g[j].cur /\ y = RefillPerSec * Gap(g[j])
    BY <2>1, GapNumber DEF Refilling, At
  <2>3. escalated + x + y + Owed <= MaxBurst + Earned + raced
    BY <2>1, <2>2, RateNumbers
  <2> QED
    BY <1>1, <1>2, <2>1, <2>2, <2>3, RateNumbers
<1> QED
  BY <1>1, <1>5, <1>6, RateBack

LEMMA StepInv ==
  ASSUME GrayInv, NEW i \in Goroutines, Step(i) PROVE GrayInv'
<1>1. GrayTypeInv /\ HoldInv
  BY DEF GrayInv
<1>2. PICK c, m : Moves(i, c, m)
  BY <1>1, AccessMoves DEF Step
<1>3. GrayTypeInv' /\ HoldInv'
  BY <1>1, <1>2, HoldStep
<1>4. escalated' = escalated => raced' = raced
  BY RateNumbers DEF Step
<1>5. RateInv'
  <2>1. CASE Quiet(i, c, m)
    BY <1>2, <1>4, <2>1, QuietRate DEF Quiet
  <2>2. CASE WonGlobal(i, c, m)
    BY <1>2, <1>4, <2>2, WonRate DEF WonGlobal
  <2>3. CASE LoadedGlobal(i, c, m)
    BY <1>2, <1>4, <2>3, LoadedRate DEF LoadedGlobal
  <2>4. CASE StoredGlobal(i, c, m)
    BY <1>2, <1>4, <2>4, StoredRate DEF StoredGlobal
  <2>5. CASE SpentGlobal(i, c, m)
    BY <1>2, <2>5, SpentRate
  <2> QED
    BY <1>2, <2>1, <2>2, <2>3, <2>4, <2>5 DEF Moves, Effect
<1> QED
  BY <1>3, <1>5 DEF GrayInv

LEMMA DecideInv ==
  ASSUME GrayInv, NEW i \in Goroutines, NEW s \in Sources, NEW onto, NEW dist, DecideWithSource(i, s, onto, dist)
  PROVE  GrayInv'
<1> DEFINE v == Settled(onto, dist)
           out == [IdleG EXCEPT !.verdict = v]
           on == [IdleG EXCEPT !.pc = "owner", !.b = SlotOf[s], !.src = s]
           c == IF v # "gray" THEN out ELSE on
<1>1. GrayTypeInv /\ HoldInv /\ RateInv
  BY DEF GrayInv
<1>2. g[i].pc = "idle" /\ g' = [g EXCEPT ![i] = c] /\ UNCHANGED <<now, bucket, escalated, raced>>
      /\ decisions' = decisions + 1 /\ alone' = [alone EXCEPT ![i] = TRUE]
      /\ decisions < IF overlap' THEN MaxConcurrent ELSE MaxDecisions
  BY DEF DecideWithSource, counters
<1>3. v \in {"drop", "pass", "gray"}
  BY DEF Settled
<1>4. v # "gray" => out \in Callers /\ out.pc = "idle" /\ out.t = 0
  BY <1>3, IdleCaller
<1>5. on \in Callers /\ on.pc = "owner" /\ on.b \in Slots /\ on.t = 0
  <2>1. SlotOf[s] \in Slots /\ SlotOf[s] \in Buckets /\ s \in Owners /\ "owner" \in {"idle"} \cup SlotPcs \cup BucketPcs
    BY GrayConstants DEF Owners, SlotPcs
  <2>2. IdleG \in Callers /\ IdleG.t = 0
    BY IdleCaller DEF IdleG
  <2>3. on \in Callers /\ on.pc = "owner" /\ on.b = SlotOf[s] /\ on.t = IdleG.t
    BY <2>1, <2>2 DEF Callers
  <2> QED
    BY <2>1, <2>2, <2>3
<1> HIDE DEF v, out, on
<1>6. c \in Callers /\ c.pc \in {"idle", "owner"} /\ (c.pc = "owner" => c.b \in Slots) /\ c.t = 0
  BY <1>4, <1>5
<1> HIDE DEF c
<1>7. g' \in [Goroutines -> Callers] /\ g'[i] = c /\ \A j \in Goroutines : j # i => g'[j] = g[j]
  BY <1>1, <1>2, <1>6 DEF GrayTypeInv
<1>8. decisions' \in Nat /\ decisions' <= MaxDecisions
  BY <1>1, <1>2, GrayZoneAssumption DEF GrayTypeInv
<1>9. GrayTypeInv'
  BY <1>1, <1>2, <1>7, <1>8 DEF GrayTypeInv
<1>10. \A j \in Goroutines : Knows(g[j])' /\ Tested(g[j], alone[j])'
  <2>1. Knows(g[i])' /\ Tested(g[i], alone[i])'
    BY <1>1, <1>2, <1>6, <1>7 DEF Knows, Tested, SlotPcs, GrayTypeInv
  <2>2. ASSUME NEW j \in Goroutines, j # i PROVE Knows(g[j])' /\ Tested(g[j], alone[j])'
    <3>1. g'[j] = g[j] /\ alone'[j] = alone[j] /\ Knows(g[j]) /\ Tested(g[j], alone[j])
      BY <1>1, <1>2, <1>7, <2>2 DEF GrayTypeInv, HoldInv
    <3> QED
      BY <1>2, <3>1 DEF Knows, Tested
  <2> QED
    BY <2>1, <2>2
<1>11. HoldInv'
  BY <1>1, <1>2, <1>10 DEF HoldInv
<1>12. Pending' = Pending
  <2>1. \A j \in Goroutines : /\ (g'[j].pc = "load" /\ g'[j].b = "global") <=> (g[j].pc = "load" /\ g[j].b = "global")
                              /\ g[j].pc = "load" /\ g[j].b = "global" => g'[j] = g[j]
    BY <1>2, <1>6, <1>7
  <2> QED
    BY <2>1 DEF Pending
<1>13. \A j \in Goroutines : Refilling(j)' => Refilling(j) /\ g'[j] = g[j]
  BY <1>6, <1>7 DEF Refilling, At
<1>14. RateInv'
  BY <1>1, <1>2, <1>12, <1>13 DEF RateInv, Limit
<1> QED
  BY <1>9, <1>11, <1>14 DEF GrayInv

LEMMA TickInv ==
  ASSUME GrayInv, Tick PROVE GrayInv'
<1>1. UNCHANGED <<bucket, g, escalated, raced, alone, decisions>> /\ now' \in now + 1 .. TEnd
  BY DEF Tick, counters, history
<1>2. now \in Nat /\ now' \in Nat /\ now <= now' /\ T0 <= now' /\ now' <= TEnd
  BY <1>1, GrayZoneAssumption DEF GrayInv, GrayTypeInv
<1>3. GrayTypeInv'
  BY <1>1, <1>2 DEF GrayInv, GrayTypeInv
<1>4. \A x \in Nat : x <= now => x <= now'
  BY <1>2
<1>5. \A b \in Buckets : bucket[b].last \in Nat /\ bucket[b].last <= now /\ bucket[b].tokens <= Cap(b)
  BY DEF GrayInv, GrayTypeInv, HoldInv
<1>6. \A j \in Goroutines : g[j].t \in Nat /\ Knows(g[j]) /\ Tested(g[j], alone[j])
  BY DEF GrayInv, GrayTypeInv, HoldInv, Callers
<1>7. HoldInv'
  BY <1>1, <1>4, <1>5, <1>6 DEF HoldInv, Knows, Tested
<1>8. RateInv'
  BY <1>1 DEF GrayInv, RateInv, Limit, Pending, Refilling, At
<1> QED
  BY <1>3, <1>7, <1>8 DEF GrayInv

LEMMA GrayInvariance == GraySpec => []GrayInv
<1>1. ASSUME GrayInv, [GrayNext]_grayVars PROVE GrayInv'
  <2>1. CASE UNCHANGED grayVars
    BY <1>1, <2>1 DEF grayVars, counters, history, GrayInv, GrayTypeInv, HoldInv, Knows, Tested, RateInv, Limit,
                      Pending, Refilling, At
  <2>2. CASE Tick
    BY <1>1, <2>2, TickInv
  <2>3. ASSUME NEW i \in Goroutines, Step(i) PROVE GrayInv'
    BY <1>1, <2>3, StepInv
  <2>4. ASSUME NEW i \in Goroutines, NEW s \in Sources, NEW onto \in {"deny", "allow", "ambiguous"},
               NEW dist \in {"strict", "far", "none"}, DecideWithSource(i, s, onto, dist)
        PROVE  GrayInv'
    BY <1>1, <2>4, DecideInv
  <2> QED
    BY <1>1, <2>1, <2>2, <2>3, <2>4 DEF GrayNext
<1> QED
  BY <1>1, GrayInitially, PTL DEF GraySpec

LEMMA LawHolds == GrayInv => BucketLaw
<1> SUFFICES ASSUME GrayInv PROVE BucketLaw
  OBVIOUS
<1>1. BucketTypeOK
  <2>1. now \in T0 .. TEnd /\ decisions \in 0 .. MaxDecisions
    BY GrayZoneAssumption DEF GrayInv, GrayTypeInv
  <2>2. ASSUME NEW b \in Buckets
        PROVE  bucket[b].tokens \in 0 .. Cap(b) /\ bucket[b].src \in Sources \cup {"none"} /\ bucket[b].last \in 0 .. TEnd
    <3>1. bucket[b].tokens \in Nat /\ bucket[b].last \in Nat /\ bucket[b].src \in Owners
          /\ bucket[b].tokens <= Cap(b) /\ bucket[b].last <= now /\ now <= TEnd /\ now \in Nat
      BY <2>2 DEF GrayInv, GrayTypeInv, HoldInv
    <3> QED
      BY <3>1, <2>2, GrayConstants, GrayZoneAssumption DEF Owners
  <2>3. \A i \in Goroutines : g[i].b \in Buckets /\ g[i].src \in Sources \cup {"none"}
    BY DEF GrayInv, GrayTypeInv, Callers, Owners
  <2> QED
    BY <2>1, <2>2, <2>3 DEF BucketTypeOK
<1>2. RateLaw
  <2>1. now \in Nat /\ bucket["global"].last <= now /\ bucket["global"].last >= T0 /\ bucket["global"].last \in Nat /\ T0 \in Nat
    BY GrayConstants, RateNumbers DEF GrayInv, GrayTypeInv, HoldInv
  <2>2. PICK a \in Nat, b \in Nat : a = bucket["global"].last - T0 /\ b = now - T0 /\ a <= b
    BY <2>1
  <2>3. PICK x \in Nat, y \in Nat : x = a \div Second /\ y = b \div Second /\ x <= y
    BY <2>2, DivMonotone, GrayConstants
  <2>4. RefillPerSec * x <= RefillPerSec * y /\ RefillPerSec * x \in Nat /\ RefillPerSec * y \in Nat
    BY <2>3, Product, GrayConstants
  <2>5. PICK u \in Nat, v \in Nat : u = RefillPerSec * x /\ v = RefillPerSec * y /\ u <= v
    BY <2>4
  <2>6. Earned = u
    BY <2>2, <2>3, <2>5 DEF Earned
  <2>7. escalated <= MaxBurst + v + raced
    BY <2>5, <2>6, RateNumbers
  <2> QED
    BY <2>2, <2>3, <2>5, <2>7 DEF RateLaw
<1> QED
  BY <1>1, <1>2 DEF BucketLaw

(* A claim that succeeds on the slot of another source.                    *)
LEMMA SlotStep ==
  ASSUME GrayInv, [GrayNext]_grayVars, NEW b \in Slots, NEW i \in Goroutines,
         bucket'[b].src # bucket[b].src, bucket[b].src # "none",
         At(i, "claim"), g'[i].pc = "fill", g[i].b = b, alone[i]
  PROVE  now - bucket[b].last > 3 * Second
<1>1. GrayTypeInv /\ HoldInv
  BY DEF GrayInv
<1>2. ~UNCHANGED grayVars /\ ~Tick
  BY DEF Tick, grayVars, At
<1>3. ASSUME NEW j \in Goroutines, NEW s \in Sources, NEW onto, NEW dist, DecideWithSource(j, s, onto, dist) PROVE FALSE
  BY <1>3 DEF DecideWithSource
<1>4. PICK j \in Goroutines : Step(j)
  BY <1>2, <1>3 DEF GrayNext
<1>5. PICK c, m : Moves(j, c, m)
  BY <1>1, <1>4, AccessMoves DEF Step
<1>6. j = i
  BY <1>1, <1>5, CallerShape DEF Moves, At
<1>7. Mine(i).src = g[i].owner
  <2>1. Access(i) /\ g[i].pc = "claim"
    BY <1>4, <1>6 DEF Step, At
  <2>2. Claim(i)
    BY <2>1 DEF Access, At, LoadOwner, LoadInactive, Fill, Stamp, LoadLast, Win, LoadTokens, Refill, TakeToken, Spend
  <2>3. CASE Mine(i).src # g[i].owner
    <3>1. bucket' = bucket
      BY <2>2, <2>3 DEF Claim
    <3> QED
      BY <3>1
  <2> QED
    BY <2>3
<1>8. g[i].t - bucket[b].last > 3 * Second
  BY <1>1, <1>7 DEF HoldInv, Tested, At, Mine
<1>9. g[i].t \in Nat /\ g[i].t <= now /\ now \in Nat /\ bucket[b].last \in Nat
  BY <1>1, CallerShape, GrayConstants DEF Callers, Knows, GrayTypeInv
<1>10. PICK k \in Nat : k = 3 * Second
  BY GrayConstants
<1> QED
  BY <1>8, <1>9, <1>10

(* Of the token buckets, for any number of goroutines, sources and slots   *)
(* and any rates: no access takes a bucket below zero or above its cap,    *)
(* the slow path receives at most the burst, what the elapsed seconds      *)
(* added and the escalations that raced with a refill, and the slot of a   *)
(* source that was refilled in the last three seconds is not taken.        *)
THEOREM BucketsAreLawful == GraySpec => BucketsHold
<1>1. GraySpec => []BucketLaw
  BY GrayInvariance, LawHolds, PTL
<1>2. GraySpec => ActiveSlotKept
  <2>1. ASSUME GrayInv, [GrayNext]_grayVars
        PROVE  [\A b \in Slots, i \in Goroutines :
                  /\ bucket'[b].src # bucket[b].src /\ bucket[b].src # "none"
                  /\ At(i, "claim") /\ g'[i].pc = "fill" /\ g[i].b = b /\ alone[i]
                  => now - bucket[b].last > 3 * Second]_grayVars
    BY <2>1, SlotStep
  <2> QED
    BY <2>1, GrayInvariance, PTL DEF GraySpec, ActiveSlotKept
<1> QED
  BY <1>1, <1>2 DEF BucketsHold

-----------------------------------------------------------------------------
(* The disks that the cascade mounts.                                      *)

(* What the disks, the files and the runs hold.                            *)
MACs == [key : {Key, "none"}, body : SUBSET Centroids, header : Radii \cup {0}]
Images == [body : SUBSET Centroids, radius : Radii, crc : SUBSET Centroids, sealed : BOOLEAN, mac : MACs]
Composed == {Image(c, x, Key) : c \in SUBSET Centroids, x \in Radii}
Files == [img : Images, blocks : 0 .. 2, synced : BOOLEAN]
Paths == {"base", "out"}
Saving == {"write", "sync", "rename"}
RunPcs == {"idle", "load", "hash", "discover", "temp", "check", "publish", "loadOut", "prove"} \cup Saving
Run == [pc : RunPcs, target : {"base", "stg"}, img : Images, tmp : Nat, stg : Nat, base0 : Nat,
        base : Nat, baseHash : Nat, outHash : Nat, new : Nat, quiet : BOOLEAN]
Guarded == Strict \/ Key # "none"

(* Types: every file that is named, loaded or remembered exists.           *)
DiskTypeInv ==
  /\ ino \in Seq(Files)
  /\ names \in [Paths -> 0 .. Len(ino)]
  /\ past \in [Paths -> SUBSET (0 .. Len(ino))]
  /\ run \in [Forgers \cup Deltas -> Run]
  /\ reader \in [Readers -> [pc : {"idle", "mapped", "loaded"}, file : 0 .. Len(ino)]]
  /\ deltaProofs \subseteq [base : 0 .. Len(ino), out : 0 .. Len(ino), proven : BOOLEAN, alone : BOOLEAN]
  /\ made \subseteq Composed
  /\ saves \in Nat /\ losses \in Nat /\ damages \in Nat

(* The seal of every file, damaged or not, is that of a disk that was      *)
(* composed: the medium computes no HMAC.                                  *)
SealInv == \A k \in 1 .. Len(ino) : \E m \in made : ino[k].img.mac = m.mac

(* Every file that a path names, or may name again after a power loss, is  *)
(* whole and synced; the base path always names one.                       *)
PublishedInv ==
  /\ \A n \in Paths : names[n] \in past[n]
  /\ \A n \in Paths : \A k \in past[n] : k # 0 => ino[k].blocks = 2 /\ ino[k].synced
  /\ 0 \notin past.base

(* What a run knows at each step: an ended run is as at the start; its     *)
(* temporary file grows block by block, is whole before it is synced and   *)
(* synced before it is renamed; its staging file is whole and synced.      *)
RunOK(i) ==
  /\ run[i].pc = "idle" => run[i] = IdleRun
  /\ run[i].pc = "temp" => run[i].img \in made
  /\ run[i].tmp # 0 <=> run[i].pc \in Saving
  /\ run[i].tmp \in 0 .. Len(ino) /\ run[i].stg \in 0 .. Len(ino)
  /\ run[i].base0 \in 0 .. Len(ino) /\ run[i].base \in 0 .. Len(ino) /\ run[i].new \in 0 .. Len(ino)
  /\ run[i].baseHash \in 0 .. Len(ino) /\ run[i].outHash \in 0 .. Len(ino)
  /\ run[i].pc = "write" => ino[run[i].tmp].blocks \in {0, 1}
  /\ run[i].pc \in {"sync", "rename"} => ino[run[i].tmp].blocks = 2
  /\ run[i].pc = "rename" => ino[run[i].tmp].synced
  /\ run[i].pc \in {"check", "publish"} =>
       run[i].stg # 0 /\ ino[run[i].stg].blocks = 2 /\ ino[run[i].stg].synced
  /\ run[i].pc \in {"hash", "discover"} => run[i].base # 0

RunInv == \A i \in Forgers \cup Deltas : RunOK(i)

(* Two runs never write one temporary file.                                *)
TmpInv == \A i, j \in Forgers \cup Deltas : i # j /\ run[i].tmp # 0 => run[i].tmp # run[j].tmp

(* What was loaded under a key, or in strict mode, was composed.           *)
LoadInv == Guarded =>
  /\ \A j \in Readers : reader[j].pc = "loaded" => reader[j].file # 0 /\ ino[reader[j].file].img \in made
  /\ \A i \in Forgers \cup Deltas : \A k \in {run[i].base0, run[i].base, run[i].new} \ {0} : ino[k].img \in made

(* A run that nobody disturbed still has its base at the base path; the    *)
(* hashes it took are those of the disks it measures.                      *)
QuietOK(i) ==
  run[i].quiet =>
    /\ run[i].pc \in Saving \cup {"temp"} => run[i].target = "stg"
    /\ run[i].base0 # 0 /\ run[i].base0 = names.base
    /\ run[i].pc \notin {"load", "hash"} => run[i].baseHash = run[i].base0
    /\ run[i].pc = "publish" => run[i].outHash = run[i].stg
    /\ run[i].pc = "loadOut" => run[i].outHash # 0 /\ run[i].outHash = names.out
    /\ run[i].pc = "prove" => run[i].outHash # 0 /\ run[i].outHash = run[i].new

QuietInv == \A i \in Forgers \cup Deltas : QuietOK(i)

(* The inductive invariant.                                                *)
DisksInv == /\ DiskTypeInv /\ SealInv /\ PublishedInv /\ RunInv /\ TmpInv /\ LoadInv
            /\ QuietInv /\ ProofDescribes

(* What SaveFloppyFile composes.                                           *)
LEMMA ImageFacts ==
  ASSUME NEW c \in SUBSET Centroids, NEW x \in Radii
  PROVE  /\ Image(c, x, Key) \in Images
         /\ Image(c, x, Key).body = c /\ Image(c, x, Key).radius = x /\ Image(c, x, Key).crc = c
         /\ Image(c, x, Key).sealed = (Key # "none")
         /\ Key # "none" => Image(c, x, Key).mac = [key |-> Key, body |-> c, header |-> x]
  BY DEF Image, Images, MACs, MAC, CRC

(* A run that has not begun, or has ended.                                 *)
LEMMA IdleFacts ==
  /\ IdleRun \in Run /\ IdleRun.pc = "idle" /\ IdleRun.tmp = 0 /\ IdleRun.stg = 0 /\ ~IdleRun.quiet
  /\ IdleRun.base0 = 0 /\ IdleRun.base = 0 /\ IdleRun.new = 0 /\ IdleRun.baseHash = 0 /\ IdleRun.outHash = 0
  /\ IdleRun.target = "base"
  <1>1. (CHOOSE x \in Radii : TRUE) \in Radii
    BY FloppyStoreAssumption
  <1>2. Image({}, CHOOSE x \in Radii : TRUE, "none") \in Images
    BY <1>1 DEF Image, Images, MACs, MAC, CRC
  <1> QED  BY <1>2 DEF IdleRun, Run, RunPcs, Saving

(* The fields of a file.                                                   *)
LEMMA FileFacts ==
  ASSUME NEW files \in Seq(Files), NEW k \in 1 .. Len(files)
  PROVE  /\ files[k] \in Files /\ files[k].img \in Images
         /\ files[k].blocks \in 0 .. 2 /\ files[k].synced \in BOOLEAN
  <1>1. files[k] \in Files
    OBVIOUS
  <1> QED  BY <1>1 DEF Files

(* decodeFloppy: a file that loads under a key was composed. Its seal is   *)
(* that of some composed disk, and covers body and radius, so the two      *)
(* disks are equal.                                                        *)
LEMMA Genuine ==
  ASSUME DiskTypeInv, SealInv, Guarded, NEW k \in 1 .. Len(ino), Loads(k)
  PROVE  ino[k].img \in made
  <1>1. ino[k] \in Files /\ ino[k].img \in Images
    BY FileFacts DEF DiskTypeInv
  <1>2. PICK m \in made : ino[k].img.mac = m.mac
    BY DEF SealInv
  <1>3. PICK c \in SUBSET Centroids, x \in Radii : m = Image(c, x, Key)
    BY <1>2 DEF DiskTypeInv, Composed
  <1> DEFINE img == ino[k].img
  <1>4. Key # "none"
    BY DEF Guarded, Loads, Decodes
  <1>5. img.sealed /\ img.mac = [key |-> Key, body |-> img.body, header |-> img.radius] /\ img.crc = img.body
    BY <1>4 DEF Loads, Decodes, MAC, CRC
  <1>6. m \in Images /\ m.body = c /\ m.radius = x /\ m.crc = c /\ m.sealed = TRUE
        /\ m.mac = [key |-> Key, body |-> c, header |-> x]
    BY <1>3, <1>4, ImageFacts, ZenonT(30)
  <1>7. img.body = c /\ img.radius = x
    <2>1. [key |-> Key, body |-> img.body, header |-> img.radius] = [key |-> Key, body |-> c, header |-> x]
      BY <1>2, <1>5, <1>6
    <2> QED  BY <2>1
  <1>8. img = m
    <2>1. img.crc = m.crc /\ img.body = m.body /\ img.radius = m.radius /\ img.mac = m.mac /\ img.sealed = m.sealed
      BY <1>2, <1>5, <1>6, <1>7, <1>1 DEF Images
    <2> QED  BY <2>1, <1>1, <1>6 DEF Images
  <1> QED  BY <1>8, <1>2

(* No step changes the image of a file that exists, nor removes one.       *)
FilesKept ==
  /\ Len(ino) <= Len(ino')
  /\ \A k \in 1 .. Len(ino) : ino'[k].img = ino[k].img

(* So what is proven of two disks stays proven.                            *)
LEMMA ProvenKept ==
  ASSUME DiskTypeInv, FilesKept, NEW a \in 1 .. Len(ino), NEW b \in 1 .. Len(ino)
  PROVE  Proven(a, b)' <=> Proven(a, b)
  <1>1. \A k \in 1 .. Len(ino) : \A view : Evades(k, view)' <=> Evades(k, view)
    BY DEF FilesKept, Evades
  <1>2. \A k \in 1 .. Len(ino) : Missed(k, HostileViews)' = Missed(k, HostileViews)
                               /\ Missed(k, BenignViews)' = Missed(k, BenignViews)
    BY <1>1 DEF Missed
  <1> QED  BY <1>2 DEF Proven

(* A run that the step leaves alone, but for a replaced file; its          *)
(* temporary file is not written by another.                               *)
Kept(j) ==
  /\ \/ run'[j] = run[j] /\ names' = names
     \/ run'[j] = [run[j] EXCEPT !.quiet = FALSE]
  /\ run[j].pc = "write" => ino'[run[j].tmp].blocks = ino[run[j].tmp].blocks

(* LoadInv for one run.                                                    *)
LoadOK(i) == Guarded => \A k \in {run[i].base0, run[i].base, run[i].new} \ {0} : ino[k].img \in made

(* What a step other than a power loss does to the files.                  *)
FilesNext ==
  /\ ino' \in Seq(Files) /\ FilesKept /\ SealInv'
  /\ \A k \in 1 .. Len(ino) : /\ ino[k].blocks = 2 => ino'[k].blocks = 2
                              /\ ino[k].synced => ino'[k].synced

(* A run that is left alone keeps its part of the invariant.               *)
LEMMA Keeping ==
  ASSUME DisksInv, FilesNext, made \subseteq made', NEW j \in Forgers \cup Deltas, Kept(j)
  PROVE  /\ run'[j] \in Run /\ RunOK(j)' /\ QuietOK(j)' /\ LoadOK(j)'
         /\ run'[j].tmp = run[j].tmp
  <1> USE DEF DisksInv, FilesNext
  <1>t. run[j] \in Run /\ RunOK(j) /\ QuietOK(j) /\ Len(ino) \in Nat /\ Len(ino') \in Nat
    BY DEF DiskTypeInv, RunInv, QuietInv
  <1>l. LoadOK(j)
    BY DEF LoadInv, LoadOK
  <1>1. /\ run'[j] \in Run /\ run'[j].pc = run[j].pc /\ run'[j].target = run[j].target
        /\ run'[j].img = run[j].img /\ run'[j].tmp = run[j].tmp /\ run'[j].stg = run[j].stg
        /\ run'[j].base0 = run[j].base0 /\ run'[j].base = run[j].base /\ run'[j].new = run[j].new
        /\ run'[j].baseHash = run[j].baseHash /\ run'[j].outHash = run[j].outHash
        /\ run'[j].quiet => run[j].quiet /\ names' = names
    BY <1>t DEF Kept, Run
  <1>2. run[j].pc = "idle" => run'[j] = IdleRun
    <2>1. SUFFICES ASSUME run[j].pc = "idle" PROVE run'[j] = IdleRun
      OBVIOUS
    <2>2. run[j] = IdleRun
      BY <1>t, <2>1 DEF RunOK
    <2>3. [IdleRun EXCEPT !.quiet = FALSE] = IdleRun
      BY IdleFacts DEF Run
    <2> QED  BY <2>2, <2>3 DEF Kept
  <1>3. RunOK(j)'
    <2>1. run[j].tmp # 0 => /\ ino[run[j].tmp].blocks = 2 => ino'[run[j].tmp].blocks = 2
                            /\ ino[run[j].tmp].synced => ino'[run[j].tmp].synced
      BY SMTT(30), <1>t DEF RunOK
    <2>2. run[j].stg # 0 => /\ ino[run[j].stg].blocks = 2 => ino'[run[j].stg].blocks = 2
                            /\ ino[run[j].stg].synced => ino'[run[j].stg].synced
      BY <1>t DEF RunOK
    <2>3. /\ run[j].pc = "write" => ino'[run[j].tmp].blocks \in {0, 1}
          /\ run[j].pc \in {"sync", "rename"} => ino'[run[j].tmp].blocks = 2
          /\ run[j].pc = "rename" => ino'[run[j].tmp].synced
      BY <1>t, <2>1 DEF RunOK, Kept, Saving
    <2>4. run[j].pc \in {"check", "publish"} =>
            run[j].stg # 0 /\ ino'[run[j].stg].blocks = 2 /\ ino'[run[j].stg].synced
      BY <1>t, <2>2 DEF RunOK
    <2>5. /\ run[j].pc = "temp" => run[j].img \in made'
          /\ run[j].tmp # 0 <=> run[j].pc \in Saving
          /\ run[j].pc \in {"hash", "discover"} => run[j].base # 0
      BY <1>t DEF RunOK
    <2>6. \A k \in 0 .. Len(ino) : k \in 0 .. Len(ino')
      BY <1>t DEF FilesKept
    <2>7. /\ run[j].tmp \in 0 .. Len(ino') /\ run[j].stg \in 0 .. Len(ino')
          /\ run[j].base0 \in 0 .. Len(ino') /\ run[j].base \in 0 .. Len(ino') /\ run[j].new \in 0 .. Len(ino')
          /\ run[j].baseHash \in 0 .. Len(ino') /\ run[j].outHash \in 0 .. Len(ino')
      BY <1>t, <2>6 DEF RunOK
    <2> QED  BY <1>1, <1>2, <2>3, <2>4, <2>5, <2>7 DEF RunOK
  <1>4. QuietOK(j)'
    BY <1>t, <1>1 DEF QuietOK
  <1>5. LoadOK(j)'
    <2>1. \A k \in 0 .. Len(ino) : k # 0 => k \in 1 .. Len(ino)
      BY <1>t
    <2>2. \A k \in {run[j].base0, run[j].base, run[j].new} \ {0} : ino'[k].img = ino[k].img
      BY <1>t, <2>1 DEF RunOK, FilesKept
    <2> QED  BY <1>1, <1>l, <2>2 DEF LoadOK, Guarded
  <1> QED  BY <1>1, <1>3, <1>4, <1>5

(* Proofs written, and what the step must show of each part.               *)
ProofType == [base : 0 .. Len(ino), out : 0 .. Len(ino), proven : BOOLEAN, alone : BOOLEAN]

Moved(i) ==
  /\ run'[i] \in Run /\ RunOK(i)' /\ QuietOK(i)' /\ LoadOK(i)'
  /\ run'[i].tmp # 0 => run'[i].tmp = run[i].tmp \/ run'[i].tmp > Len(ino)

MadeNext == made \subseteq made' /\ made' \subseteq Composed
NamesNext ==
  names' \in [Paths -> 0 .. Len(ino')] /\ past' \in [Paths -> SUBSET (0 .. Len(ino'))] /\ PublishedInv'
RunsNext(i) ==
  /\ run' = [j \in Forgers \cup Deltas |-> run'[j]]
  /\ \A j \in Forgers \cup Deltas : Kept(j) \/ (j = i /\ Moved(i))
CountsNext == saves' \in Nat /\ losses' \in Nat /\ damages' \in Nat

SoundProof(proof) ==
  proof.alone /\ proof.proven => proof.base # 0 /\ proof.out # 0 /\ Proven(proof.base, proof.out)

ProofsNext ==
  \A proof \in deltaProofs' : proof \in deltaProofs \/ (proof \in ProofType' /\ SoundProof(proof)')

(* Proofs written earlier still describe their disks.                      *)
LEMMA DeltaProofsKept ==
  ASSUME DisksInv, FilesKept, Len(ino') \in Nat, ProofsNext
  PROVE  /\ deltaProofs' \subseteq [base : 0 .. Len(ino'), out : 0 .. Len(ino'), proven : BOOLEAN, alone : BOOLEAN]
         /\ ProofDescribes'
  <1>n. Len(ino) \in Nat
    BY DEF DisksInv, DiskTypeInv
  <1>1. ASSUME NEW proof \in deltaProofs PROVE proof \in ProofType' /\ SoundProof(proof)'
    <2>1. proof \in ProofType /\ SoundProof(proof)
      BY DEF DisksInv, DiskTypeInv, ProofType, ProofDescribes, SoundProof
    <2>2. proof \in ProofType'
      BY <2>1, <1>n DEF ProofType, FilesKept
    <2>3. proof.base # 0 => proof.base \in 1 .. Len(ino)
      BY <2>1, <1>n DEF ProofType
    <2>4. proof.out # 0 => proof.out \in 1 .. Len(ino)
      BY <2>1, <1>n DEF ProofType
    <2>5. SoundProof(proof)'
      <3>1. SUFFICES ASSUME proof.alone, proof.proven
                     PROVE  proof.base # 0 /\ proof.out # 0 /\ Proven(proof.base, proof.out)'
        BY DEF SoundProof
      <3>2. proof.base # 0 /\ proof.out # 0 /\ Proven(proof.base, proof.out)
        BY <2>1, <3>1 DEF SoundProof
      <3> QED  BY <3>2, <2>3, <2>4, ProvenKept DEF DisksInv
    <2> QED  BY <2>2, <2>5
  <1>2. \A proof \in deltaProofs' : proof \in ProofType' /\ SoundProof(proof)'
    BY <1>1 DEF ProofsNext
  <1> QED  BY <1>2 DEF ProofType, ProofDescribes, SoundProof

(* A step of one run keeps the invariant when its own part holds after it  *)
(* and the others are left alone.                                          *)
LEMMA StepKeeps ==
  ASSUME DisksInv, FilesNext, MadeNext, NamesNext, NEW i, RunsNext(i), reader' = reader, ProofsNext, CountsNext
  PROVE  DisksInv'
  <1>n. Len(ino) \in Nat /\ Len(ino') \in Nat /\ Len(ino) <= Len(ino')
    BY DEF DisksInv, DiskTypeInv, FilesNext, FilesKept
  <1>1. \A j \in Forgers \cup Deltas :
          /\ run'[j] \in Run /\ RunOK(j)' /\ QuietOK(j)' /\ LoadOK(j)'
          /\ run'[j].tmp = run[j].tmp \/ (j = i /\ (run'[j].tmp # 0 => run'[j].tmp = run[j].tmp \/ run'[j].tmp > Len(ino)))
    BY Keeping DEF Moved, RunsNext, MadeNext
  <1>2. reader' \in [Readers -> [pc : {"idle", "mapped", "loaded"}, file : 0 .. Len(ino')]]
    <2>1. \A j \in Readers : reader[j] \in [pc : {"idle", "mapped", "loaded"}, file : 0 .. Len(ino')]
      BY <1>n DEF DisksInv, DiskTypeInv
    <2> QED  BY <2>1 DEF DisksInv, DiskTypeInv
  <1>3. run' \in [Forgers \cup Deltas -> Run]
    BY <1>1 DEF RunsNext
  <1>4. DiskTypeInv'
    BY <1>2, <1>3, <1>n, DeltaProofsKept DEF DiskTypeInv, FilesNext, MadeNext, NamesNext, CountsNext
  <1>5. TmpInv'
    <2>1. SUFFICES ASSUME NEW a \in Forgers \cup Deltas, NEW b \in Forgers \cup Deltas, a # b,
                          run'[a].tmp # 0
                   PROVE  run'[a].tmp # run'[b].tmp
      BY DEF TmpInv
    <2>2. /\ run[a].tmp # 0 => run[a].tmp # run[b].tmp
          /\ run[b].tmp # 0 => run[a].tmp # run[b].tmp
          /\ run[a].tmp \in 0 .. Len(ino) /\ run[b].tmp \in 0 .. Len(ino)
      BY <2>1 DEF DisksInv, TmpInv, RunInv, RunOK
    <2>3. run'[a].tmp \in Nat /\ run'[b].tmp \in Nat
      BY <1>1 DEF Run
    <2> QED  BY <1>1, <1>n, <2>1, <2>2, <2>3
  <1>6. LoadInv'
    <2>1. SUFFICES ASSUME Guarded PROVE LoadInv'
      BY DEF LoadInv, Guarded
    <2>2. ASSUME NEW j \in Readers, reader[j].pc = "loaded"
          PROVE  reader[j].file # 0 /\ ino'[reader[j].file].img \in made'
      <3>1. reader[j].file # 0 /\ ino[reader[j].file].img \in made
        BY <2>1, <2>2 DEF DisksInv, LoadInv
      <3>2. reader[j].file \in 1 .. Len(ino)
        BY <3>1, <1>n DEF DisksInv, DiskTypeInv
      <3> QED  BY <3>1, <3>2 DEF FilesKept, FilesNext, MadeNext
    <2>3. \A j \in Forgers \cup Deltas :
            \A k \in {run'[j].base0, run'[j].base, run'[j].new} \ {0} : ino'[k].img \in made'
      BY <1>1, <2>1 DEF LoadOK, Guarded
    <2> QED  BY <2>2, <2>3 DEF LoadInv
  <1>7. RunInv' /\ QuietInv'
    BY <1>1 DEF RunInv, QuietInv
  <1>8. ProofDescribes'
    BY <1>n, DeltaProofsKept DEF FilesNext
  <1> QED  BY <1>4, <1>5, <1>6, <1>7, <1>8 DEF DisksInv, FilesNext, NamesNext

(* The steps that touch no file and no path.                               *)
LEMMA LocalStep ==
  ASSUME DisksInv, UNCHANGED <<ino, names, past, reader>>, MadeNext, ProofsNext, CountsNext,
         NEW i \in Forgers \cup Deltas, NEW mine \in Run, run' = [run EXCEPT ![i] = mine],
         RunOK(i)', QuietOK(i)', LoadOK(i)', mine.tmp # 0 => mine.tmp = run[i].tmp
  PROVE  DisksInv'
  <1>r. run \in [Forgers \cup Deltas -> Run]
    BY DEF DisksInv, DiskTypeInv
  <1>1. /\ ino' \in Seq(Files) /\ Len(ino') = Len(ino) /\ Len(ino) \in Nat
        /\ names' \in [Paths -> 0 .. Len(ino')] /\ past' \in [Paths -> SUBSET (0 .. Len(ino'))]
    BY DEF DisksInv, DiskTypeInv
  <1>2. SealInv'
    BY <1>1 DEF DisksInv, SealInv, MadeNext
  <1>3. FilesNext
    BY <1>1, <1>2 DEF FilesNext, FilesKept
  <1>4. NamesNext
    BY <1>1 DEF DisksInv, PublishedInv, NamesNext
  <1>5. RunsNext(i)
    BY <1>r DEF Kept, Moved, RunsNext
  <1> QED  BY <1>3, <1>4, <1>5, StepKeeps

(* The invariant, seen from one run.                                       *)
LEMMA RunFacts ==
  ASSUME DisksInv, NEW i \in Forgers \cup Deltas
  PROVE  /\ run \in [Forgers \cup Deltas -> Run] /\ run[i] \in Run /\ RunOK(i) /\ QuietOK(i) /\ LoadOK(i)
         /\ Len(ino) \in Nat
         /\ made \subseteq Composed
         /\ saves \in Nat /\ losses \in Nat /\ damages \in Nat
  BY DEF DisksInv, DiskTypeInv, RunInv, QuietInv, LoadInv, LoadOK

(* A run that ends keeps the invariant.                                    *)
LEMMA IdleStep ==
  ASSUME DisksInv, UNCHANGED <<ino, names, past, reader, made>>,
         NEW i \in Forgers \cup Deltas, run' = [run EXCEPT ![i] = IdleRun],
         ProofsNext, CountsNext
  PROVE  DisksInv'
  <1>1. run'[i] = IdleRun
    BY RunFacts
  <1>2. RunOK(i)'
    BY <1>1, IdleFacts, RunFacts DEF RunOK, Saving
  <1>3. QuietOK(i)' /\ LoadOK(i)'
    BY <1>1, IdleFacts DEF QuietOK, LoadOK
  <1>4. MadeNext
    BY RunFacts DEF MadeNext
  <1> QED  BY <1>2, <1>3, <1>4, IdleFacts, LocalStep

(* The steps of runDNSDelta and SaveFloppyFile, one by one.                *)
LEMMA ForgeKeeps ==
  ASSUME DisksInv, NEW i \in Forgers, NEW c \in SUBSET Centroids, NEW x \in Radii, Forge(i, c, x)
  PROVE  DisksInv'
  <1> DEFINE mine == [IdleRun EXCEPT !.pc = "temp", !.img = Image(c, x, Key)]
  <1>1. mine \in Run /\ mine.pc = "temp" /\ mine.img = Image(c, x, Key) /\ mine.tmp = 0 /\ mine.stg = 0
        /\ ~mine.quiet /\ mine.base0 = 0 /\ mine.base = 0 /\ mine.new = 0 /\ mine.baseHash = 0 /\ mine.outHash = 0
    BY IdleFacts, ImageFacts DEF Run, RunPcs
  <1>2. run' = [run EXCEPT ![i] = mine] /\ run'[i] = mine
    BY RunFacts DEF Forge
  <1>3. made' = made \cup {Image(c, x, Key)} /\ saves' \in Nat /\ UNCHANGED <<ino, names, past, reader, deltaProofs, losses, damages>>
    BY RunFacts DEF Forge
  <1> HIDE DEF mine
  <1>4. RunOK(i)'
    BY <1>1, <1>2, <1>3, RunFacts DEF RunOK, Saving
  <1>5. QuietOK(i)' /\ LoadOK(i)'
    BY <1>1, <1>2 DEF QuietOK, LoadOK
  <1>6. MadeNext /\ ProofsNext /\ CountsNext
    BY <1>3, RunFacts DEF MadeNext, ProofsNext, CountsNext, Composed
  <1> QED  BY <1>1, <1>2, <1>3, <1>4, <1>5, <1>6, LocalStep

LEMMA FailsKeeps ==
  ASSUME DisksInv, NEW i \in Forgers \cup Deltas, Fails(i)
  PROVE  DisksInv'
  <1>1. ProofsNext /\ CountsNext
    BY RunFacts DEF Fails, bounds, ProofsNext, CountsNext
  <1> QED  BY <1>1, IdleStep DEF Fails, bounds

LEMMA OpenBaseKeeps ==
  ASSUME DisksInv, NEW i \in Deltas, OpenBase(i)
  PROVE  DisksInv'
  <1> DEFINE mine == [run[i] EXCEPT !.pc = "load", !.base0 = names.base, !.quiet = TRUE]
  <1>r. run[i] = IdleRun /\ names.base \in 1 .. Len(ino)
    <2>1. run[i] = IdleRun
      BY RunFacts DEF OpenBase, RunOK
    <2>2. names.base \in 0 .. Len(ino) /\ names.base # 0 /\ Len(ino) \in Nat
      BY DEF OpenBase, Loads, DisksInv, DiskTypeInv, Paths
    <2> QED  BY <2>1, <2>2
  <1>1. mine \in Run /\ mine.pc = "load" /\ mine.tmp = 0 /\ mine.stg = 0 /\ mine.base0 = names.base
        /\ mine.base = 0 /\ mine.new = 0 /\ mine.baseHash = 0 /\ mine.outHash = 0
    <2>1. names.base \in Nat
      BY <1>r
    <2>2. mine = [IdleRun EXCEPT !.pc = "load", !.base0 = names.base, !.quiet = TRUE]
      BY <1>r
    <2> QED  BY <2>1, <2>2, IdleFacts DEF Run, RunPcs
  <1>2. run' = [run EXCEPT ![i] = mine] /\ run'[i] = mine
    BY RunFacts DEF OpenBase, Run
  <1>3. saves' \in Nat /\ UNCHANGED <<ino, names, past, reader, deltaProofs, made, losses, damages>>
    BY RunFacts DEF OpenBase
  <1> HIDE DEF mine
  <1>4. RunOK(i)'
    BY <1>1, <1>2, <1>3, <1>r, RunFacts DEF RunOK, Saving
  <1>5. QuietOK(i)'
    BY <1>1, <1>2, <1>3, <1>r DEF QuietOK, Saving
  <1>6. LoadOK(i)'
    <2>1. Guarded => ino[names.base].img \in made
      BY <1>r, Genuine DEF DisksInv, OpenBase
    <2> QED  BY <1>1, <1>2, <1>3, <2>1 DEF LoadOK, Guarded
  <1>7. MadeNext /\ ProofsNext /\ CountsNext
    BY <1>3, RunFacts DEF MadeNext, ProofsNext, CountsNext
  <1> QED  BY <1>1, <1>2, <1>3, <1>4, <1>5, <1>6, <1>7, LocalStep

LEMMA LoadBaseKeeps ==
  ASSUME DisksInv, NEW i \in Deltas, LoadBase(i)
  PROVE  DisksInv'
  <1> DEFINE mine == [run[i] EXCEPT !.pc = "hash", !.base = names.base]
  <1>t. run[i] \in Run /\ RunOK(i) /\ QuietOK(i) /\ LoadOK(i) /\ Len(ino) \in Nat
    BY RunFacts
  <1>r. run[i].pc = "load" /\ names.base \in 1 .. Len(ino) /\ names.base \in Nat
    BY <1>t DEF LoadBase, Loads, DisksInv, DiskTypeInv, Paths
  <1>1. /\ mine \in Run /\ mine.pc = "hash" /\ mine.base = names.base /\ mine.tmp = run[i].tmp
        /\ mine.stg = run[i].stg /\ mine.base0 = run[i].base0 /\ mine.new = run[i].new
        /\ mine.baseHash = run[i].baseHash /\ mine.outHash = run[i].outHash /\ mine.quiet = run[i].quiet
    BY <1>r, <1>t DEF Run, RunPcs
  <1>2. run' = [run EXCEPT ![i] = mine] /\ run'[i] = mine
    BY RunFacts DEF LoadBase, Run
  <1>3. UNCHANGED <<ino, names, past, reader, deltaProofs, made, bounds>>
    BY DEF LoadBase
  <1> HIDE DEF mine
  <1>4. RunOK(i)'
    BY <1>1, <1>2, <1>3, <1>r, <1>t DEF RunOK, Saving
  <1>5. QuietOK(i)'
    BY <1>1, <1>2, <1>3, <1>r, <1>t DEF QuietOK, Saving
  <1>6. LoadOK(i)'
    <2>1. Guarded => ino[names.base].img \in made
      BY <1>r, Genuine DEF DisksInv, LoadBase
    <2> QED  BY <1>1, <1>2, <1>3, <2>1, <1>t DEF LoadOK, Guarded
  <1>7. MadeNext /\ ProofsNext /\ CountsNext
    BY <1>3, RunFacts DEF MadeNext, ProofsNext, CountsNext, bounds
  <1> QED  BY <1>1, <1>2, <1>3, <1>4, <1>5, <1>6, <1>7, LocalStep

LEMMA HashBaseKeeps ==
  ASSUME DisksInv, NEW i \in Deltas, HashBase(i)
  PROVE  DisksInv'
  <1> DEFINE mine == [run[i] EXCEPT !.pc = "discover", !.baseHash = names.base]
  <1>t. run[i] \in Run /\ RunOK(i) /\ QuietOK(i) /\ LoadOK(i) /\ Len(ino) \in Nat
    BY RunFacts
  <1>r. run[i].pc = "hash" /\ names.base \in 0 .. Len(ino) /\ names.base \in Nat
    BY <1>t DEF HashBase, DisksInv, DiskTypeInv, Paths
  <1>1. /\ mine \in Run /\ mine.pc = "discover" /\ mine.baseHash = names.base /\ mine.tmp = run[i].tmp
        /\ mine.stg = run[i].stg /\ mine.base0 = run[i].base0 /\ mine.new = run[i].new
        /\ mine.base = run[i].base /\ mine.outHash = run[i].outHash /\ mine.quiet = run[i].quiet
    BY <1>r, <1>t DEF Run, RunPcs
  <1>2. run' = [run EXCEPT ![i] = mine] /\ run'[i] = mine
    BY RunFacts DEF HashBase, Run
  <1>3. UNCHANGED <<ino, names, past, reader, deltaProofs, made, bounds>>
    BY DEF HashBase
  <1> HIDE DEF mine
  <1>4. RunOK(i)'
    BY <1>1, <1>2, <1>3, <1>r, <1>t DEF RunOK, Saving
  <1>5. QuietOK(i)'
    BY <1>1, <1>2, <1>3, <1>r, <1>t DEF QuietOK, Saving
  <1>6. LoadOK(i)'
    BY <1>1, <1>2, <1>3, <1>t DEF LoadOK, Guarded
  <1>7. MadeNext /\ ProofsNext /\ CountsNext
    BY <1>3, RunFacts DEF MadeNext, ProofsNext, CountsNext, bounds
  <1> QED  BY <1>1, <1>2, <1>3, <1>4, <1>5, <1>6, <1>7, LocalStep

LEMMA DiscoverKeeps ==
  ASSUME DisksInv, NEW i \in Deltas, NEW found \in SUBSET Centroids, Discover(i, found)
  PROVE  DisksInv'
  <1> DEFINE img == Image(ino[run[i].base].img.body \cup found, ino[run[i].base].img.radius, Key)
             mine == [run[i] EXCEPT !.pc = "temp", !.target = "stg", !.img = img]
  <1>t. run[i] \in Run /\ RunOK(i) /\ QuietOK(i) /\ LoadOK(i) /\ Len(ino) \in Nat
    BY RunFacts
  <1>r. run[i].pc = "discover" /\ run[i].base \in 1 .. Len(ino)
    BY <1>t DEF Discover, RunOK
  <1>0. img \in Images /\ img \in Composed
    <2>1. ino[run[i].base].img.body \in SUBSET Centroids /\ ino[run[i].base].img.radius \in Radii
      BY <1>r, FileFacts DEF DisksInv, DiskTypeInv, Images
    <2>2. (ino[run[i].base].img.body \cup found) \in SUBSET Centroids
      BY <2>1
    <2>3. img \in Composed
      BY <2>1, <2>2 DEF Composed
    <2> QED  BY <2>1, <2>2, <2>3, ImageFacts
  <1>2. run' = [run EXCEPT ![i] = mine] /\ run'[i] = mine /\ made' = made \cup {img}
    BY RunFacts DEF Discover, Run
  <1>3. UNCHANGED <<ino, names, past, reader, deltaProofs, bounds>>
    BY DEF Discover
  <1> HIDE DEF img
  <1>1. /\ mine \in Run /\ mine.pc = "temp" /\ mine.target = "stg" /\ mine.img = img /\ mine.tmp = run[i].tmp
        /\ mine.stg = run[i].stg /\ mine.base0 = run[i].base0 /\ mine.new = run[i].new /\ mine.baseHash = run[i].baseHash
        /\ mine.base = run[i].base /\ mine.outHash = run[i].outHash /\ mine.quiet = run[i].quiet
    BY <1>0, <1>t DEF Run, RunPcs
  <1> HIDE DEF mine
  <1>4. RunOK(i)'
    BY <1>1, <1>2, <1>3, <1>r, <1>t DEF RunOK, Saving
  <1>5. QuietOK(i)'
    BY <1>1, <1>2, <1>3, <1>r, <1>t DEF QuietOK, Saving
  <1>6. LoadOK(i)'
    BY <1>1, <1>2, <1>3, <1>t DEF LoadOK, Guarded
  <1>7. MadeNext /\ ProofsNext /\ CountsNext
    BY <1>0, <1>2, <1>3, RunFacts DEF MadeNext, ProofsNext, CountsNext, bounds
  <1> QED  BY <1>1, <1>2, <1>3, <1>4, <1>5, <1>6, <1>7, LocalStep

LEMMA CheckKeeps ==
  ASSUME DisksInv, NEW i \in Deltas, Check(i)
  PROVE  DisksInv'
  <1> DEFINE mine == [run[i] EXCEPT !.pc = "publish", !.outHash = run[i].stg]
  <1>t. run[i] \in Run /\ RunOK(i) /\ QuietOK(i) /\ LoadOK(i) /\ Len(ino) \in Nat
    BY RunFacts
  <1>r. run[i].pc = "check"
    BY DEF Check
  <1>1. /\ mine \in Run /\ mine.pc = "publish" /\ mine.baseHash = run[i].baseHash /\ mine.tmp = run[i].tmp
        /\ mine.stg = run[i].stg /\ mine.base0 = run[i].base0 /\ mine.new = run[i].new
        /\ mine.base = run[i].base /\ mine.outHash = run[i].stg /\ mine.quiet = run[i].quiet
    BY <1>t DEF Run, RunPcs
  <1>2. run' = [run EXCEPT ![i] = mine] /\ run'[i] = mine
    BY RunFacts DEF Check, Run
  <1>3. UNCHANGED <<ino, names, past, reader, deltaProofs, made, bounds>>
    BY DEF Check
  <1> HIDE DEF mine
  <1>4. RunOK(i)'
    BY <1>1, <1>2, <1>3, <1>r, <1>t DEF RunOK, Saving
  <1>5. QuietOK(i)'
    BY <1>1, <1>2, <1>3, <1>r, <1>t DEF QuietOK, Saving
  <1>6. LoadOK(i)'
    BY <1>1, <1>2, <1>3, <1>t DEF LoadOK, Guarded
  <1>7. MadeNext /\ ProofsNext /\ CountsNext
    BY <1>3, RunFacts DEF MadeNext, ProofsNext, CountsNext, bounds
  <1> QED  BY <1>1, <1>2, <1>3, <1>4, <1>5, <1>6, <1>7, LocalStep

LEMMA LoadOutKeeps ==
  ASSUME DisksInv, NEW i \in Deltas, LoadOut(i)
  PROVE  DisksInv'
  <1> DEFINE mine == [run[i] EXCEPT !.pc = "prove", !.new = names.out]
  <1>t. run[i] \in Run /\ RunOK(i) /\ QuietOK(i) /\ LoadOK(i) /\ Len(ino) \in Nat
    BY RunFacts
  <1>r. run[i].pc = "loadOut" /\ names.out \in 1 .. Len(ino) /\ names.out \in Nat
    BY <1>t DEF LoadOut, Loads, DisksInv, DiskTypeInv, Paths
  <1>1. /\ mine \in Run /\ mine.pc = "prove" /\ mine.baseHash = run[i].baseHash /\ mine.tmp = run[i].tmp
        /\ mine.stg = run[i].stg /\ mine.base0 = run[i].base0 /\ mine.new = names.out
        /\ mine.base = run[i].base /\ mine.outHash = run[i].outHash /\ mine.quiet = run[i].quiet
    BY <1>r, <1>t DEF Run, RunPcs
  <1>2. run' = [run EXCEPT ![i] = mine] /\ run'[i] = mine
    BY RunFacts DEF LoadOut, Run
  <1>3. UNCHANGED <<ino, names, past, reader, deltaProofs, made, bounds>>
    BY DEF LoadOut
  <1> HIDE DEF mine
  <1>4. RunOK(i)'
    BY <1>1, <1>2, <1>3, <1>r, <1>t DEF RunOK, Saving
  <1>5. QuietOK(i)'
    BY <1>1, <1>2, <1>3, <1>r, <1>t DEF QuietOK, Saving
  <1>6. LoadOK(i)'
    <2>1. Guarded => ino[names.out].img \in made
      BY <1>r, Genuine DEF DisksInv, LoadOut
    <2> QED  BY <1>1, <1>2, <1>3, <2>1, <1>t DEF LoadOK, Guarded
  <1>7. MadeNext /\ ProofsNext /\ CountsNext
    BY <1>3, RunFacts DEF MadeNext, ProofsNext, CountsNext, bounds
  <1> QED  BY <1>1, <1>2, <1>3, <1>4, <1>5, <1>6, <1>7, LocalStep

LEMMA ProvePatternKeeps ==
  ASSUME DisksInv, NEW i \in Deltas, ProvePattern(i)
  PROVE  DisksInv'
  <1>t. run[i] \in Run /\ RunOK(i) /\ QuietOK(i) /\ LoadOK(i) /\ Len(ino) \in Nat
    BY RunFacts
  <1>1. /\ run[i].pc = "prove" /\ run' = [run EXCEPT ![i] = IdleRun]
        /\ UNCHANGED <<ino, names, past, reader, made, bounds>>
    BY DEF ProvePattern
  <1>2. PICK proof : proof = [base |-> run[i].baseHash, out |-> run[i].outHash,
                              proven |-> Proven(run[i].base0, run[i].new), alone |-> run[i].quiet]
    OBVIOUS
  <1>3. /\ deltaProofs' = deltaProofs \cup {proof}
        /\ proof.base = run[i].baseHash /\ proof.out = run[i].outHash
        /\ proof.proven = Proven(run[i].base0, run[i].new) /\ proof.alone = run[i].quiet
    BY <1>2 DEF ProvePattern
  <1>4. proof \in ProofType'
    <2>1. Proven(run[i].base0, run[i].new) \in BOOLEAN
      BY DEF Proven
    <2>2. run[i].baseHash \in 0 .. Len(ino') /\ run[i].outHash \in 0 .. Len(ino') /\ run[i].quiet \in BOOLEAN
      BY <1>1, <1>t DEF RunOK, Run
    <2> QED  BY <1>2, <2>1, <2>2 DEF ProofType
  <1>5. SoundProof(proof)'
    <2>1. SUFFICES ASSUME proof.alone, proof.proven
                   PROVE  proof.base # 0 /\ proof.out # 0 /\ Proven(proof.base, proof.out)'
      BY DEF SoundProof
    <2>2. /\ run[i].baseHash = run[i].base0 /\ run[i].base0 # 0
          /\ run[i].outHash = run[i].new /\ run[i].outHash # 0
      BY <1>1, <1>3, <1>t, <2>1 DEF QuietOK
    <2>3. proof.base \in 1 .. Len(ino) /\ proof.out \in 1 .. Len(ino)
      BY <1>3, <1>t, <2>2 DEF RunOK
    <2>4. FilesKept
      BY <1>1, <1>t DEF FilesKept
    <2>5. Proven(proof.base, proof.out)
      BY <1>3, <2>1, <2>2
    <2> QED  BY <2>2, <2>3, <2>4, <2>5, <1>3, ProvenKept DEF DisksInv
  <1>6. ProofsNext
    BY <1>3, <1>4, <1>5 DEF ProofsNext
  <1>7. CountsNext
    BY <1>1, RunFacts DEF CountsNext, bounds
  <1> QED  BY <1>1, <1>6, <1>7, IdleStep

(* A new file, and a changed one.                                          *)
LEMMA AppendFacts ==
  ASSUME NEW files \in Seq(Files), NEW f \in Files
  PROVE  /\ Append(files, f) \in Seq(Files) /\ Len(Append(files, f)) = Len(files) + 1 /\ Len(files) \in Nat
         /\ \A k \in 1 .. Len(files) : Append(files, f)[k] = files[k]
         /\ Append(files, f)[Len(files) + 1] = f
  OBVIOUS

(* A new file that carries the seal of a composed disk.                    *)
LEMMA Appending ==
  ASSUME DisksInv, NEW f \in Files, ino' = Append(ino, f), made' = made,
         \E m \in made : f.img.mac = m.mac
  PROVE  /\ FilesNext /\ MadeNext /\ Len(ino') = Len(ino) + 1 /\ ino'[Len(ino) + 1] = f
         /\ Len(ino) \in Nat /\ \A k \in 1 .. Len(ino) : ino'[k] = ino[k]
  <1>1. /\ ino' \in Seq(Files) /\ Len(ino') = Len(ino) + 1 /\ Len(ino) \in Nat
        /\ \A k \in 1 .. Len(ino) : ino'[k] = ino[k]
        /\ ino'[Len(ino) + 1] = f
    BY AppendFacts DEF DisksInv, DiskTypeInv
  <1>2. SealInv'
    <2>1. ASSUME NEW k \in 1 .. Len(ino') PROVE \E m \in made : ino'[k].img.mac = m.mac
      <3>1. k \in 1 .. Len(ino) \/ k = Len(ino) + 1
        BY <1>1
      <3> QED  BY <3>1, <1>1 DEF DisksInv, SealInv
    <2> QED  BY <2>1 DEF SealInv
  <1>3. FilesNext
    BY <1>1, <1>2 DEF FilesNext, FilesKept
  <1>4. MadeNext
    BY DEF MadeNext, DisksInv, DiskTypeInv
  <1> QED  BY <1>1, <1>3, <1>4

(* Paths that are not touched still name whole files,                      *)
LEMMA NamesStay ==
  ASSUME DisksInv, FilesNext, UNCHANGED <<names, past>>
  PROVE  NamesNext
  <1>1. Len(ino) \in Nat /\ Len(ino') \in Nat /\ Len(ino) <= Len(ino')
    BY DEF DisksInv, DiskTypeInv, FilesNext, FilesKept
  <1>2. names' \in [Paths -> 0 .. Len(ino')] /\ past' \in [Paths -> SUBSET (0 .. Len(ino'))]
    <2>1. 0 .. Len(ino) \subseteq 0 .. Len(ino')
      BY <1>1
    <2>2. names \in [Paths -> 0 .. Len(ino)] /\ past \in [Paths -> SUBSET (0 .. Len(ino))]
      BY DEF DisksInv, DiskTypeInv
    <2>3. names \in [Paths -> 0 .. Len(ino')]
      BY <2>1, <2>2
    <2>4. past \in [Paths -> SUBSET (0 .. Len(ino'))]
      BY <2>1, <2>2
    <2> QED  BY <2>3, <2>4
  <1>3. ASSUME NEW n \in Paths, NEW k \in past[n], k # 0
        PROVE  ino'[k].blocks = 2 /\ ino'[k].synced
    <2>1. k \in 1 .. Len(ino)
      BY <1>1, <1>3 DEF DisksInv, DiskTypeInv
    <2>2. ino[k].blocks = 2 /\ ino[k].synced
      BY <1>3 DEF DisksInv, PublishedInv
    <2> QED  BY <2>1, <2>2 DEF FilesNext
  <1>4. PublishedInv'
    BY <1>3 DEF DisksInv, PublishedInv
  <1> QED  BY <1>2, <1>4 DEF NamesNext

LEMMA CreateTempKeeps ==
  ASSUME DisksInv, NEW i \in Forgers \cup Deltas, CreateTemp(i)
  PROVE  DisksInv'
  <1> DEFINE f == [img |-> run[i].img, blocks |-> 0, synced |-> FALSE]
             mine == [run[i] EXCEPT !.pc = "write", !.tmp = Len(ino) + 1]
  <1>t. run[i] \in Run /\ RunOK(i) /\ QuietOK(i) /\ LoadOK(i) /\ Len(ino) \in Nat
    BY RunFacts
  <1>r. run[i].pc = "temp" /\ run[i].img \in made /\ run \in [Forgers \cup Deltas -> Run]
    BY <1>t, RunFacts DEF CreateTemp, RunOK
  <1>f. f \in Files
    BY <1>t DEF Files, Run
  <1>1. /\ mine \in Run /\ mine.pc = "write" /\ mine.tmp = Len(ino) + 1 /\ mine.baseHash = run[i].baseHash
        /\ mine.stg = run[i].stg /\ mine.base0 = run[i].base0 /\ mine.new = run[i].new /\ mine.target = run[i].target
        /\ mine.base = run[i].base /\ mine.outHash = run[i].outHash /\ mine.quiet = run[i].quiet
    <2>1. Len(ino) + 1 \in Nat /\ "write" \in RunPcs
      BY <1>t DEF RunPcs, Saving
    <2> QED  BY <1>t, <2>1 DEF Run
  <1>2. run' = [run EXCEPT ![i] = mine] /\ run'[i] = mine
    BY <1>r, <1>t DEF CreateTemp, Run
  <1>3. ino' = Append(ino, f) /\ UNCHANGED <<names, past, reader, deltaProofs, made, bounds>>
    BY DEF CreateTemp
  <1>4. /\ FilesNext /\ MadeNext /\ Len(ino') = Len(ino) + 1 /\ ino'[Len(ino) + 1] = f
        /\ \A k \in 1 .. Len(ino) : ino'[k] = ino[k]
    <2>1. \E m \in made : f.img.mac = m.mac
      BY <1>r
    <2> HIDE DEF f
    <2> QED  BY <1>3, <1>f, <2>1, Appending
  <1>b. ino'[Len(ino) + 1].blocks = 0
    BY <1>4
  <1> HIDE DEF mine, f
  <1>5. RunOK(i)'
    BY SMTT(30), <1>1, <1>2, <1>3, <1>4, <1>b, <1>r, <1>t DEF RunOK, Saving
  <1>6. QuietOK(i)'
    BY <1>1, <1>2, <1>3, <1>r, <1>t DEF QuietOK, Saving
  <1>7. LoadOK(i)'
    <2>1. \A k \in {run[i].base0, run[i].base, run[i].new} \ {0} : ino'[k].img = ino[k].img
      BY <1>t, <1>4 DEF RunOK
    <2> QED  BY <1>1, <1>2, <1>3, <1>t, <2>1 DEF LoadOK, Guarded
  <1>8. RunsNext(i)
    <2>1. ASSUME NEW j \in Forgers \cup Deltas, j # i PROVE Kept(j)
      <3>1. run'[j] = run[j]
        BY <1>2, <1>r, <2>1
      <3>2. run[j].pc = "write" => run[j].tmp \in 1 .. Len(ino)
        BY RunFacts DEF RunOK, Saving
      <3> QED  BY <1>3, <1>4, <3>1, <3>2 DEF Kept
    <2>2. Moved(i)
      BY <1>1, <1>2, <1>5, <1>6, <1>7, <1>t DEF Moved
    <2>3. run' = [j \in Forgers \cup Deltas |-> run'[j]]
      BY <1>2, <1>r
    <2> QED  BY <2>1, <2>2, <2>3 DEF RunsNext
  <1>9. NamesNext /\ ProofsNext /\ CountsNext
    BY <1>3, <1>4, NamesStay, RunFacts DEF ProofsNext, CountsNext, bounds
  <1> QED  BY <1>3, <1>4, <1>8, <1>9, StepKeeps

(* A changed file in the sequence of files.                                *)
LEMMA ExceptFacts ==
  ASSUME NEW files \in Seq(Files), NEW t \in 1 .. Len(files), NEW f \in Files
  PROVE  /\ [files EXCEPT ![t] = f] \in Seq(Files) /\ Len([files EXCEPT ![t] = f]) = Len(files)
         /\ [files EXCEPT ![t] = f][t] = f
         /\ \A k \in 1 .. Len(files) : k # t => [files EXCEPT ![t] = f][k] = files[k]
  OBVIOUS

(* Write and Sync change the temporary file of their run and no other.     *)
LEMMA ChangeTmp ==
  ASSUME DisksInv, NEW i \in Forgers \cup Deltas, run[i].pc \in {"write", "sync"},
         NEW f \in Files, f.img = ino[run[i].tmp].img,
         ino[run[i].tmp].blocks = 2 => f.blocks = 2, ino[run[i].tmp].synced => f.synced,
         ino' = [ino EXCEPT ![run[i].tmp] = f],
         NEW pc \in Saving, run' = [run EXCEPT ![i].pc = pc],
         pc = "write" => f.blocks \in {0, 1}, pc # "write" => f.blocks = 2, pc = "rename" => f.synced,
         UNCHANGED <<names, past, reader, deltaProofs, made, bounds>>
  PROVE  DisksInv'
  <1> DEFINE mine == [run[i] EXCEPT !.pc = pc]
  <1>t. run[i] \in Run /\ RunOK(i) /\ QuietOK(i) /\ LoadOK(i) /\ Len(ino) \in Nat
    BY RunFacts
  <1>r. run[i].tmp \in 1 .. Len(ino) /\ run \in [Forgers \cup Deltas -> Run]
    <2>1. run[i].tmp \in 0 .. Len(ino) /\ run[i].tmp # 0
      BY <1>t DEF RunOK, Saving
    <2>2. run \in [Forgers \cup Deltas -> Run]
      BY RunFacts
    <2> QED  BY <1>t, <2>1, <2>2
  <1>1. /\ mine \in Run /\ mine.pc = pc /\ mine.tmp = run[i].tmp /\ mine.baseHash = run[i].baseHash
        /\ mine.stg = run[i].stg /\ mine.base0 = run[i].base0 /\ mine.new = run[i].new /\ mine.target = run[i].target
        /\ mine.base = run[i].base /\ mine.outHash = run[i].outHash /\ mine.quiet = run[i].quiet
    BY <1>t DEF Run, RunPcs
  <1>2. run' = [run EXCEPT ![i] = mine] /\ run'[i] = mine
    BY <1>r, <1>t DEF Run
  <1>4. /\ ino' \in Seq(Files) /\ Len(ino') = Len(ino) /\ ino'[run[i].tmp] = f
        /\ \A k \in 1 .. Len(ino) : k # run[i].tmp => ino'[k] = ino[k]
    BY <1>r, ExceptFacts DEF DisksInv, DiskTypeInv
  <1>e. \A k \in 1 .. Len(ino) : ino'[k].img = ino[k].img
    BY <1>4
  <1>s. SealInv'
    BY <1>4, <1>e DEF DisksInv, SealInv
  <1>k. FilesNext
    BY <1>4, <1>e, <1>s, <1>t DEF FilesNext, FilesKept
  <1> HIDE DEF mine
  <1>5. RunOK(i)'
    BY <1>1, <1>2, <1>4, <1>r, <1>t DEF RunOK, Saving
  <1>6. QuietOK(i)'
    BY <1>1, <1>2, <1>r, <1>t DEF QuietOK, Saving
  <1>7. LoadOK(i)'
    <2>1. \A k \in {run[i].base0, run[i].base, run[i].new} \ {0} : ino'[k].img = ino[k].img
      BY <1>t, <1>e DEF RunOK
    <2> QED  BY <1>1, <1>2, <1>t, <2>1 DEF LoadOK, Guarded
  <1>8. RunsNext(i)
    <2>1. ASSUME NEW j \in Forgers \cup Deltas, j # i PROVE Kept(j)
      <3>1. run'[j] = run[j]
        BY <1>2, <1>r, <2>1
      <3>2. run[j].pc = "write" => run[j].tmp \in 1 .. Len(ino)
        BY RunFacts DEF RunOK, Saving
      <3>3. run[j].tmp # run[i].tmp
        BY <1>r, <2>1 DEF DisksInv, TmpInv
      <3> QED  BY <1>4, <3>1, <3>2, <3>3 DEF Kept
    <2>2. Moved(i)
      BY <1>1, <1>2, <1>5, <1>6, <1>7, <1>t DEF Moved
    <2>3. run' = [j \in Forgers \cup Deltas |-> run'[j]]
      BY <1>2, <1>r
    <2> QED  BY <2>1, <2>2, <2>3 DEF RunsNext
  <1>9. NamesNext /\ MadeNext /\ ProofsNext /\ CountsNext
    BY <1>k, NamesStay, RunFacts DEF MadeNext, ProofsNext, CountsNext, bounds
  <1> QED  BY <1>k, <1>8, <1>9, StepKeeps

LEMMA WriteKeeps ==
  ASSUME DisksInv, NEW i \in Forgers \cup Deltas, Write(i)
  PROVE  DisksInv'
  <1>t. run[i] \in Run /\ RunOK(i) /\ Len(ino) \in Nat /\ ino \in Seq(Files)
    BY RunFacts DEF DisksInv, DiskTypeInv
  <1>r. run[i].pc = "write" /\ run[i].tmp \in 1 .. Len(ino) /\ ino[run[i].tmp].blocks \in {0, 1}
        /\ ino[run[i].tmp].blocks # 2
    BY <1>t DEF RunOK, Saving, Write
  <1>1. PICK f : f = [ino[run[i].tmp] EXCEPT !.blocks = @ + 1]
    OBVIOUS
  <1>2. /\ f \in Files /\ f.img = ino[run[i].tmp].img /\ f.synced = ino[run[i].tmp].synced
        /\ f.blocks = ino[run[i].tmp].blocks + 1
    <2>1. ino[run[i].tmp] \in Files
      BY <1>r, <1>t, FileFacts
    <2>2. ino[run[i].tmp].blocks + 1 \in 0 .. 2
      BY <1>r
    <2> QED  BY <1>1, <2>1, <2>2 DEF Files
  <1>3. PICK pc : pc = IF ino[run[i].tmp].blocks = 1 THEN "sync" ELSE "write"
    OBVIOUS
  <1>4. ino' = [ino EXCEPT ![run[i].tmp] = f] /\ run' = [run EXCEPT ![i].pc = pc]
        /\ UNCHANGED <<names, past, reader, deltaProofs, made, bounds>>
    BY <1>1, <1>3, <1>t DEF Write, RunTo
  <1>5. pc \in Saving /\ (pc = "write" => f.blocks \in {0, 1}) /\ (pc # "write" => f.blocks = 2) /\ pc # "rename"
    BY <1>2, <1>3, <1>r DEF Saving
  <1>6. (pc = "rename" => f.synced) /\ (ino[run[i].tmp].synced => f.synced) /\ run[i].pc \in {"write", "sync"}
    BY <1>2, <1>5, <1>r
  <1>7. ino[run[i].tmp].blocks = 2 => f.blocks = 2
    BY <1>r
  <1>8. f \in Files /\ f.img = ino[run[i].tmp].img
    BY <1>2
  <1> QED  BY <1>4, <1>5, <1>6, <1>7, <1>8, ChangeTmp

LEMMA SyncKeeps ==
  ASSUME DisksInv, NEW i \in Forgers \cup Deltas, Sync(i)
  PROVE  DisksInv'
  <1>t. run[i] \in Run /\ RunOK(i) /\ Len(ino) \in Nat /\ ino \in Seq(Files)
    BY RunFacts DEF DisksInv, DiskTypeInv
  <1>r. run[i].pc = "sync" /\ run[i].tmp \in 1 .. Len(ino) /\ ino[run[i].tmp].blocks = 2
    BY <1>t DEF RunOK, Saving, Sync
  <1>1. PICK f : f = [ino[run[i].tmp] EXCEPT !.synced = TRUE]
    OBVIOUS
  <1>2. /\ f \in Files /\ f.img = ino[run[i].tmp].img /\ f.synced /\ f.blocks = ino[run[i].tmp].blocks
    BY <1>r, <1>t, <1>1, FileFacts DEF Files
  <1>4. ino' = [ino EXCEPT ![run[i].tmp] = f] /\ run' = [run EXCEPT ![i].pc = "rename"]
        /\ UNCHANGED <<names, past, reader, deltaProofs, made, bounds>>
    BY <1>1, <1>t DEF Sync, RunTo
  <1>5. "rename" \in Saving
    BY DEF Saving
  <1> QED  BY <1>r, <1>2, <1>4, <1>5, ChangeTmp

(* and so does a path that is given a whole and synced file.               *)
LEMMA NamesMove ==
  ASSUME DisksInv, FilesNext, NEW n \in Paths, NEW k \in 1 .. Len(ino'), ino'[k].blocks = 2, ino'[k].synced,
         names' = [names EXCEPT ![n] = k], past' = [past EXCEPT ![n] = past[n] \cup {k}]
  PROVE  NamesNext
  <1>1. Len(ino) \in Nat /\ Len(ino') \in Nat /\ Len(ino) <= Len(ino')
    BY DEF DisksInv, DiskTypeInv, FilesNext, FilesKept
  <1>2. names \in [Paths -> 0 .. Len(ino')] /\ past \in [Paths -> SUBSET (0 .. Len(ino'))]
    <2>1. 0 .. Len(ino) \subseteq 0 .. Len(ino')
      BY <1>1
    <2>2. names \in [Paths -> 0 .. Len(ino)] /\ past \in [Paths -> SUBSET (0 .. Len(ino))]
      BY DEF DisksInv, DiskTypeInv
    <2>3. names \in [Paths -> 0 .. Len(ino')]
      BY <2>1, <2>2
    <2>4. past \in [Paths -> SUBSET (0 .. Len(ino'))]
      BY <2>1, <2>2
    <2> QED  BY <2>3, <2>4
  <1>3. k \in 0 .. Len(ino') /\ k # 0
    BY <1>1
  <1>4. names' \in [Paths -> 0 .. Len(ino')] /\ past' \in [Paths -> SUBSET (0 .. Len(ino'))]
    BY <1>2, <1>3
  <1>5. ASSUME NEW p \in Paths, NEW q \in past'[p], q # 0
        PROVE  ino'[q].blocks = 2 /\ ino'[q].synced
    <2>1. CASE q = k
      BY <2>1
    <2>2. CASE q # k
      <3>1. q \in past[p]
        BY <2>2, <1>2, <1>5
      <3>2. q \in 1 .. Len(ino)
        BY <1>1, <1>5, <3>1 DEF DisksInv, DiskTypeInv
      <3>3. ino[q].blocks = 2 /\ ino[q].synced
        BY <1>5, <3>1 DEF DisksInv, PublishedInv
      <3> QED  BY <3>2, <3>3 DEF FilesNext
    <2> QED  BY <2>1, <2>2
  <1>6. \A p \in Paths : names'[p] \in past'[p]
    BY <1>2 DEF DisksInv, PublishedInv
  <1>7. 0 \notin past'.base
    BY <1>2, <1>3 DEF DisksInv, PublishedInv, Paths
  <1> QED  BY <1>4, <1>5, <1>6, <1>7 DEF NamesNext, PublishedInv

(* Files that are not touched.                                             *)
LEMMA FilesStay ==
  ASSUME DisksInv, UNCHANGED <<ino, made>>
  PROVE  FilesNext /\ MadeNext
  <1>1. /\ ino' \in Seq(Files) /\ Len(ino') = Len(ino) /\ Len(ino) \in Nat
    BY DEF DisksInv, DiskTypeInv
  <1>2. SealInv'
    BY <1>1 DEF DisksInv, SealInv
  <1>3. FilesNext
    BY <1>1, <1>2 DEF FilesNext, FilesKept
  <1> QED  BY <1>3 DEF MadeNext, DisksInv, DiskTypeInv

LEMMA RenameKeeps ==
  ASSUME DisksInv, NEW i \in Forgers \cup Deltas, Rename(i)
  PROVE  DisksInv'
  <1>t. run[i] \in Run /\ RunOK(i) /\ QuietOK(i) /\ LoadOK(i) /\ Len(ino) \in Nat
    BY RunFacts
  <1>r. run \in [Forgers \cup Deltas -> Run]
    BY RunFacts
  <1>1. /\ run[i].pc = "rename" /\ run[i].tmp \in 1 .. Len(ino)
        /\ ino[run[i].tmp].blocks = 2 /\ ino[run[i].tmp].synced
    BY <1>t DEF Rename, RunOK, Saving
  <1>2. UNCHANGED <<ino, reader, deltaProofs, made, bounds>> /\ FilesNext /\ MadeNext
    BY FilesStay DEF Rename
  <1>3. ProofsNext /\ CountsNext
    BY <1>2, RunFacts DEF ProofsNext, CountsNext, bounds
  <1>4. CASE /\ run[i].target = "base"
             /\ names' = [names EXCEPT !.base = run[i].tmp]
             /\ past' = [past EXCEPT !.base = @ \cup {run[i].tmp}]
             /\ Replaces(i, IdleRun)
    <2>1. PICK k : k = run[i].tmp
      OBVIOUS
    <2>2. NamesNext
      <3>1. "base" \in Paths /\ k \in 1 .. Len(ino') /\ ino'[k].blocks = 2 /\ ino'[k].synced
        BY <1>1, <1>2, <2>1 DEF Paths
      <3>2. names' = [names EXCEPT !["base"] = k] /\ past' = [past EXCEPT !["base"] = past["base"] \cup {k}]
        BY <1>4, <2>1
      <3> QED  BY <1>2, <3>1, <3>2, NamesMove
    <2>3. run' = [x \in Forgers \cup Deltas |-> IF x = i THEN IdleRun ELSE [run[x] EXCEPT !.quiet = FALSE]]
      BY <1>4, <1>r DEF Replaces
    <2>4. run'[i] = IdleRun
      BY <2>3
    <2>5. RunOK(i)'
      BY <1>2, <1>t, <2>4, IdleFacts DEF RunOK, Saving
    <2>6. QuietOK(i)' /\ LoadOK(i)'
      BY <2>4, IdleFacts DEF QuietOK, LoadOK
    <2>7. Moved(i)
      BY <2>4, <2>5, <2>6, IdleFacts DEF Moved
    <2>8. \A j \in Forgers \cup Deltas : j # i => Kept(j)
      BY <2>3, <1>2 DEF Kept
    <2>9. RunsNext(i)
      <3>1. run' = [j \in Forgers \cup Deltas |-> run'[j]]
        BY <2>3
      <3> QED  BY <2>7, <2>8, <3>1 DEF RunsNext
    <2> QED  BY <1>2, <1>3, <2>2, <2>9, StepKeeps
  <1>5. CASE /\ run[i].target = "stg"
             /\ run' = [run EXCEPT ![i].pc = "check", ![i].stg = run[i].tmp, ![i].tmp = 0]
             /\ UNCHANGED <<names, past>>
    <2> DEFINE mine == [run[i] EXCEPT !.pc = "check", !.stg = run[i].tmp, !.tmp = 0]
    <2>1. /\ mine \in Run /\ mine.pc = "check" /\ mine.baseHash = run[i].baseHash /\ mine.tmp = 0
          /\ mine.stg = run[i].tmp /\ mine.base0 = run[i].base0 /\ mine.new = run[i].new
          /\ mine.base = run[i].base /\ mine.outHash = run[i].outHash /\ mine.quiet = run[i].quiet
      BY <1>t DEF Run, RunPcs
    <2>2. run' = [run EXCEPT ![i] = mine] /\ run'[i] = mine
      BY <1>5, <1>r, <1>t DEF Run
    <2> HIDE DEF mine
    <2>3. RunOK(i)'
      BY SMTT(30), <2>1, <2>2, <1>1, <1>2, <1>t DEF RunOK, Saving
    <2>4. QuietOK(i)'
      BY <2>1, <2>2, <1>1, <1>5, <1>t DEF QuietOK, Saving
    <2>5. LoadOK(i)'
      BY <2>1, <2>2, <1>2, <1>t DEF LoadOK, Guarded
    <2> QED  BY <1>2, <1>3, <1>5, <2>1, <2>2, <2>3, <2>4, <2>5, LocalStep
  <1> QED  BY <1>4, <1>5 DEF Rename

LEMMA PublishKeeps ==
  ASSUME DisksInv, NEW i \in Deltas, Publish(i)
  PROVE  DisksInv'
  <1>t. run[i] \in Run /\ RunOK(i) /\ QuietOK(i) /\ LoadOK(i) /\ Len(ino) \in Nat
    BY RunFacts
  <1>r. run \in [Forgers \cup Deltas -> Run]
    BY RunFacts
  <1>1. /\ run[i].pc = "publish" /\ run[i].stg \in 1 .. Len(ino)
        /\ ino[run[i].stg].blocks = 2 /\ ino[run[i].stg].synced
    BY <1>t DEF Publish, RunOK, Saving
  <1>2. UNCHANGED <<ino, reader, deltaProofs, made, bounds>> /\ FilesNext /\ MadeNext
    BY FilesStay DEF Publish
  <1>3. ProofsNext /\ CountsNext
    BY <1>2, RunFacts DEF ProofsNext, CountsNext, bounds
  <1>4. PICK k : k = run[i].stg
    OBVIOUS
  <1>5. names' = [names EXCEPT !["out"] = k] /\ past' = [past EXCEPT !["out"] = past["out"] \cup {k}]
    BY <1>4 DEF Publish
  <1>6. NamesNext
    <2>1. "out" \in Paths /\ k \in 1 .. Len(ino') /\ ino'[k].blocks = 2 /\ ino'[k].synced
      BY <1>1, <1>2, <1>4 DEF Paths
    <2> QED  BY <1>2, <1>5, <2>1, NamesMove
  <1>n. names'.base = names.base /\ names'.out = run[i].stg
    BY <1>4, <1>5 DEF DisksInv, DiskTypeInv, Paths
  <1> DEFINE mine == [run[i] EXCEPT !.pc = "loadOut", !.stg = 0]
  <1>7. /\ mine \in Run /\ mine.pc = "loadOut" /\ mine.baseHash = run[i].baseHash /\ mine.tmp = run[i].tmp
        /\ mine.stg = 0 /\ mine.base0 = run[i].base0 /\ mine.new = run[i].new
        /\ mine.base = run[i].base /\ mine.outHash = run[i].outHash /\ mine.quiet = run[i].quiet
    BY <1>t DEF Run, RunPcs
  <1>8. run' = [x \in Forgers \cup Deltas |-> IF x = i THEN mine ELSE [run[x] EXCEPT !.quiet = FALSE]]
    BY <1>r DEF Replaces, Publish
  <1>9. run'[i] = mine
    BY <1>8
  <1> HIDE DEF mine
  <1>10. RunOK(i)'
    BY <1>1, <1>2, <1>7, <1>9, <1>t DEF RunOK, Saving
  <1>11. QuietOK(i)'
    BY <1>1, <1>7, <1>9, <1>n, <1>t DEF QuietOK, Saving
  <1>12. LoadOK(i)'
    BY <1>2, <1>7, <1>9, <1>t DEF LoadOK, Guarded
  <1>13. RunsNext(i)
    <2>1. Moved(i)
      BY <1>7, <1>9, <1>10, <1>11, <1>12 DEF Moved
    <2>2. \A j \in Forgers \cup Deltas : j # i => Kept(j)
      BY <1>8, <1>2 DEF Kept
    <2>3. run' = [j \in Forgers \cup Deltas |-> run'[j]]
      BY <1>8
    <2> QED  BY <2>1, <2>2, <2>3 DEF RunsNext
  <1> QED  BY <1>2, <1>3, <1>6, <1>13, StepKeeps

(* The medium gives the base another image, under the old seal.            *)
LEMMA DamageKeeps ==
  ASSUME DisksInv, Damage
  PROVE  DisksInv'
  <1>t. /\ run \in [Forgers \cup Deltas -> Run] /\ Len(ino) \in Nat
        /\ saves \in Nat /\ losses \in Nat /\ damages \in Nat
    BY DEF DisksInv, DiskTypeInv
  <1>1. names.base \in 1 .. Len(ino)
    <2>1. names.base \in 0 .. Len(ino) /\ names.base # 0
      BY DEF DisksInv, DiskTypeInv, PublishedInv, Paths
    <2> QED  BY <1>t, <2>1
  <1>2. PICK old : old = ino[names.base].img
    OBVIOUS
  <1>3. old \in Images /\ \E m \in made : old.mac = m.mac
    BY <1>1, <1>2, FileFacts DEF DisksInv, DiskTypeInv, SealInv
  <1>4. PICK img \in {[old EXCEPT !.radius = x] : x \in Radii}
                     \cup {[old EXCEPT !.body = x] : x \in SUBSET Centroids}
                     \cup {[old EXCEPT !.sealed = x] : x \in BOOLEAN} :
          ino' = Append(ino, [img |-> img, blocks |-> 2, synced |-> TRUE])
    BY <1>2 DEF Damage
  <1>5. img \in Images /\ img.mac = old.mac
    BY <1>3, <1>4 DEF Images
  <1>6. PICK f : f = [img |-> img, blocks |-> 2, synced |-> TRUE]
    OBVIOUS
  <1>7. f \in Files /\ f.img = img /\ f.blocks = 2 /\ f.synced
    BY <1>5, <1>6 DEF Files
  <1>8. UNCHANGED <<reader, deltaProofs, made, saves, losses>> /\ damages' = damages + 1
    BY DEF Damage
  <1>9. /\ FilesNext /\ MadeNext /\ Len(ino') = Len(ino) + 1 /\ ino'[Len(ino) + 1] = f
        /\ \A k \in 1 .. Len(ino) : ino'[k] = ino[k]
    BY <1>3, <1>4, <1>5, <1>6, <1>7, <1>8, Appending
  <1>10. NamesNext
    <2>1. PICK k : k = Len(ino) + 1
      OBVIOUS
    <2>2. "base" \in Paths /\ k \in 1 .. Len(ino') /\ ino'[k].blocks = 2 /\ ino'[k].synced
      BY <1>7, <1>9, <1>t, <2>1 DEF Paths
    <2>3. names' = [names EXCEPT !["base"] = k] /\ past' = [past EXCEPT !["base"] = past["base"] \cup {k}]
      BY <2>1 DEF Damage
    <2> QED  BY <1>9, <2>2, <2>3, NamesMove
  <1>11. run' = [x \in Forgers \cup Deltas |-> [run[x] EXCEPT !.quiet = FALSE]]
    BY <1>t DEF Damage
  <1>12. RunsNext(0)
    <2>1. ASSUME NEW j \in Forgers \cup Deltas PROVE Kept(j)
      <3>1. run[j].pc = "write" => run[j].tmp \in 1 .. Len(ino)
        BY RunFacts DEF RunOK, Saving
      <3> QED  BY <3>1, <1>9, <1>11 DEF Kept
    <2>2. run' = [j \in Forgers \cup Deltas |-> run'[j]]
      BY <1>11
    <2> QED  BY <2>1, <2>2 DEF RunsNext
  <1>13. ProofsNext /\ CountsNext
    BY <1>8, <1>t DEF ProofsNext, CountsNext
  <1> QED  BY <1>8, <1>9, <1>10, <1>12, <1>13, StepKeeps

(* A power loss truncates files that were not synced, and ends every run:  *)
(* paths name synced files only.                                           *)
LEMMA PowerLossKeeps ==
  ASSUME DisksInv, PowerLoss
  PROVE  DisksInv'
  <1>t. /\ ino \in Seq(Files) /\ Len(ino) \in Nat /\ DOMAIN ino = 1 .. Len(ino)
        /\ past \in [Paths -> SUBSET (0 .. Len(ino))]
        /\ saves \in Nat /\ losses \in Nat /\ damages \in Nat
    BY DEF DisksInv, DiskTypeInv
  <1>1. PICK keep \in 0 .. 2, n \in [{"base", "out"} -> UNION {past[x] : x \in DOMAIN past}] :
          /\ \A x \in DOMAIN past : n[x] \in past[x]
          /\ names' = n
          /\ past' = [x \in DOMAIN past |-> {n[x]}]
          /\ ino' = [k \in DOMAIN ino |-> IF ino[k].synced \/ ino[k].blocks < keep THEN ino[k]
                                            ELSE [ino[k] EXCEPT !.blocks = keep]]
    BY DEF PowerLoss
  <1>2. /\ losses' = losses + 1 /\ UNCHANGED <<deltaProofs, made, saves, damages>>
        /\ run' = [i \in Forgers \cup Deltas |-> IdleRun]
        /\ reader' = [j \in Readers |-> [pc |-> "idle", file |-> 0]]
    BY DEF PowerLoss
  <1>3. \A k \in 1 .. Len(ino) :
          ino'[k] \in Files /\ ino'[k].img = ino[k].img /\ (ino[k].synced => ino'[k] = ino[k])
    <2>1. ASSUME NEW k \in 1 .. Len(ino)
          PROVE  ino'[k] \in Files /\ ino'[k].img = ino[k].img /\ (ino[k].synced => ino'[k] = ino[k])
      <3>1. ino[k] \in Files
        BY <1>t, FileFacts
      <3>2. ino'[k] = IF ino[k].synced \/ ino[k].blocks < keep THEN ino[k] ELSE [ino[k] EXCEPT !.blocks = keep]
        BY <1>1, <1>t
      <3> QED  BY <3>1, <3>2 DEF Files
    <2> QED  BY <2>1
  <1>4. ino' \in Seq(Files) /\ Len(ino') = Len(ino)
    <2>1. ino' \in [1 .. Len(ino) -> Files]
      <3>1. ino' = [k \in 1 .. Len(ino) |-> ino'[k]]
        BY <1>1, <1>t
      <3> QED  BY <3>1, <1>3
    <2>2. ino' \in Seq(Files)
      BY <2>1, <1>t, SeqDef
    <2> QED  BY <2>1, <2>2, <1>t, LenProperties
  <1>5. FilesKept
    BY <1>3, <1>4, <1>t DEF FilesKept
  <1>6. SealInv'
    BY <1>2, <1>3, <1>4 DEF DisksInv, SealInv
  <1>7. /\ names' \in [Paths -> 0 .. Len(ino')] /\ past' \in [Paths -> SUBSET (0 .. Len(ino'))]
        /\ \A x \in Paths : names'[x] \in past[x] /\ past'[x] = {names'[x]}
    <2>1. DOMAIN past = Paths /\ n \in [Paths -> UNION {past[x] : x \in DOMAIN past}]
      BY <1>1, <1>t DEF Paths
    <2>2. \A x \in Paths : n[x] \in past[x] /\ n[x] \in 0 .. Len(ino)
      BY <1>1, <1>t, <2>1
    <2>3. n \in [Paths -> 0 .. Len(ino)]
      BY <2>1, <2>2
    <2>4. past' = [x \in Paths |-> {n[x]}]
      BY <1>1, <2>1
    <2> QED  BY <1>1, <1>4, <2>2, <2>3, <2>4
  <1>8. PublishedInv'
    <2>1. ASSUME NEW x \in Paths, NEW k \in past'[x], k # 0
          PROVE  ino'[k].blocks = 2 /\ ino'[k].synced
      <3>1. k \in past[x]
        BY <1>7, <2>1
      <3>2. k \in 1 .. Len(ino) /\ ino[k].blocks = 2 /\ ino[k].synced
        BY <1>t, <2>1, <3>1 DEF DisksInv, PublishedInv
      <3> QED  BY <1>3, <3>2
    <2>2. 0 \notin past'.base
      <3>1. names'["base"] \in past["base"] /\ past'["base"] = {names'["base"]}
        BY <1>7 DEF Paths
      <3> QED  BY <3>1 DEF DisksInv, PublishedInv
    <2> QED  BY <1>7, <2>1, <2>2 DEF PublishedInv
  <1>9. RunInv' /\ TmpInv' /\ QuietInv'
    <2>1. \A i \in Forgers \cup Deltas : run'[i] = IdleRun
      BY <1>2
    <2>2. RunInv'
      BY <2>1, <1>4, <1>t, IdleFacts DEF RunInv, RunOK, Saving
    <2>3. TmpInv' /\ QuietInv'
      BY <2>1, IdleFacts DEF TmpInv, QuietInv, QuietOK
    <2> QED  BY <2>2, <2>3
  <1>10. LoadInv'
    BY <1>2, IdleFacts DEF LoadInv
  <1>11. ProofsNext
    BY <1>2 DEF ProofsNext
  <1>12. /\ deltaProofs' \subseteq [base : 0 .. Len(ino'), out : 0 .. Len(ino'), proven : BOOLEAN, alone : BOOLEAN]
         /\ ProofDescribes'
    BY <1>4, <1>5, <1>11, <1>t, DeltaProofsKept
  <1>13. run' \in [Forgers \cup Deltas -> Run]
    BY <1>2, IdleFacts
  <1>14. reader' \in [Readers -> [pc : {"idle", "mapped", "loaded"}, file : 0 .. Len(ino')]]
    BY <1>2, <1>4, <1>t
  <1>15. made' \subseteq Composed
    BY <1>2 DEF DisksInv, DiskTypeInv
  <1>16. DiskTypeInv'
    BY <1>2, <1>4, <1>7, <1>12, <1>13, <1>14, <1>15, <1>t DEF DiskTypeInv
  <1> QED  BY <1>6, <1>8, <1>9, <1>10, <1>12, <1>16 DEF DisksInv

(* A reader changes nothing but its own state.                             *)
LEMMA ReadStep ==
  ASSUME DisksInv, UNCHANGED <<ino, names, past, run, deltaProofs, made, bounds>>,
         NEW j \in Readers, NEW fresh \in [pc : {"idle", "mapped", "loaded"}, file : 0 .. Len(ino)],
         reader' = [reader EXCEPT ![j] = fresh],
         Guarded /\ fresh.pc = "loaded" => fresh.file # 0 /\ ino[fresh.file].img \in made
  PROVE  DisksInv'
  <1>1. DiskTypeInv'
    BY DEF DisksInv, DiskTypeInv, bounds
  <1>2. LoadInv'
    BY DEF DisksInv, DiskTypeInv, LoadInv, Guarded
  <1>3. SealInv' /\ PublishedInv' /\ TmpInv'
    BY DEF DisksInv, SealInv, PublishedInv, TmpInv
  <1>4. RunInv' /\ QuietInv'
    BY DEF DisksInv, RunInv, RunOK, QuietInv, QuietOK
  <1>5. ProofDescribes'
    <2>1. FilesKept /\ ProofsNext /\ Len(ino') \in Nat
      BY DEF DisksInv, DiskTypeInv, FilesKept, ProofsNext
    <2> QED  BY <2>1, DeltaProofsKept
  <1> QED  BY <1>1, <1>2, <1>3, <1>4, <1>5 DEF DisksInv

LEMMA ReadKeeps ==
  ASSUME DisksInv, NEW j \in Readers, Read(j)
  PROVE  DisksInv'
  <1>t. Len(ino) \in Nat /\ reader[j].file \in 0 .. Len(ino) /\ DOMAIN names = Paths /\ names \in [Paths -> 0 .. Len(ino)]
    BY DEF DisksInv, DiskTypeInv
  <1>1. ASSUME NEW n \in DOMAIN names, Open(j, n) PROVE DisksInv'
    <2>1. PICK fresh : fresh = [pc |-> "mapped", file |-> names[n]]
      OBVIOUS
    <2>2. fresh \in [pc : {"idle", "mapped", "loaded"}, file : 0 .. Len(ino)] /\ fresh.pc # "loaded"
      BY <1>t, <1>1, <2>1
    <2>3. reader' = [reader EXCEPT ![j] = fresh] /\ UNCHANGED <<ino, names, past, run, deltaProofs, made, bounds>>
      BY <1>1, <2>1 DEF Open
    <2> QED  BY <2>2, <2>3, ReadStep
  <1>2. ASSUME Decode(j) PROVE DisksInv'
    <2>1. PICK fresh : fresh = IF Loads(reader[j].file) THEN [pc |-> "loaded", file |-> reader[j].file]
                               ELSE [pc |-> "idle", file |-> 0]
      OBVIOUS
    <2>2. fresh \in [pc : {"idle", "mapped", "loaded"}, file : 0 .. Len(ino)]
      BY <1>t, <2>1
    <2>3. reader' = [reader EXCEPT ![j] = fresh] /\ UNCHANGED <<ino, names, past, run, deltaProofs, made, bounds>>
      BY <1>2, <2>1 DEF Decode
    <2>4. ASSUME Guarded, fresh.pc = "loaded" PROVE fresh.file # 0 /\ ino[fresh.file].img \in made
      <3>1. Loads(reader[j].file) /\ fresh.file = reader[j].file
        BY <2>1, <2>4
      <3>2. reader[j].file \in 1 .. Len(ino)
        BY <1>t, <3>1 DEF Loads
      <3> QED  BY <2>4, <3>1, <3>2, Genuine DEF DisksInv
    <2> QED  BY <2>2, <2>3, <2>4, ReadStep
  <1>3. ASSUME Close(j) PROVE DisksInv'
    <2>1. PICK fresh : fresh = [pc |-> "idle", file |-> 0]
      OBVIOUS
    <2>2. fresh \in [pc : {"idle", "mapped", "loaded"}, file : 0 .. Len(ino)] /\ fresh.pc # "loaded"
      BY <1>t, <2>1
    <2>3. reader' = [reader EXCEPT ![j] = fresh] /\ UNCHANGED <<ino, names, past, run, deltaProofs, made, bounds>>
      BY <1>3, <2>1 DEF Close
    <2> QED  BY <2>2, <2>3, ReadStep
  <1> QED  BY <1>1, <1>2, <1>3 DEF Read

(* DisksInv holds at the start,                                            *)
LEMMA DisksStart == FloppyInit => DisksInv
  <1> SUFFICES ASSUME FloppyInit PROVE DisksInv
    OBVIOUS
  <1>1. PICK x \in Radii, c \in SUBSET Centroids :
          /\ ino = <<[img |-> Image(c, x, Key), blocks |-> 2, synced |-> TRUE]>>
          /\ made = {Image(c, x, Key)}
    BY DEF FloppyInit
  <1>2. Image(c, x, Key) \in Images /\ Image(c, x, Key) \in Composed
    <2>1. Image(c, x, Key) \in Composed
      BY DEF Composed
    <2> QED  BY <2>1, ImageFacts
  <1>3. PICK f : f = [img |-> Image(c, x, Key), blocks |-> 2, synced |-> TRUE]
    OBVIOUS
  <1>4. f \in Files /\ f.img = Image(c, x, Key) /\ f.blocks = 2 /\ f.synced
    BY <1>2, <1>3 DEF Files
  <1>5. ino = <<f>> /\ ino \in Seq(Files) /\ Len(ino) = 1 /\ ino[1] = f
    BY <1>1, <1>3, <1>4
  <1>6. /\ names = [n \in {"base", "out"} |-> IF n = "base" THEN 1 ELSE 0]
        /\ past = [n \in {"base", "out"} |-> IF n = "base" THEN {1} ELSE {0}]
        /\ run = [i \in Forgers \cup Deltas |-> IdleRun]
        /\ reader = [i \in Readers |-> [pc |-> "idle", file |-> 0]]
        /\ deltaProofs = {} /\ saves = 0 /\ losses = 0 /\ damages = 0
    BY DEF FloppyInit
  <1>7. DiskTypeInv
    <2>1. names \in [Paths -> 0 .. Len(ino)] /\ past \in [Paths -> SUBSET (0 .. Len(ino))]
      BY <1>5, <1>6 DEF Paths
    <2>2. run \in [Forgers \cup Deltas -> Run]
      BY <1>6, IdleFacts
    <2>3. reader \in [Readers -> [pc : {"idle", "mapped", "loaded"}, file : 0 .. Len(ino)]]
      BY <1>5, <1>6
    <2> QED  BY <1>1, <1>2, <1>5, <1>6, <2>1, <2>2, <2>3 DEF DiskTypeInv
  <1>8. SealInv
    BY <1>1, <1>4, <1>5 DEF SealInv
  <1>9. PublishedInv
    BY <1>4, <1>5, <1>6 DEF PublishedInv, Paths
  <1>10. RunInv /\ TmpInv /\ QuietInv
    <2>1. \A i \in Forgers \cup Deltas : run[i] = IdleRun
      BY <1>6
    <2>2. RunInv
      BY <2>1, <1>5, IdleFacts DEF RunInv, RunOK, Saving
    <2> QED  BY <2>1, <2>2, IdleFacts DEF TmpInv, QuietInv, QuietOK
  <1>11. LoadInv /\ ProofDescribes
    BY <1>6, IdleFacts DEF LoadInv, ProofDescribes
  <1> QED  BY <1>7, <1>8, <1>9, <1>10, <1>11 DEF DisksInv

(* is kept by every step,                                                  *)
LEMMA DisksStep == DisksInv /\ [FloppyNext]_floppyVars => DisksInv'
  <1> SUFFICES ASSUME DisksInv, [FloppyNext]_floppyVars PROVE DisksInv'
    OBVIOUS
  <1>1. ASSUME NEW i \in Forgers, NEW c \in SUBSET Centroids, NEW x \in Radii, Forge(i, c, x) PROVE DisksInv'
    BY <1>1, ForgeKeeps
  <1>2. ASSUME NEW i \in Forgers \cup Deltas, Save(i) PROVE DisksInv'
    BY <1>2, CreateTempKeeps, WriteKeeps, SyncKeeps, RenameKeeps, FailsKeeps DEF Save
  <1>3. ASSUME NEW i \in Deltas, Delta(i) PROVE DisksInv'
    BY <1>3, OpenBaseKeeps, LoadBaseKeeps, HashBaseKeeps, CheckKeeps, PublishKeeps, LoadOutKeeps,
       ProvePatternKeeps, DiscoverKeeps DEF Delta
  <1>4. ASSUME NEW j \in Readers, Read(j) PROVE DisksInv'
    BY <1>4, ReadKeeps
  <1>5. ASSUME UNCHANGED floppyVars PROVE DisksInv'
    <2>1. UNCHANGED <<ino, names, past, run, reader, deltaProofs, made, saves, losses, damages>>
      BY <1>5 DEF floppyVars
    <2>2. DiskTypeInv'
      BY <2>1 DEF DisksInv, DiskTypeInv
    <2>3. LoadInv'
      BY <2>1 DEF DisksInv, LoadInv, Guarded
    <2>4. SealInv' /\ PublishedInv' /\ TmpInv'
      BY <2>1 DEF DisksInv, SealInv, PublishedInv, TmpInv
    <2>5. RunInv' /\ QuietInv'
      BY <2>1 DEF DisksInv, RunInv, RunOK, QuietInv, QuietOK
    <2>6. ProofDescribes'
      <3>1. FilesKept /\ ProofsNext /\ Len(ino') \in Nat
        BY <2>1 DEF DisksInv, DiskTypeInv, FilesKept, ProofsNext
      <3> QED  BY <3>1, DeltaProofsKept
    <2> QED  BY <2>2, <2>3, <2>4, <2>5, <2>6 DEF DisksInv
  <1> QED  BY <1>1, <1>2, <1>3, <1>4, <1>5, PowerLossKeeps, DamageKeeps DEF FloppyNext

(* and gives what readers rely on.                                         *)
LEMMA DisksEnough == DisksInv => DisksGenuine
  <1> SUFFICES ASSUME DisksInv PROVE DisksGenuine
    OBVIOUS
  <1>1. PublishedWhole
    BY DEF DisksInv, DiskTypeInv, PublishedInv, PublishedWhole, Whole
  <1>2. LoadedGenuine
    BY DEF DisksInv, LoadInv, LoadedGenuine, Guarded
  <1> QED  BY <1>1, <1>2 DEF DisksInv, DisksGenuine

(* SaveFloppyFile, LoadFloppyMmap and runDNSDelta: for any number of       *)
(* forgers, differential runs and readers, and any power losses and        *)
(* damages, every path names a complete disk, a disk that loads under a    *)
(* key is one that was composed, and a proof describes the two disks whose *)
(* hashes it gives unless one was replaced during its run.                 *)
THEOREM DisksAreGenuine == FloppySpec => []DisksGenuine
  <1>1. FloppyInit => DisksInv
    BY DisksStart
  <1>2. DisksInv /\ [FloppyNext]_floppyVars => DisksInv'
    BY DisksStep
  <1>3. DisksInv => DisksGenuine
    BY DisksEnough
  <1> QED  BY <1>1, <1>2, <1>3, PTL DEF FloppySpec
=============================================================================
