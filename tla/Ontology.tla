------------------------------ MODULE Ontology ------------------------------
(***************************************************************************)
(* The four-axis ontology of internal/engine/ontology_table.go and the     *)
(* context a probe establishes from the provenance of a process            *)
(* (DeriveCascadeContext of inference_cascade.go).  Pure operators: an     *)
(* axis value is the number the code gives it, since PackOntoKey packs     *)
(* the numbers into the fields of a 20-bit word.                           *)
(***************************************************************************)
EXTENDS Integers

SubjUnknown == 0
SubjRootSystemd == 1
SubjRootInteractive == 2
SubjUserInteractive == 3
SubjServiceUnpriv == 4
SubjContainerK8s == 5
SubjMemfdAnon == 6
SubjDeletedBinary == 7
SubjKernelWorker == 8

ActUnknown == 0
ActExecve == 1
ActMemfdCreate == 2
ActMprotectWX == 3
ActConnectNet == 4
ActWriteFile == 5
ActUnlinkFile == 6
ActSetxattr == 7
ActPrctlMasq == 8
ActDnsTunnel == 9

TgtUnknown == 0
TgtFIMEtc == 1
TgtFIMSsh == 2
TgtTmpExec == 3
TgtNetExternal == 5
TgtBinSystem == 6
TgtPipeInterpreter == 7

CtxDefault == 0
CtxSystemdUnit == 2
CtxInteractiveTTY == 3
CtxHighEntropy == 5
CtxMemfdSpoof == 7
CtxDeletedExe == 8
CtxAnonWX == 9
CtxTmpResidence == 10
CtxKworkerSpoof == 11

Byte == 0 .. 255

-----------------------------------------------------------------------------
(* The key: 6 bits of subject, 5 of action, 5 of target, 4 of context.     *)
PackOntoKey(subject, action, target, context) ==
  (subject % 64) + 64 * (action % 32) + 2048 * (target % 32) + 65536 * (context % 16)

SubjectOf(k) == k % 64
ActionOf(k)  == (k \div 64) % 32
TargetOf(k)  == (k \div 2048) % 32
ContextOf(k) == (k \div 65536) % 16

(* The axioms of EvaluateOntology, in its order; each one is a refusal but *)
(* for the first half of A1 and for B1.                                    *)
SealedFile(act, tgt) ==
  tgt \in {TgtFIMEtc, TgtFIMSsh} /\ act \in {ActWriteFile, ActUnlinkFile, ActSetxattr}

Refused(subj, act, tgt, ctx) ==
  \/ subj \in {SubjMemfdAnon, SubjDeletedBinary}                           \* A2
       /\ act \in {ActExecve, ActConnectNet, ActMprotectWX}
  \/ act \in {ActMemfdCreate, ActMprotectWX}                               \* A3
       /\ subj \in {SubjServiceUnpriv, SubjContainerK8s}
  \/ act = ActPrctlMasq /\ subj # SubjKernelWorker                         \* A4
  \/ tgt = TgtTmpExec /\ act = ActExecve                                   \* A5
       /\ (subj = SubjServiceUnpriv \/ ctx = CtxSystemdUnit)
  \/ tgt = TgtPipeInterpreter /\ act = ActExecve                           \* A6
  \/ act = ActDnsTunnel /\ ctx = CtxHighEntropy /\ tgt = TgtNetExternal    \* A7
  \/ ctx \in {CtxKworkerSpoof, CtxMemfdSpoof, CtxDeletedExe, CtxAnonWX}    \* A8
  \/ ctx = CtxTmpResidence /\ act \in {ActExecve, ActConnectNet}           \* A9

Certified(subj, act, tgt, ctx) ==                                          \* B1
  /\ act = ActExecve /\ tgt = TgtBinSystem
  /\ \/ subj = SubjRootSystemd /\ ctx = CtxSystemdUnit
     \/ subj \in {SubjUserInteractive, SubjRootInteractive} /\ ctx = CtxInteractiveTTY

EvaluateOntology(k) ==
  LET subj == SubjectOf(k)  act == ActionOf(k)  tgt == TargetOf(k)  ctx == ContextOf(k) IN
  IF SealedFile(act, tgt)
    THEN IF subj = SubjRootSystemd /\ ctx = CtxSystemdUnit THEN "allow" ELSE "deny"
  ELSE IF Refused(subj, act, tgt, ctx) THEN "deny"
  ELSE IF Certified(subj, act, tgt, ctx) THEN "allow"
  ELSE "ambiguous"

-----------------------------------------------------------------------------
(* A provenance: exe is the set of what the searches of DeriveOntoContext  *)
(* find in the target of /proc/<pid>/exe, and is empty when the target is; *)
(* kworker tells whether comm begins with "kworker".                       *)
ExeMarks == {"path", "memfd", "deleted", "tmp"}

Provenance == [PID : Nat, UID : Nat, EUID : Nat, LoginSession : BOOLEAN, HasTTY : BOOLEAN,
               SystemdUnit : BOOLEAN, exe : SUBSET ExeMarks, IsMemfd : BOOLEAN,
               IsDeleted : BOOLEAN, HasWXAnon : BOOLEAN, kworker : BOOLEAN]

DeriveOntoContext(pv) ==
  IF pv.kworker /\ (pv.PID > 2 \/ pv.exe # {}) THEN CtxKworkerSpoof
  ELSE IF pv.IsMemfd \/ "memfd" \in pv.exe THEN CtxMemfdSpoof
  ELSE IF pv.IsDeleted \/ "deleted" \in pv.exe THEN CtxDeletedExe
  ELSE IF pv.HasWXAnon THEN CtxAnonWX
  ELSE IF "tmp" \in pv.exe THEN CtxTmpResidence
  ELSE CtxDefault

SubjectOfProvenance(pv) ==
  IF pv.IsMemfd THEN SubjMemfdAnon
  ELSE IF pv.IsDeleted THEN SubjDeletedBinary
  ELSE IF pv.SystemdUnit /\ ~pv.LoginSession
    THEN IF pv.UID = 0 THEN SubjRootSystemd ELSE SubjServiceUnpriv
  ELSE IF pv.LoginSession /\ pv.HasTTY
    THEN IF pv.UID = 0 THEN SubjRootInteractive ELSE SubjUserInteractive
  ELSE SubjUnknown

(* Mutant of BenignContext: a setuid process keeps the context of its user. *)
BenignContextSetuid(pv) ==
  CASE SubjectOfProvenance(pv) \in {SubjRootSystemd, SubjServiceUnpriv} -> CtxSystemdUnit
    [] SubjectOfProvenance(pv) \in {SubjUserInteractive, SubjRootInteractive} -> CtxInteractiveTTY
    [] OTHER -> CtxDefault

(* The context of a process on which nothing hostile is found.             *)
BenignContext(pv) ==
  IF pv.EUID # pv.UID THEN CtxDefault
  ELSE CASE SubjectOfProvenance(pv) \in {SubjRootSystemd, SubjServiceUnpriv} -> CtxSystemdUnit
         [] SubjectOfProvenance(pv) \in {SubjUserInteractive, SubjRootInteractive} -> CtxInteractiveTTY
         [] OTHER -> CtxDefault

(* Mutant of DeriveCascadeContext: an established context comes first.     *)
DeriveCascadeContextBenign(pv) ==
  [Subject |-> SubjectOfProvenance(pv),
   Context |-> IF BenignContext(pv) # CtxDefault THEN BenignContext(pv) ELSE DeriveOntoContext(pv)]

DeriveCascadeContext(pv) ==
  LET hostile == DeriveOntoContext(pv) IN
  [Subject |-> SubjectOfProvenance(pv),
   Context |-> IF hostile # CtxDefault THEN hostile ELSE BenignContext(pv)]

(* EvaluateEvent, without a provenance: nothing is known.                  *)
NoContext == [Subject |-> SubjUnknown, Context |-> CtxDefault]

(* deriveCascadeOntoKey: the numbers of ev.Action and ev.Subsystem.        *)
OntoAction(a) ==
  CASE a = 1 -> ActExecve [] a = 2 -> ActWriteFile [] a = 3 -> ActConnectNet
    [] a = 7 -> ActMprotectWX [] OTHER -> ActUnknown

OntoTarget(s) ==
  CASE s = 1 -> TgtBinSystem [] s = 2 -> TgtTmpExec [] s = 3 -> TgtNetExternal
    [] s = 4 -> TgtPipeInterpreter [] OTHER -> TgtUnknown

deriveCascadeOntoKey(ev, cctx) ==
  PackOntoKey(cctx.Subject, OntoAction(ev.Action), OntoTarget(ev.Subsystem), cctx.Context)
=============================================================================
