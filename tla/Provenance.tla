----------------------------- MODULE Provenance -----------------------------
(***************************************************************************)
(* The path from the provenance of a process to the verdict of the         *)
(* ontology: a probe observes a process, DeriveCascadeContext names its    *)
(* context, deriveCascadeOntoKey packs it with the event and               *)
(* EvaluateOntology decides (inference_cascade.go, ontology_table.go).     *)
(***************************************************************************)
EXTENDS Ontology

CONSTANTS Observed   \* the provenances a probe may establish
ASSUME ObservedAssumption == Observed \subseteq Provenance

Request == [Subsystem : 1 .. 6, Action : 0 .. 7]

NoRequest == [Subsystem |-> 1, Action |-> 0]

VARIABLES
  pv,       \* what the probe found of the process
  ev,       \* the event to decide
  key,      \* its OntoKey
  verdict   \* of EvaluateOntology; "none" before
provenanceVars == <<pv, ev, key, verdict>>

ProvenanceInit ==
  /\ pv \in Observed /\ ev = NoRequest /\ key = 0 /\ verdict = "none"

Decide(e) ==
  LET k == deriveCascadeOntoKey(e, DeriveCascadeContext(pv)) IN
  /\ verdict = "none"
  /\ ev' = e /\ key' = k /\ verdict' = EvaluateOntology(k)
  /\ UNCHANGED pv

(* The next event of the process.                                          *)
Await ==
  /\ verdict # "none"
  /\ ev' = NoRequest /\ key' = 0 /\ verdict' = "none"
  /\ UNCHANGED pv

ProvenanceNext == (\E e \in Request : Decide(e)) \/ Await

ProvenanceSpec == ProvenanceInit /\ [][ProvenanceNext]_provenanceVars

(* A probe that finds any of these has found a hostile process.            *)
Hostile(p) ==
  \/ p.IsMemfd \/ p.IsDeleted \/ p.HasWXAnon \/ p.exe \cap {"memfd", "deleted"} # {}
  \/ p.kworker /\ (p.PID > 2 \/ p.exe # {})

(* "A benign context is only given when the provenance establishes it      *)
(* without ambiguity and without setuid elevation": what the ontology      *)
(* certifies is the execution of a system binary by a root unit outside of *)
(* any session, or from a terminal of a login session, by a process that   *)
(* is not elevated and shows no hostile sign.                              *)
CertificationEarned ==
  verdict = "allow" =>
    /\ ev.Subsystem = 1 /\ ev.Action = 1
    /\ pv.EUID = pv.UID /\ ~Hostile(pv) /\ "tmp" \notin pv.exe
    /\ \/ pv.SystemdUnit /\ ~pv.LoginSession /\ pv.UID = 0
       \/ pv.LoginSession /\ pv.HasTTY

(* "The hostile contexts always prevail": a hostile process is refused     *)
(* whatever it does and whatever session or unit it belongs to, and one    *)
(* that runs from a temporary directory may neither execute nor connect.   *)
HostileRefused ==
  verdict # "none" =>
  /\ Hostile(pv) => verdict = "deny"
  /\ "tmp" \in pv.exe /\ ev.Action \in {1, 3} => verdict = "deny"

(* PackOntoKey loses nothing: the four axes read back from the 20-bit key  *)
(* are the ones the context and the event gave.                            *)
KeyFaithful ==
  LET c == DeriveCascadeContext(pv) IN
  verdict # "none" =>
  /\ key < 1048576   \* 2^20
  /\ SubjectOf(key) = c.Subject /\ ContextOf(key) = c.Context
  /\ ActionOf(key) = OntoAction(ev.Action) /\ TargetOf(key) = OntoTarget(ev.Subsystem)
=============================================================================
