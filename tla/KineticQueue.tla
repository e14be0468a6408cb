---------------------------- MODULE KineticQueue ----------------------------
(***************************************************************************)
(* FileArbitrageCinetique and ArbitreQwenCinetique of arbitre_slm.go: the  *)
(* bounded queue that takes escalated episodes off the observing path, its *)
(* one worker, and the model behind a gate of capacity one.  Goroutines    *)
(* submit, call the arbiter directly, reconfigure it, and close either of  *)
(* the two at any time and more than once; the callback of the queue may   *)
(* submit again.  What a verdict is does not matter here (KineticProfile). *)
(***************************************************************************)
EXTENDS Naturals, Sequences, SequencesExt, FiniteSets

CONSTANTS
  Clients,      \* goroutines that call SoumettreNonBloquant
  Directs,      \* goroutines that call ArbitrerEpisode themselves
  Configs,      \* goroutines that call DefinirConfigBrief
  QClosers,     \* goroutines that call FileArbitrageCinetique.Fermer
  AClosers,     \* goroutines that call ArbitreQwenCinetique.Fermer
  Capacite,     \* of the queue
  MaxSoumis     \* bound: the submissions of a behaviour

Worker == "worker"
Nobody == "nobody"

(* A goroutine has one of the roles; the worker has its own.               *)
ASSUME QueueAssumption ==
  /\ Capacite \in Nat \ {0} /\ MaxSoumis \in Nat
  /\ IsFiniteSet(Clients)
  /\ {Worker, Nobody} \cap (Clients \cup Directs \cup Configs \cup QClosers \cup AClosers) = {}
  /\ Clients \cap (Directs \cup Configs \cup QClosers \cup AClosers) = {}
  /\ Directs \cap (Configs \cup QClosers \cup AClosers) = {}
  /\ Configs \cap (QClosers \cup AClosers) = {} /\ QClosers \cap AClosers = {}

Submitters == Clients \cup {Worker}
Arbiters == Directs \cup {Worker}

VARIABLES
  pc,         \* where every goroutine is
  readers,    \* who holds muSoumission for reading
  writer,     \* who holds it for writing, or waits for it
  fermee, file, closed,                  \* the queue
  soumis, ignores, ecartes, arbitres, erreurs,   \* its counters
  current,    \* the dossier of the worker
  issued,     \* the dossiers created so far
  accepted,   \* history: the dossiers that the queue took
  verdicts, failed,   \* history: the dossiers of which a verdict or an error is known
  gate,       \* who holds verrouGate
  arret,      \* the channel arret is closed
  moteur,     \* the engine is mapped
  onceQ, onceA        \* the state of the two sync.Once: "idle", "run" or "done"

qvars == <<readers, writer, fermee, file, closed>>
cvars == <<soumis, ignores, ecartes, arbitres, erreurs>>
hvars == <<current, issued, accepted, verdicts, failed>>
avars == <<gate, arret, moteur>>
queueVars == <<pc, qvars, cvars, hvars, avars, onceQ, onceA>>

Goroutines == Submitters \cup Directs \cup Configs \cup QClosers \cup AClosers

QueueInit ==
  /\ pc = [g \in Goroutines |-> IF g = Worker THEN "receive" ELSE "idle"]
  /\ readers = {} /\ writer = Nobody
  /\ fermee = FALSE /\ file = <<>> /\ closed = FALSE
  /\ soumis = 0 /\ ignores = 0 /\ ecartes = 0 /\ arbitres = 0 /\ erreurs = 0
  /\ current = 0 /\ issued = 0 /\ accepted = {} /\ verdicts = {} /\ failed = {}
  /\ gate = Nobody /\ arret = FALSE /\ moteur = TRUE
  /\ onceQ = "idle" /\ onceA = "idle"

Goto(g, l) == pc' = [pc EXCEPT ![g] = l]

-----------------------------------------------------------------------------
(* SoumettreNonBloquant.  The worker comes here from its callback.         *)
Back(g) == IF g = Worker THEN "receive" ELSE "idle"

Soumettre(g) ==
  /\ pc[g] = IF g = Worker THEN "callback" ELSE "idle"
  /\ issued < MaxSoumis
  /\ issued' = issued + 1
  /\ Goto(g, "enter")
  /\ UNCHANGED <<qvars, cvars, current, accepted, verdicts, failed, avars, onceQ, onceA>>

(* A writer that waits for the lock holds new readers back.                *)
RLock(g) ==
  /\ pc[g] = "enter" /\ writer = Nobody
  /\ readers' = readers \cup {g}
  /\ Goto(g, "rlocked")
  /\ UNCHANGED <<writer, fermee, file, closed, cvars, hvars, avars, onceQ, onceA>>

RefuseClosed(g) ==
  /\ pc[g] = "rlocked" /\ fermee
  /\ readers' = readers \ {g}
  /\ Goto(g, Back(g))
  /\ UNCHANGED <<writer, fermee, file, closed, cvars, hvars, avars, onceQ, onceA>>

IgnoreNominal(g) ==
  /\ pc[g] = "rlocked" /\ ~fermee
  /\ ignores' = ignores + 1
  /\ readers' = readers \ {g}
  /\ Goto(g, Back(g))
  /\ UNCHANGED <<writer, fermee, file, closed, soumis, ecartes, arbitres, erreurs, hvars,
                 avars, onceQ, onceA>>

(* The non-blocking send; the worker may take the dossier before           *)
(* TotalSoumis counts it.  Dossiers are told apart by a number.            *)
Send(g) ==
  /\ pc[g] = "rlocked" /\ ~fermee /\ Len(file) < Capacite
  /\ LET n == Cardinality(accepted) + 1
     IN file' = Append(file, n) /\ accepted' = accepted \cup {n}
  /\ Goto(g, "sent")
  /\ UNCHANGED <<readers, writer, fermee, closed, cvars, current, issued, verdicts, failed,
                 avars, onceQ, onceA>>

CountSent(g) ==
  /\ pc[g] = "sent"
  /\ soumis' = soumis + 1
  /\ readers' = readers \ {g}
  /\ Goto(g, Back(g))
  /\ UNCHANGED <<writer, fermee, file, closed, ignores, ecartes, arbitres, erreurs, hvars,
                 avars, onceQ, onceA>>

RefuseFull(g) ==
  /\ pc[g] = "rlocked" /\ ~fermee /\ Len(file) = Capacite
  /\ ecartes' = ecartes + 1
  /\ readers' = readers \ {g}
  /\ Goto(g, Back(g))
  /\ UNCHANGED <<writer, fermee, file, closed, soumis, ignores, arbitres, erreurs, hvars,
                 avars, onceQ, onceA>>

-----------------------------------------------------------------------------
(* FileArbitrageCinetique.Fermer, run once; later callers wait for it.     *)
CloseBegin(k) ==
  /\ pc[k] = "idle" /\ onceQ = "idle"
  /\ onceQ' = "run"
  /\ writer' = k
  /\ Goto(k, "lock")
  /\ UNCHANGED <<readers, fermee, file, closed, cvars, hvars, avars, onceA>>

(* Mutant of CloseQueue: the channel is closed under the readers.          *)
CloseQueueEarly(k) ==
  /\ pc[k] = "lock"
  /\ fermee' = TRUE /\ closed' = TRUE
  /\ writer' = Nobody
  /\ Goto(k, "drain")
  /\ UNCHANGED <<readers, file, cvars, hvars, avars, onceQ, onceA>>

CloseQueue(k) ==
  /\ pc[k] = "lock" /\ readers = {}
  /\ fermee' = TRUE /\ closed' = TRUE
  /\ writer' = Nobody
  /\ Goto(k, "drain")
  /\ UNCHANGED <<readers, file, cvars, hvars, avars, onceQ, onceA>>

CloseReturn(k) ==
  /\ pc[k] = "drain" /\ pc[Worker] = "ended"
  /\ onceQ' = "done"
  /\ Goto(k, "closed")
  /\ UNCHANGED <<qvars, cvars, hvars, avars, onceA>>

CloseWait(k) ==
  /\ pc[k] = "idle" /\ onceQ # "idle"
  /\ Goto(k, "once")
  /\ UNCHANGED <<qvars, cvars, hvars, avars, onceQ, onceA>>

CloseAgain(k) ==
  /\ pc[k] = "once" /\ onceQ = "done"
  /\ Goto(k, "closed")
  /\ UNCHANGED <<qvars, cvars, hvars, avars, onceQ, onceA>>

-----------------------------------------------------------------------------
(* boucleTravailleur and traiterDossier.                                   *)
Receive ==
  /\ pc[Worker] = "receive" /\ file # <<>>
  /\ current' = Head(file)
  /\ file' = Tail(file)
  /\ Goto(Worker, "select")
  /\ UNCHANGED <<readers, writer, fermee, closed, cvars, issued, accepted, verdicts, failed,
                 avars, onceQ, onceA>>

WorkerEnd ==
  /\ pc[Worker] = "receive" /\ file = <<>> /\ closed
  /\ Goto(Worker, "ended")
  /\ UNCHANGED <<qvars, cvars, hvars, avars, onceQ, onceA>>

CountVerdict ==
  /\ pc[Worker] = "answered"
  /\ arbitres' = arbitres + 1
  /\ verdicts' = verdicts \cup {current}
  /\ Goto(Worker, "callback")
  /\ UNCHANGED <<qvars, soumis, ignores, ecartes, erreurs, current, issued, accepted, failed,
                 avars, onceQ, onceA>>

CountError ==
  /\ pc[Worker] = "refused"
  /\ erreurs' = erreurs + 1
  /\ failed' = failed \cup {current}
  /\ Goto(Worker, "receive")
  /\ UNCHANGED <<qvars, soumis, ignores, ecartes, arbitres, current, issued, accepted, verdicts,
                 avars, onceQ, onceA>>

(* The callback returns without submitting.                                *)
CallbackReturn ==
  /\ pc[Worker] = "callback"
  /\ Goto(Worker, "receive")
  /\ UNCHANGED <<qvars, cvars, hvars, avars, onceQ, onceA>>

-----------------------------------------------------------------------------
(* ArbitrerEpisode of an escalated episode.  The worker enters it from     *)
(* Receive; a direct caller makes one call.                                *)
DirectCall(c) ==
  /\ pc[c] = "idle"
  /\ Goto(c, "select")
  /\ UNCHANGED <<qvars, cvars, hvars, avars, onceQ, onceA>>

(* The select: the context ends, arret is closed, or the gate is free; a   *)
(* ready case is chosen at random.                                         *)
SelectContext(c) ==
  /\ pc[c] = "select"
  /\ Goto(c, "refused")
  /\ UNCHANGED <<qvars, cvars, hvars, avars, onceQ, onceA>>

SelectArret(c) ==
  /\ pc[c] = "select" /\ arret
  /\ Goto(c, "refused")
  /\ UNCHANGED <<qvars, cvars, hvars, avars, onceQ, onceA>>

SelectGate(c) ==
  /\ pc[c] = "select" /\ gate = Nobody
  /\ gate' = c
  /\ Goto(c, "held")
  /\ UNCHANGED <<qvars, cvars, hvars, arret, moteur, onceQ, onceA>>

(* The checks that are made again under the gate.                          *)
HeldRefuse(c) ==
  /\ pc[c] = "held"          \* the context has ended, or arret is closed
  /\ gate' = Nobody
  /\ Goto(c, "refused")
  /\ UNCHANGED <<qvars, cvars, hvars, arret, moteur, onceQ, onceA>>

HeldInfer(c) ==
  /\ pc[c] = "held" /\ ~arret
  /\ Goto(c, "infer")
  /\ UNCHANGED <<qvars, cvars, hvars, avars, onceQ, onceA>>

(* The brief, the inference and the veto: a verdict, or a brief too long.  *)
(* Mutant of InferEnd: a refusal keeps the gate.                           *)
InferEndKeeps(c) ==
  /\ pc[c] = "infer"
  /\ \E l \in {"answered", "refused"} :
       /\ Goto(c, l)
       /\ gate' = IF l = "refused" THEN gate ELSE Nobody
  /\ UNCHANGED <<qvars, cvars, hvars, arret, moteur, onceQ, onceA>>
InferEnd(c) ==
  /\ pc[c] = "infer"
  /\ gate' = Nobody
  /\ \E l \in {"answered", "refused"} : Goto(c, l)
  /\ UNCHANGED <<qvars, cvars, hvars, arret, moteur, onceQ, onceA>>

(* DefinirConfigBrief: takes the gate, whether the arbiter is closed or not. *)
ConfigTake(c) ==
  /\ pc[c] = "idle" /\ gate = Nobody
  /\ gate' = c
  /\ Goto(c, "write")
  /\ UNCHANGED <<qvars, cvars, hvars, arret, moteur, onceQ, onceA>>

ConfigWrite(c) ==
  /\ pc[c] = "write"
  /\ gate' = Nobody
  /\ Goto(c, "ended")
  /\ UNCHANGED <<qvars, cvars, hvars, arret, moteur, onceQ, onceA>>

(* ArbitreQwenCinetique.Fermer.                                            *)
ArretClose(k) ==
  /\ pc[k] = "idle" /\ onceA = "idle"
  /\ onceA' = "run"
  /\ arret' = TRUE
  /\ Goto(k, "gate")
  /\ UNCHANGED <<qvars, cvars, hvars, gate, moteur, onceQ>>

ArretTake(k) ==
  /\ pc[k] = "gate" /\ gate = Nobody
  /\ gate' = k
  /\ Goto(k, "unmap")
  /\ UNCHANGED <<qvars, cvars, hvars, arret, moteur, onceQ, onceA>>

Unmap(k) ==
  /\ pc[k] = "unmap"
  /\ moteur' = FALSE
  /\ gate' = Nobody
  /\ onceA' = "done"
  /\ Goto(k, "closed")
  /\ UNCHANGED <<qvars, cvars, hvars, arret, onceQ>>

ArretWait(k) ==
  /\ pc[k] = "idle" /\ onceA # "idle"
  /\ Goto(k, "once")
  /\ UNCHANGED <<qvars, cvars, hvars, avars, onceQ, onceA>>

ArretAgain(k) ==
  /\ pc[k] = "once" /\ onceA = "done"
  /\ Goto(k, "closed")
  /\ UNCHANGED <<qvars, cvars, hvars, avars, onceQ, onceA>>

-----------------------------------------------------------------------------
Submission(g) ==
  RLock(g) \/ RefuseClosed(g) \/ IgnoreNominal(g) \/ Send(g) \/ CountSent(g) \/ RefuseFull(g)
Arbitration(c) ==
  \/ SelectContext(c) \/ SelectArret(c) \/ SelectGate(c)
  \/ HeldRefuse(c) \/ HeldInfer(c) \/ InferEnd(c)
WorkerStep == Receive \/ WorkerEnd \/ CountVerdict \/ CountError \/ CallbackReturn
QClose(k) == CloseQueue(k) \/ CloseReturn(k) \/ CloseAgain(k)
AClose(k) == ArretTake(k) \/ Unmap(k) \/ ArretAgain(k)

QueueNext ==
  \/ \E g \in Submitters : Soumettre(g) \/ Submission(g)
  \/ \E c \in Arbiters : Arbitration(c)
  \/ \E c \in Directs : DirectCall(c)
  \/ \E c \in Configs : ConfigTake(c) \/ ConfigWrite(c)
  \/ WorkerStep
  \/ \E k \in QClosers : CloseBegin(k) \/ CloseWait(k) \/ QClose(k)
  \/ \E k \in AClosers : ArretClose(k) \/ ArretWait(k) \/ AClose(k)

QueueSpec == QueueInit /\ [][QueueNext]_queueVars

(* The goroutines run, an inference ends, and a goroutine that waits for   *)
(* the gate gets it: channels serve their senders in order.  A context     *)
(* need not end.                                                           *)
QueueFairness ==
  /\ \A g \in Submitters : WF_queueVars(Submission(g))
  /\ \A c \in Arbiters : /\ SF_queueVars(SelectArret(c) \/ SelectGate(c))
                         /\ WF_queueVars(HeldRefuse(c) \/ HeldInfer(c) \/ InferEnd(c))
  /\ \A c \in Configs : WF_queueVars(ConfigWrite(c))
  /\ WF_queueVars(WorkerStep)
  /\ \A k \in QClosers : WF_queueVars(QClose(k))
  /\ \A k \in AClosers : SF_queueVars(ArretTake(k)) /\ WF_queueVars(Unmap(k) \/ ArretAgain(k))

-----------------------------------------------------------------------------
QueueTypeOK ==
  /\ readers \subseteq Submitters /\ writer \in QClosers \cup {Nobody}
  /\ fermee \in BOOLEAN /\ closed \in BOOLEAN /\ arret \in BOOLEAN /\ moteur \in BOOLEAN
  /\ file \in Seq(1 .. MaxSoumis) /\ Len(file) <= Capacite
  /\ {soumis, ignores, ecartes, arbitres, erreurs} \subseteq 0 .. MaxSoumis
  /\ gate \in Goroutines \cup {Nobody}
  /\ onceQ \in {"idle", "run", "done"} /\ onceA \in {"idle", "run", "done"}

(* No submission sends on the closed channel: a goroutine that has looked  *)
(* at fermee keeps the channel open until it has sent.                     *)
NoSendOnClosed ==
  \A g \in Submitters : (pc[g] = "rlocked" /\ ~fermee) \/ pc[g] = "sent" => ~closed

(* "Invariant exact après Fermer": once Fermer has returned to any caller, *)
(* TotalSoumis is TotalArbitres plus TotalErreursArbitrage, and every      *)
(* dossier that was accepted had one outcome and only one, also when the   *)
(* arbiter was closed first and when the callback submitted again.         *)
ExactAfterClose ==
  (\E k \in QClosers : pc[k] = "closed") =>
    /\ soumis = arbitres + erreurs
    /\ accepted = verdicts \cup failed /\ verdicts \cap failed = {}
    /\ file = <<>>

(* The queue does not panic, and its accounts are exact once it is closed. *)
QueueExact == QueueTypeOK /\ NoSendOnClosed /\ ExactAfterClose

(* The model is used by one goroutine at a time and never once its         *)
(* segments are unmapped; nobody reconfigures it during an inference.      *)
EngineAlone ==
  LET inside == {g \in Goroutines : pc[g] \in {"infer", "write", "unmap"}}
  IN Cardinality(inside) <= 1 /\ (\A g \in inside : pc[g] = "infer" => moteur)

(* Neither loses a dossier nor an outcome, and neither panics.             *)
QueueSound == QueueExact /\ EngineAlone

(* Every Fermer returns, of the queue and of the arbiter, in either order, *)
(* by the first and by the later callers.                                  *)
ClosersReturn ==
  /\ \A k \in QClosers : pc[k] \in {"lock", "once"} ~> pc[k] = "closed"
  /\ \A k \in AClosers : pc[k] \in {"gate", "once"} ~> pc[k] = "closed"
=============================================================================
