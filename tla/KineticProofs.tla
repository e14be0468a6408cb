---------------------------- MODULE KineticProofs ----------------------------
(***************************************************************************)
(* The physical veto is sound and stable for every configuration whose     *)
(* drift threshold is at least the three steps that the veto itself asks   *)
(* for, for every measure and every number of ways.  The argument: what    *)
(* the table calls a drift has grown for SeuilPas steps, and what it calls *)
(* a storage stall has disk activity on a processor at rest (Fonde); from  *)
(* this the two properties of the veto are a matter of its six rules.      *)
(* The arbitration queue loses nothing, and its model is used alone, for   *)
(* every number of goroutines, every capacity and every number of calls.   *)
(* The counters of the collector are those of their process, for every     *)
(* size of the table and every number of processes.                        *)
(***************************************************************************)
EXTENDS KineticProfile, KineticQueue, NetCollector, FiniteSetTheorems, SequenceTheorems, WellFoundedInduction,
        NaturalsInduction, TLAPS

(* What an orientation of the table rests on.                              *)
Fonde(d) ==
  /\ d.orientation = "derive" => HausseMemoire(d)
  /\ d.orientation = "degradationES" => ActiviteDisque(d.ep) /\ ~d.ep.psi /\ ~d.ep.migration

PasDesVoies == \A v \in 1 .. Voies : voies[v].pas \in Nat
IInv == /\ DOMAIN voies = 1 .. Voies /\ PasDesVoies
        /\ diag.orientation \in Orientations
        /\ Fonde(diag)

-----------------------------------------------------------------------------
(* The verdict kept for a diagnostic whose orientation is founded is       *)
(* physically possible.                                                    *)
LEMMA FoundedIsPhysical ==
  ASSUME NEW d, Fonde(d), NEW v \in Verdicts
  PROVE  /\ Veto(d, v) = "materielle" => ActiviteDisque(d.ep)
         /\ Veto(d, v) = "compromission" => ~AucunCanal(d.ep)
         /\ Veto(d, v) = "derive" => HausseMemoire(d)
         /\ PreuveConvergente(d) => Veto(d, v) = "compromission"
         /\ Veto(d, v) = "compromission" => v = Veto(d, v) \/ IndiceHostile(d.ep)
<1>1. PreuveConvergente(d) => IndiceHostile(d.ep)
  BY DEF PreuveConvergente
<1>2. AucunCanal(d.ep) => ~IndiceHostile(d.ep)
  BY DEF AucunCanal
<1>3. CASE v = "materielle"
  BY <1>1, <1>2, <1>3 DEF Veto, SansDisque, DeriveProuvee, Contention, Fonde
<1>4. CASE v = "compromission"
  BY <1>1, <1>2, <1>4 DEF Veto, SansReseau, DeriveProuvee, Contention, Fonde
<1>5. CASE v = "derive"
  BY <1>1, <1>2, <1>5 DEF Veto, SansHausse, DeriveProuvee, Contention, Fonde
<1>6. CASE v = "contention"
  BY <1>1, <1>2, <1>6 DEF Veto, DeriveProuvee, Contention, Fonde
<1>7. QED
  BY <1>3, <1>4, <1>5, <1>6 DEF Verdicts

(* The rules accept the verdict that they impose.                          *)
LEMMA FoundedIsStable ==
  ASSUME NEW d, Fonde(d), NEW v \in Verdicts
  PROVE  Veto(d, Veto(d, v)) = Veto(d, v)
<1>1. PreuveConvergente(d) => ~AucunCanal(d.ep)
  BY DEF PreuveConvergente, AucunCanal
<1>2. CASE v = "materielle"
  BY <1>1, <1>2 DEF Veto, SansDisque, SansReseau, SansHausse, DeriveProuvee, Contention, Fonde
<1>3. CASE v = "compromission"
  BY <1>1, <1>3 DEF Veto, SansDisque, SansReseau, SansHausse, DeriveProuvee, Contention, Fonde
<1>4. CASE v = "derive"
  BY <1>1, <1>4 DEF Veto, SansDisque, SansReseau, SansHausse, DeriveProuvee, Contention, Fonde
<1>5. CASE v = "contention"
  BY <1>1, <1>5 DEF Veto, SansDisque, SansReseau, SansHausse, DeriveProuvee, Contention, Fonde
<1>6. QED
  BY <1>2, <1>3, <1>4, <1>5 DEF Verdicts

-----------------------------------------------------------------------------
(* The number of steps that a call counts is a number.                     *)
LEMMA PasIsNat ==
  ASSUME NEW e, e.pas \in Nat, NEW ep, NEW amorcage \in BOOLEAN
  PROVE  PasMonotone(e, ep, amorcage) \in Nat
<1>1. \A a \in Nat : Min({a, 65535}) \in Nat
  BY SMT DEF Min
<1>2. QED
  BY <1>1 DEF PasMonotone

(* What the table finds is founded, whatever the entry and the episode.    *)
LEMMA DiagnosticIsFounded ==
  ASSUME SeuilPas \in Nat, SeuilPas >= 3, NEW e, e.pas \in Nat, NEW ep
  PROVE  /\ Fonde(Diagnostic(e, ep))
         /\ Diagnostic(e, ep).pas \in Nat
         /\ Diagnostic(e, ep).orientation \in Orientations
         /\ Diagnostic(e, ep).ep = ep
<1> DEFINE amorcage == EnAmorcage(e, ep)
           ecarts == [q \in Compares(e, ep, amorcage) |-> EvaluerEcart(e.quotients[q], ep.valeurs[q])]
           d == [ep |-> ep, amorcage |-> amorcage, pas |-> PasMonotone(e, ep, amorcage),
                 variations |-> [q \in Quotients |-> IF q \in DOMAIN ecarts THEN ecarts[q].pct ELSE 0],
                 alertes |-> Alertes(ep, ecarts), orientation |-> "amorcage"]
           f == [d EXCEPT !.orientation = DeterminerOrientation(d)]
<1>1. Diagnostic(e, ep) = f
  BY Zenon DEF Diagnostic
<1>2. amorcage \in BOOLEAN
  BY DEF EnAmorcage
<1>3. d.pas \in Nat
  BY <1>2, PasIsNat
<1>. HIDE DEF amorcage, ecarts
<1>4. /\ f.pas = d.pas /\ f.ep = d.ep /\ f.variations = d.variations
      /\ f.orientation = DeterminerOrientation(d) /\ d.ep = ep
  OBVIOUS
<1>. HIDE DEF d, f
<1>5. f.orientation \in Orientations
  BY <1>4 DEF DeterminerOrientation, Orientations
<1>6. f.orientation = "derive" => Fuite(d)
  BY <1>4 DEF DeterminerOrientation
<1>7. f.orientation = "degradationES" => Blocage(d)
  BY <1>4 DEF DeterminerOrientation
<1>8. Fuite(d) => d.pas >= 3
  BY <1>3 DEF Fuite
<1>9. Blocage(d) => ActiviteDisque(d.ep) /\ ~d.ep.psi /\ ~d.ep.migration
  BY DEF Blocage, Abstention
<1>10. Fonde(f)
  BY <1>4, <1>6, <1>7, <1>8, <1>9 DEF Fonde, HausseMemoire
<1>11. QED
  BY <1>1, <1>3, <1>4, <1>5, <1>10

-----------------------------------------------------------------------------
(* The orientations that the table gives are founded at every call.        *)
LEMMA Founded ==
  ASSUME SeuilPas >= 3
  PROVE  Spec => []IInv
<1>0. SeuilPas \in Nat
  BY ProfileAssumption
<1>1. Init => IInv
  BY DEF Init, IInv, PasDesVoies, Vide, Fonde, AucunDiagnostic, Orientations
<1>2. IInv /\ [Next]_vars => IInv'
  <2>. SUFFICES ASSUME IInv, [Next]_vars PROVE IInv'
    OBVIOUS
  <2>1. CASE UNCHANGED vars
    BY <2>1 DEF vars, IInv, PasDesVoies, Fonde
  <2>2. ASSUME NEW m \in Mesures, ObserverEpisode(m) PROVE IInv'
    <3>. DEFINE ep == Episode[m]
                cle == ComposerCle(ep)
                v == VoieCible(cle)
                b == IF v \in Tenues(cle) THEN voies[v] ELSE Vide
                e == [b EXCEPT !.occupee = TRUE, !.cle = cle, !.ordre = seqAcces + 1]
                d == Diagnostic(e, ep)
                n == MettreAJour(e, d)
    <3>1. voies' = [voies EXCEPT ![v] = n] /\ diag' = d
      BY <2>2, Zenon DEF ObserverEpisode
    <3>2. b.pas \in Nat
      BY DEF IInv, PasDesVoies, Tenues, Vide
    <3>3. e.pas \in Nat
      BY <3>2
    <3>4. Fonde(d) /\ d.pas \in Nat /\ d.orientation \in Orientations
      BY <1>0, <3>3, DiagnosticIsFounded
    <3>5. n.pas \in Nat
      BY <3>3, <3>4 DEF MettreAJour
    <3>. HIDE DEF ep, cle, v, b, e, d, n
    <3>6. DOMAIN voies' = 1 .. Voies /\ PasDesVoies'
      BY <3>1, <3>5 DEF IInv, PasDesVoies
    <3>7. QED
      BY <3>1, <3>4, <3>6 DEF IInv, Fonde
  <2>3. QED
    BY <2>1, <2>2 DEF Next
<1>3. QED
  BY <1>1, <1>2, PTL DEF Spec

(* Whatever a model proposes, the verdict that is kept for an episode that *)
(* ObserverEpisode escalated is possible in view of its facts.             *)
THEOREM VetoIsPhysical ==
  ASSUME SeuilPas >= 3
  PROVE  Spec => []VetoPhysical
<1>1. IInv => VetoPhysical
  BY FoundedIsPhysical DEF IInv, VetoPhysical
<1>2. QED
  BY <1>1, Founded, PTL

(* No rule of AppliquerVetoPhysiqueCinetique overturns another one.        *)
THEOREM VetoIsStable ==
  ASSUME SeuilPas >= 3
  PROVE  Spec => []VetoStable
<1>1. IInv => VetoStable
  BY FoundedIsStable DEF IInv, VetoStable
<1>2. QED
  BY <1>1, Founded, PTL
-----------------------------------------------------------------------------
(* The arbitration queue.  Where a goroutine of each role can be.          *)
InCall == {"enter", "rlocked", "sent"}
InArbiter == {"select", "held", "infer", "answered", "refused"}
InGate == {"held", "infer", "write", "unmap"}

PcOf(g) ==
  IF g = Worker THEN InCall \cup InArbiter \cup {"receive", "callback", "ended"}
  ELSE IF g \in Clients THEN InCall \cup {"idle"}
  ELSE IF g \in Directs THEN InArbiter \cup {"idle"}
  ELSE IF g \in Configs THEN {"idle", "write", "ended"}
  ELSE IF g \in QClosers THEN {"idle", "lock", "drain", "once", "closed"}
  ELSE {"idle", "gate", "unmap", "once", "closed"}

PcInv == DOMAIN pc = Goroutines /\ \A g \in Goroutines : pc[g] \in PcOf(g)

(* The lock of the submissions, and what a closer that got further knows.  *)
LockInv ==
  /\ readers = {g \in Submitters : pc[g] \in {"rlocked", "sent"}}
  /\ writer \in QClosers \cup {Nobody}
  /\ fermee \in BOOLEAN /\ closed = fermee
  /\ onceQ \in {"idle", "run", "done"}
  /\ closed => \A g \in Submitters : pc[g] # "sent"
  /\ pc[Worker] = "ended" => closed /\ file = <<>>
  /\ \A k \in QClosers : pc[k] = "drain" => closed
  /\ onceQ = "done" => closed /\ pc[Worker] = "ended"
  /\ \A k \in QClosers : pc[k] = "closed" => onceQ = "done"

(* The gate is held exactly by who is inside, and the engine is unmapped   *)
(* from inside, after arret.                                               *)
GateInv ==
  /\ gate \in Goroutines \cup {Nobody}
  /\ \A g \in Goroutines : pc[g] \in InGate <=> gate = g
  /\ arret \in BOOLEAN /\ moteur \in BOOLEAN /\ onceA \in {"idle", "run", "done"}
  /\ moteur = FALSE => arret
  /\ \A k \in AClosers : pc[k] \in {"gate", "unmap"} => arret
  /\ \A g \in Arbiters : pc[g] = "infer" => moteur

(* The dossiers are numbered in the order the queue took them: the first   *)
(* Judged have an outcome, the worker has the next one, the others wait.   *)
SentNow == {g \in Submitters : pc[g] = "sent"}
CallNow == {g \in Submitters : pc[g] \in InCall}
Judged == arbitres + erreurs
Held == IF pc[Worker] \in InArbiter THEN 1 ELSE 0

AccountInv ==
  /\ soumis \in Nat /\ ignores \in Nat /\ ecartes \in Nat /\ arbitres \in Nat /\ erreurs \in Nat
  /\ issued \in 0 .. MaxSoumis
  /\ soumis + ignores + ecartes + Cardinality(CallNow) <= issued
  /\ file \in Seq(Nat) /\ Len(file) <= Capacite
  /\ Judged + Held + Len(file) = soumis + Cardinality(SentNow)
  /\ accepted = 1 .. soumis + Cardinality(SentNow)
  /\ \A i \in 1 .. Len(file) : file[i] = Judged + Held + i
  /\ Held = 1 => current = Judged + 1
  /\ verdicts \cup failed = 1 .. Judged /\ verdicts \cap failed = {}

QueueInv == PcInv /\ LockInv /\ GateInv /\ AccountInv

-----------------------------------------------------------------------------
(* A goroutine has one role.                                               *)
LEMMA Roles ==
  /\ Worker \notin Clients \cup Directs \cup Configs \cup QClosers \cup AClosers
  /\ Nobody \notin Goroutines
  /\ Worker \in Goroutines /\ Worker \in Submitters /\ Worker \in Arbiters
  /\ Submitters \subseteq Goroutines /\ Arbiters \subseteq Goroutines
  /\ Configs \cup QClosers \cup AClosers \subseteq Goroutines
  /\ Submitters \cap (Directs \cup Configs \cup QClosers \cup AClosers) = {}
  /\ Arbiters \cap (Clients \cup Configs \cup QClosers \cup AClosers) = {}
  /\ Configs \cap (QClosers \cup AClosers) = {} /\ QClosers \cap AClosers = {}
<1>1. Worker # Nobody
  BY DEF Worker, Nobody
<1> QED
  BY <1>1, QueueAssumption DEF Goroutines, Submitters, Arbiters

(* One goroutine moves.                                                    *)
LEMMA Moved ==
  ASSUME PcInv, NEW g \in Goroutines, NEW l \in PcOf(g), Goto(g, l)
  PROVE  /\ PcInv' /\ pc'[g] = l
         /\ \A h \in Goroutines : h # g => pc'[h] = pc[h]
BY DEF PcInv, Goto

(* The submitters are finitely many, and so are those in a call.           *)
LEMMA FewSubmitters ==
  \A S \in SUBSET Submitters : IsFiniteSet(S) /\ Cardinality(S) \in Nat
<1>1. IsFiniteSet(Submitters)
  BY QueueAssumption, FS_AddElement DEF Submitters
<1> QED
  BY <1>1, FS_Subset, FS_CardinalityType

(* The account, the lock and the gate stay as they are when a goroutine    *)
(* moves without crossing their boundaries.                                *)
LEMMA AccountKept ==
  ASSUME AccountInv, UNCHANGED <<soumis, ignores, ecartes, arbitres, erreurs, issued, file, accepted,
                                 current, verdicts, failed>>,
         \A h \in Submitters : /\ pc'[h] = "sent" <=> pc[h] = "sent"
                               /\ pc'[h] \in InCall <=> pc[h] \in InCall,
         pc'[Worker] \in InArbiter <=> pc[Worker] \in InArbiter
  PROVE  AccountInv'
<1>1. SentNow' = SentNow /\ CallNow' = CallNow
  BY DEF SentNow, CallNow
<1>2. Held' = Held /\ Judged' = Judged
  BY DEF Held, Judged
<1> QED
  BY <1>1, <1>2 DEF AccountInv

LEMMA LockKept ==
  ASSUME LockInv, PcInv, NEW g \in Goroutines, NEW l \in PcOf(g), Goto(g, l), g \notin QClosers,
         UNCHANGED <<readers, writer, fermee, closed, onceQ, file>>,
         g \in Submitters => /\ l \in {"rlocked", "sent"} <=> pc[g] \in {"rlocked", "sent"}
                             /\ l = "sent" => pc[g] = "sent",
         g = Worker => l # "ended" /\ pc[g] # "ended"
  PROVE  LockInv'
<1>1. pc'[g] = l /\ \A h \in Goroutines : h # g => pc'[h] = pc[h]
  BY Moved
<1>2. Submitters \subseteq Goroutines /\ QClosers \subseteq Goroutines /\ Worker \in Goroutines
  BY Roles
<1>3. readers' = {h \in Submitters : pc'[h] \in {"rlocked", "sent"}}
  BY <1>1, <1>2 DEF LockInv
<1>4. closed' => \A h \in Submitters : pc'[h] # "sent"
  BY <1>1, <1>2 DEF LockInv
<1>5. pc'[Worker] = "ended" <=> pc[Worker] = "ended"
  BY <1>1, <1>2
<1>6. \A k \in QClosers : pc'[k] = pc[k]
  BY <1>1, <1>2
<1> QED
  BY <1>3, <1>4, <1>5, <1>6 DEF LockInv

LEMMA GateKept ==
  ASSUME GateInv, PcInv, NEW g \in Goroutines, NEW l \in PcOf(g), Goto(g, l),
         UNCHANGED <<gate, arret, moteur, onceA>>,
         l \in InGate <=> pc[g] \in InGate,
         g \in AClosers => l \notin {"gate", "unmap"},
         g \in Arbiters /\ l = "infer" => moteur
  PROVE  GateInv'
<1>1. pc'[g] = l /\ \A h \in Goroutines : h # g => pc'[h] = pc[h]
  BY Moved
<1>2. Arbiters \subseteq Goroutines /\ AClosers \subseteq Goroutines
  BY Roles
<1>3. \A h \in Goroutines : pc'[h] \in InGate <=> gate' = h
  BY <1>1 DEF GateInv
<1>4. \A k \in AClosers : pc'[k] \in {"gate", "unmap"} => arret'
  BY <1>1, <1>2 DEF GateInv
<1>5. \A h \in Arbiters : pc'[h] = "infer" => moteur'
  BY <1>1, <1>2 DEF GateInv
<1> QED
  BY <1>3, <1>4, <1>5 DEF GateInv

-----------------------------------------------------------------------------
(* The submissions.                                                        *)
LEMMA BackIsAPlace ==
  \A g \in Submitters : /\ Back(g) \in PcOf(g) /\ Back(g) \notin InCall \cup InArbiter \cup InGate
                        /\ "enter" \in PcOf(g) /\ "rlocked" \in PcOf(g) /\ "sent" \in PcOf(g)
                        /\ Back(g) # "ended"
BY Roles DEF Back, PcOf, InCall, InArbiter, InGate, Submitters

(* Who leaves a call is no longer counted in it.                           *)
LEMMA Leaves ==
  ASSUME PcInv, NEW g \in Submitters, pc[g] \in InCall, Goto(g, Back(g))
  PROVE  /\ CallNow' = CallNow \ {g} /\ Cardinality(CallNow) = Cardinality(CallNow') + 1
         /\ Cardinality(CallNow') \in Nat
         /\ SentNow' = SentNow \ {g}
         /\ Held' = Held
<1>1. pc'[g] = Back(g) /\ \A h \in Goroutines : h # g => pc'[h] = pc[h]
  BY Moved, BackIsAPlace, Roles
<1>2. CallNow' = CallNow \ {g} /\ SentNow' = SentNow \ {g} /\ g \in CallNow
  BY <1>1, BackIsAPlace, Roles DEF CallNow, SentNow, InCall
<1>3. IsFiniteSet(CallNow) /\ Cardinality(CallNow) \in Nat /\ Cardinality(CallNow') \in Nat
  BY FewSubmitters DEF CallNow
<1>4. Cardinality(CallNow) = Cardinality(CallNow') + 1
  <2>1. CallNow = CallNow' \cup {g} /\ g \notin CallNow'
    BY <1>2
  <2>2. IsFiniteSet(CallNow')
    BY FewSubmitters DEF CallNow
  <2> QED BY <2>1, <2>2, FS_AddElement
<1>5. Held' = Held
  <2>1. CASE g = Worker
    BY <1>1, <2>1, BackIsAPlace DEF Held, InCall, InArbiter
  <2>2. CASE g # Worker
    BY <1>1, <2>2, Roles DEF Held
  <2> QED BY <2>1, <2>2
<1> QED
  BY <1>2, <1>3, <1>4, <1>5

(* A call that ends without a dossier: refused, ignored or set aside.      *)
LEMMA EndsEmpty ==
  ASSUME PcInv, LockInv, GateInv, AccountInv, NEW g \in Submitters, pc[g] = "rlocked",
         Goto(g, Back(g)), readers' = readers \ {g},
         UNCHANGED <<writer, fermee, file, closed, soumis, arbitres, erreurs, hvars, avars, onceQ, onceA>>,
         ignores' \in Nat, ecartes' \in Nat, ignores' + ecartes' <= ignores + ecartes + 1
  PROVE  QueueInv'
<1>1. g \in Goroutines /\ g \notin QClosers \cup AClosers
  BY Roles
<1>2. /\ pc'[g] = Back(g) /\ PcInv'
      /\ \A h \in Goroutines : h # g => pc'[h] = pc[h]
  BY <1>1, Moved, BackIsAPlace
<1>3. LockInv'
  BY <1>1, <1>2, BackIsAPlace, Roles DEF LockInv, InCall
<1>4. GateInv'
  BY <1>1, GateKept, BackIsAPlace, Zenon DEF InGate, avars
<1>5. AccountInv'
  <2>1. /\ Cardinality(CallNow) = Cardinality(CallNow') + 1 /\ Cardinality(CallNow') \in Nat
        /\ SentNow' = SentNow /\ Held' = Held
    BY Leaves DEF InCall, SentNow
  <2>2. Judged' = Judged
    BY DEF Judged
  <2>3. soumis' + ignores' + ecartes' + Cardinality(CallNow') <= issued'
    <3>1. PICK n \in Nat : n = Cardinality(CallNow')
      BY <2>1
    <3>2. soumis + ignores + ecartes + (n + 1) <= issued
      BY <2>1, <3>1 DEF AccountInv
    <3>3. soumis' = soumis /\ issued' = issued /\ soumis \in Nat /\ issued \in Nat
      BY QueueAssumption DEF AccountInv, hvars
    <3>4. ignores \in Nat /\ ecartes \in Nat
      BY DEF AccountInv
    <3>5. \A a, b, c, d, m, k, i \in Nat :
            a + b <= c + d + 1 /\ m + c + d + (k + 1) <= i => m + a + b + k <= i
      OBVIOUS
    <3>6. soumis + ignores' + ecartes' + n <= issued
      BY <3>2, <3>3, <3>4, <3>5
    <3> QED BY <3>1, <3>3, <3>6
  <2> QED BY <2>1, <2>2, <2>3 DEF AccountInv, hvars
<1> QED
  BY <1>2, <1>3, <1>4, <1>5 DEF QueueInv

LEMMA RefuseStep ==
  ASSUME QueueInv, NEW g \in Submitters, RefuseClosed(g) \/ IgnoreNominal(g) \/ RefuseFull(g)
  PROVE  QueueInv'
<1>1. /\ pc[g] = "rlocked" /\ Goto(g, Back(g)) /\ readers' = readers \ {g}
      /\ UNCHANGED <<writer, fermee, file, closed, soumis, arbitres, erreurs, hvars, avars, onceQ, onceA>>
  BY DEF RefuseClosed, IgnoreNominal, RefuseFull, cvars
<1>2. ignores' \in Nat /\ ecartes' \in Nat /\ ignores' + ecartes' <= ignores + ecartes + 1
  BY SMTT(30) DEF RefuseClosed, IgnoreNominal, RefuseFull, cvars, QueueInv, AccountInv
<1> QED
  BY <1>1, <1>2, EndsEmpty DEF QueueInv

LEMMA SoumettreStep ==
  ASSUME QueueInv, NEW g \in Submitters, Soumettre(g)
  PROVE  QueueInv'
<1>1. /\ g \in Goroutines /\ g \notin QClosers \cup AClosers /\ "enter" \in PcOf(g)
      /\ pc[g] \in {"idle", "callback"} /\ Goto(g, "enter")
  BY Roles, BackIsAPlace DEF Soumettre
<1>2. /\ pc'[g] = "enter" /\ PcInv' /\ \A h \in Goroutines : h # g => pc'[h] = pc[h]
  BY <1>1, Moved DEF QueueInv
<1>3. LockInv'
  BY <1>1, LockKept, Zenon DEF QueueInv, Soumettre, qvars
<1>4. GateInv'
  BY <1>1, GateKept, Zenon DEF QueueInv, Soumettre, avars, InGate
<1>5. AccountInv'
  <2>1. CallNow' = CallNow \cup {g} /\ g \notin CallNow /\ SentNow' = SentNow
    BY <1>1, <1>2, Roles DEF CallNow, SentNow, InCall
  <2>2. /\ Cardinality(CallNow') = Cardinality(CallNow) + 1 /\ Cardinality(CallNow) \in Nat
    BY <2>1, FewSubmitters, FS_AddElement DEF CallNow
  <2>3. Held' = Held
    BY <1>1, <1>2, Roles DEF Held, InArbiter
  <2>4. Judged' = Judged
    BY DEF Judged, Soumettre, cvars
  <2> QED BY <2>1, <2>2, <2>3, <2>4, QueueAssumption DEF QueueInv, AccountInv, Soumettre, cvars, qvars
<1> QED
  BY <1>2, <1>3, <1>4, <1>5 DEF QueueInv

LEMMA RLockStep ==
  ASSUME QueueInv, NEW g \in Submitters, RLock(g)
  PROVE  QueueInv'
<1>1. /\ g \in Goroutines /\ g \notin QClosers \cup AClosers /\ "rlocked" \in PcOf(g)
      /\ pc[g] = "enter" /\ Goto(g, "rlocked")
  BY Roles, BackIsAPlace DEF RLock
<1>2. /\ pc'[g] = "rlocked" /\ PcInv' /\ \A h \in Goroutines : h # g => pc'[h] = pc[h]
  BY <1>1, Moved DEF QueueInv
<1>3. LockInv'
  BY <1>1, <1>2, Roles DEF QueueInv, LockInv, RLock
<1>4. GateInv'
  BY <1>1, GateKept, Zenon DEF QueueInv, RLock, avars, InGate
<1>5. AccountInv'
  <2>1. \A h \in Submitters : /\ pc'[h] = "sent" <=> pc[h] = "sent"
                              /\ pc'[h] \in InCall <=> pc[h] \in InCall
    BY <1>1, <1>2, Roles DEF InCall
  <2>2. pc'[Worker] \in InArbiter <=> pc[Worker] \in InArbiter
    BY <1>1, <1>2, Roles DEF InArbiter
  <2> QED BY <2>1, <2>2, AccountKept DEF QueueInv, RLock, cvars, hvars
<1> QED
  BY <1>2, <1>3, <1>4, <1>5 DEF QueueInv

(* The dossier that is sent gets the next number.                          *)
LEMMA SendStep ==
  ASSUME QueueInv, NEW g \in Submitters, Send(g)
  PROVE  QueueInv'
<1>1. /\ g \in Goroutines /\ g \notin QClosers \cup AClosers /\ "sent" \in PcOf(g)
      /\ pc[g] = "rlocked" /\ Goto(g, "sent") /\ fermee = FALSE
  BY Roles, BackIsAPlace DEF Send, QueueInv, LockInv
<1>2. /\ pc'[g] = "sent" /\ PcInv' /\ \A h \in Goroutines : h # g => pc'[h] = pc[h]
  BY <1>1, Moved DEF QueueInv
<1>3. LockInv'
  BY <1>1, <1>2, Roles DEF QueueInv, LockInv, Send
<1>4. GateInv'
  BY <1>1, GateKept, Zenon DEF QueueInv, Send, avars, InGate
<1>5. AccountInv'
  <2>1. SentNow' = SentNow \cup {g} /\ g \notin SentNow /\ CallNow' = CallNow
    BY <1>1, <1>2, Roles DEF CallNow, SentNow, InCall
  <2>2. /\ Cardinality(SentNow') = Cardinality(SentNow) + 1 /\ Cardinality(SentNow) \in Nat
    BY <2>1, FewSubmitters, FS_AddElement DEF SentNow
  <2>3. Held' = Held /\ Held \in {0, 1}
    BY <1>1, <1>2, Roles DEF Held, InArbiter
  <2>4. Judged' = Judged /\ Judged \in Nat
    BY DEF Judged, Send, cvars, QueueInv, AccountInv
  <2>5. PICK n \in Nat : n = soumis + Cardinality(SentNow)
    BY <2>2 DEF QueueInv, AccountInv
  <2>6. Cardinality(accepted) = n
    <3>1. accepted = 1 .. n
      BY <2>5 DEF QueueInv, AccountInv
    <3> QED BY <3>1, FS_Interval
  <2>7. file' = Append(file, n + 1) /\ accepted' = accepted \cup {n + 1} /\ Len(file) < Capacite
    BY <2>6 DEF Send
  <2>8. PICK len \in Nat : len = Len(file)
    BY DEF QueueInv, AccountInv
  <2>9. Len(file') = len + 1 /\ file' \in Seq(Nat)
    BY <2>7, <2>8 DEF QueueInv, AccountInv
  <2>10. Judged + Held + len = n
    BY <2>5, <2>8 DEF QueueInv, AccountInv
  <2>11. \A i \in 1 .. Len(file') : file'[i] = Judged' + Held' + i
    <3> SUFFICES ASSUME NEW i \in 1 .. len + 1 PROVE file'[i] = Judged + Held + i
      BY <2>3, <2>4, <2>9
    <3>1. CASE i = len + 1
      BY <2>7, <2>8, <2>10, <2>3, <2>4, <3>1 DEF QueueInv, AccountInv
    <3>2. CASE i \in 1 .. len
      <4>1. file'[i] = file[i]
        BY <2>7, <2>8, <3>2 DEF QueueInv, AccountInv
      <4> QED BY <2>8, <3>2, <4>1 DEF QueueInv, AccountInv
    <3> QED BY <3>1, <3>2
  <2>12. accepted' = 1 .. soumis' + Cardinality(SentNow')
    <3>1. soumis' + Cardinality(SentNow') = n + 1
      BY <2>2, <2>5 DEF Send, cvars, QueueInv, AccountInv
    <3>2. accepted = 1 .. n
      BY <2>5 DEF QueueInv, AccountInv
    <3> QED BY <2>7, <3>1, <3>2
  <2>13. Judged' + Held' + Len(file') = soumis' + Cardinality(SentNow')
    BY SMTT(30), <2>2, <2>3, <2>4, <2>5, <2>9, <2>10 DEF Send, cvars, QueueInv, AccountInv
  <2>14. Len(file') <= Capacite
    BY <2>7, <2>8, <2>9, QueueAssumption
  <2>15. soumis' + ignores' + ecartes' + Cardinality(CallNow') <= issued'
    BY <2>1 DEF Send, cvars, QueueInv, AccountInv
  <2> QED BY <2>3, <2>4, <2>9, <2>11, <2>12, <2>13, <2>14, <2>15
             DEF Send, cvars, QueueInv, AccountInv
<1> QED
  BY <1>2, <1>3, <1>4, <1>5 DEF QueueInv

LEMMA CountSentStep ==
  ASSUME QueueInv, NEW g \in Submitters, CountSent(g)
  PROVE  QueueInv'
<1>1. /\ g \in Goroutines /\ g \notin QClosers \cup AClosers
      /\ pc[g] = "sent" /\ Goto(g, Back(g))
  BY Roles DEF CountSent
<1>2. /\ pc'[g] = Back(g) /\ PcInv' /\ \A h \in Goroutines : h # g => pc'[h] = pc[h]
  BY <1>1, Moved, BackIsAPlace DEF QueueInv
<1>3. LockInv'
  BY <1>1, <1>2, BackIsAPlace, Roles DEF QueueInv, LockInv, CountSent, InCall
<1>4. GateInv'
  BY <1>1, GateKept, BackIsAPlace, Zenon DEF QueueInv, CountSent, avars, InGate
<1>5. AccountInv'
  <2>1. /\ Cardinality(CallNow) = Cardinality(CallNow') + 1 /\ Cardinality(CallNow') \in Nat
        /\ SentNow' = SentNow \ {g} /\ Held' = Held
    BY <1>1, Leaves DEF InCall, QueueInv
  <2>2. g \in SentNow /\ IsFiniteSet(SentNow) /\ Cardinality(SentNow) \in Nat /\ Cardinality(SentNow') \in Nat
    BY <1>1, FewSubmitters DEF SentNow
  <2>3. Cardinality(SentNow) = Cardinality(SentNow') + 1
    BY <2>1, <2>2, FS_RemoveElement
  <2>4. Judged' = Judged
    BY DEF Judged, CountSent
  <2>5. soumis' + Cardinality(SentNow') = soumis + Cardinality(SentNow)
    BY <2>2, <2>3 DEF CountSent, QueueInv, AccountInv
  <2>6. soumis' + ignores' + ecartes' + Cardinality(CallNow') <= issued'
    BY <2>1 DEF CountSent, QueueInv, AccountInv, hvars
  <2> QED BY <2>1, <2>4, <2>5, <2>6 DEF QueueInv, AccountInv, CountSent, hvars
<1> QED
  BY <1>2, <1>3, <1>4, <1>5 DEF QueueInv

-----------------------------------------------------------------------------
(* The worker.                                                             *)
LEMMA WorkerPlaces ==
  /\ Worker \in Goroutines /\ Worker \notin QClosers \cup AClosers
  /\ PcOf(Worker) = InCall \cup InArbiter \cup {"receive", "callback", "ended"}
BY Roles DEF PcOf

LEMMA ReceiveStep ==
  ASSUME QueueInv, Receive
  PROVE  QueueInv'
<1>1. Goto(Worker, "select") /\ pc[Worker] = "receive" /\ "select" \in PcOf(Worker) /\ file # <<>>
  BY WorkerPlaces DEF Receive, InArbiter
<1>2. /\ pc'[Worker] = "select" /\ PcInv' /\ \A h \in Goroutines : h # Worker => pc'[h] = pc[h]
  BY <1>1, WorkerPlaces, Moved DEF QueueInv
<1>3. LockInv'
  BY <1>1, <1>2, Roles DEF QueueInv, LockInv, Receive
<1>4. GateInv'
  BY <1>1, GateKept, WorkerPlaces, Zenon DEF QueueInv, Receive, avars, InGate
<1>5. AccountInv'
  <2>1. SentNow' = SentNow /\ CallNow' = CallNow
    BY <1>1, <1>2, Roles DEF SentNow, CallNow, InCall
  <2>2. Held = 0 /\ Held' = 1
    BY <1>1, <1>2 DEF Held, InArbiter
  <2>3. Judged' = Judged /\ Judged \in Nat
    BY DEF Judged, Receive, cvars, QueueInv, AccountInv
  <2>4. PICK len \in Nat : len = Len(file) /\ len > 0
    BY <1>1 DEF QueueInv, AccountInv
  <2>5. file' \in Seq(Nat) /\ Len(file') = len - 1
    BY <1>1, <2>4 DEF QueueInv, AccountInv, Receive
  <2>6. \A i \in 1 .. len - 1 : file'[i] = file[i + 1]
    BY <1>1, <2>4 DEF QueueInv, AccountInv, Receive
  <2>7. \A i \in 1 .. len : file[i] = Judged + i
    BY <2>2, <2>3, <2>4 DEF QueueInv, AccountInv
  <2>8. current' = Judged + 1
    <3>1. current' = file[1]
      BY <1>1 DEF Receive, QueueInv, AccountInv
    <3> QED BY <2>4, <2>7, <3>1
  <2>9. \A i \in 1 .. Len(file') : file'[i] = Judged' + Held' + i
    BY <2>2, <2>3, <2>4, <2>5, <2>6, <2>7
  <2>10. Judged' + Held' + Len(file') = soumis' + Cardinality(SentNow')
    BY <2>1, <2>2, <2>3, <2>4, <2>5 DEF QueueInv, AccountInv, Receive, cvars
  <2>11. Len(file') <= Capacite
    BY <2>4, <2>5, QueueAssumption DEF QueueInv, AccountInv
  <2> QED BY <2>1, <2>3, <2>5, <2>8, <2>9, <2>10, <2>11 DEF QueueInv, AccountInv, Receive, cvars
<1> QED
  BY <1>2, <1>3, <1>4, <1>5 DEF QueueInv

(* The outcome of the dossier in hand: a verdict, or an error.             *)
LEMMA OutcomeStep ==
  ASSUME QueueInv, CountVerdict \/ CountError
  PROVE  QueueInv'
<1> DEFINE l == IF pc[Worker] = "answered" THEN "callback" ELSE "receive"
<1>1. /\ Goto(Worker, l) /\ pc[Worker] \in {"answered", "refused"} /\ l \in PcOf(Worker)
      /\ l \in {"callback", "receive"}
  BY WorkerPlaces DEF CountVerdict, CountError
<1> HIDE DEF l
<1>2. /\ pc'[Worker] = l /\ PcInv' /\ \A h \in Goroutines : h # Worker => pc'[h] = pc[h]
  BY <1>1, WorkerPlaces, Moved DEF QueueInv
<1>3. UNCHANGED <<readers, writer, fermee, closed, onceQ, file, gate, arret, moteur, onceA, soumis,
                  ignores, ecartes, issued, accepted>>
  BY DEF CountVerdict, CountError, qvars, avars
<1>4. LockInv'
  BY <1>1, <1>2, <1>3, Roles DEF QueueInv, LockInv
<1>5. GateInv'
  <2>1. l \notin InGate /\ pc[Worker] \notin InGate /\ l # "infer"
    BY <1>1 DEF InGate
  <2> QED BY <1>1, <1>3, <2>1, GateKept, WorkerPlaces DEF QueueInv
<1>6. AccountInv'
  <2>1. SentNow' = SentNow /\ CallNow' = CallNow
    BY <1>1, <1>2, Roles DEF SentNow, CallNow, InCall
  <2>2. Held = 1 /\ Held' = 0
    BY <1>1, <1>2 DEF Held, InArbiter
  <2>3. Judged' = Judged + 1 /\ Judged \in Nat /\ arbitres' \in Nat /\ erreurs' \in Nat
    <3>1. arbitres \in Nat /\ erreurs \in Nat
      BY DEF QueueInv, AccountInv
    <3>2. CASE CountVerdict
      BY <3>1, <3>2 DEF Judged, CountVerdict
    <3>3. CASE CountError
      BY <3>1, <3>3 DEF Judged, CountError
    <3> QED BY <3>2, <3>3
  <2>4. current = Judged + 1
    BY <2>2 DEF QueueInv, AccountInv
  <2>5. verdicts' \cup failed' = (verdicts \cup failed) \cup {current}
    BY DEF CountVerdict, CountError
  <2>6. verdicts \cup failed = 1 .. Judged /\ verdicts \cap failed = {}
    BY DEF QueueInv, AccountInv
  <2>7. current \notin verdicts \cup failed
    BY <2>3, <2>4, <2>6
  <2>8. verdicts' \cap failed' = {}
    BY <2>6, <2>7 DEF CountVerdict, CountError
  <2>9. verdicts' \cup failed' = 1 .. Judged'
    BY <2>3, <2>4, <2>5, <2>6
  <2>10. Judged' + Held' = Judged + Held
    BY <2>2, <2>3
  <2> QED BY <1>3, <2>1, <2>2, <2>3, <2>8, <2>9, <2>10 DEF QueueInv, AccountInv
<1> QED
  BY <1>2, <1>4, <1>5, <1>6 DEF QueueInv

LEMMA WorkerReturns ==
  ASSUME QueueInv, WorkerEnd \/ CallbackReturn
  PROVE  QueueInv'
<1> DEFINE l == IF pc[Worker] = "receive" THEN "ended" ELSE "receive"
<1>1. /\ Goto(Worker, l) /\ pc[Worker] \in {"receive", "callback"} /\ l \in PcOf(Worker)
      /\ l \in {"ended", "receive"}
      /\ l = "ended" => closed /\ file = <<>>
  BY WorkerPlaces DEF WorkerEnd, CallbackReturn
<1> HIDE DEF l
<1>2. /\ pc'[Worker] = l /\ PcInv' /\ \A h \in Goroutines : h # Worker => pc'[h] = pc[h]
  BY <1>1, WorkerPlaces, Moved DEF QueueInv
<1>3. UNCHANGED <<qvars, cvars, hvars, avars, onceQ, onceA>>
  BY DEF WorkerEnd, CallbackReturn
<1>4. LockInv'
  BY <1>1, <1>2, <1>3, Roles DEF QueueInv, LockInv, qvars
<1>5. GateInv'
  <2>1. l \notin InGate /\ pc[Worker] \notin InGate /\ l # "infer"
    BY <1>1 DEF InGate
  <2> QED BY <1>1, <1>3, <2>1, GateKept, WorkerPlaces DEF QueueInv, avars
<1>6. AccountInv'
  <2>1. \A h \in Submitters : /\ pc'[h] = "sent" <=> pc[h] = "sent"
                              /\ pc'[h] \in InCall <=> pc[h] \in InCall
    BY <1>1, <1>2, Roles DEF InCall
  <2>2. pc'[Worker] \in InArbiter <=> pc[Worker] \in InArbiter
    BY <1>1, <1>2 DEF InArbiter
  <2> QED BY <1>3, <2>1, <2>2, AccountKept DEF QueueInv, cvars, hvars, qvars
<1> QED
  BY <1>2, <1>4, <1>5, <1>6 DEF QueueInv

-----------------------------------------------------------------------------
(* What moves outside of the lock and of the accounts keeps them.          *)
LEMMA OutsideQueue ==
  ASSUME QueueInv, NEW g \in Goroutines, NEW l \in PcOf(g), Goto(g, l), g \notin QClosers,
         UNCHANGED <<qvars, cvars, hvars, onceQ>>,
         pc[g] \notin InCall, l \notin InCall,
         g = Worker => /\ pc[g] \in InArbiter <=> l \in InArbiter
                       /\ l # "ended" /\ pc[g] # "ended"
  PROVE  PcInv' /\ LockInv' /\ AccountInv'
<1>1. PcInv' /\ pc'[g] = l /\ \A h \in Goroutines : h # g => pc'[h] = pc[h]
  BY Moved DEF QueueInv
<1>2. LockInv'
  <2>1. l \notin {"rlocked", "sent"} /\ pc[g] \notin {"rlocked", "sent"}
    BY DEF InCall
  <2> QED BY <2>1, LockKept DEF QueueInv, qvars
<1>3. AccountInv'
  <2>1. \A h \in Submitters : /\ pc'[h] = "sent" <=> pc[h] = "sent"
                              /\ pc'[h] \in InCall <=> pc[h] \in InCall
    BY <1>1, Roles DEF InCall
  <2>2. pc'[Worker] \in InArbiter <=> pc[Worker] \in InArbiter
    BY <1>1, Roles
  <2> QED BY <2>1, <2>2, AccountKept DEF QueueInv, cvars, hvars, qvars
<1> QED
  BY <1>1, <1>2, <1>3

(* The gate changes hands with the one who moves in or out of it.          *)
LEMMA GateChanges ==
  ASSUME QueueInv, NEW g \in Goroutines, NEW l \in PcOf(g), Goto(g, l),
         \/ gate = Nobody /\ gate' = g /\ l \in InGate
         \/ pc[g] \in InGate /\ gate' = Nobody /\ l \notin InGate
         \/ pc[g] \in InGate /\ gate' = gate /\ l \in InGate
         \/ pc[g] \notin InGate /\ gate' = gate /\ l \notin InGate
  PROVE  /\ gate' \in Goroutines \cup {Nobody}
         /\ \A h \in Goroutines : pc'[h] \in InGate <=> gate' = h
<1>1. pc'[g] = l /\ \A h \in Goroutines : h # g => pc'[h] = pc[h]
  BY Moved DEF QueueInv
<1>2. Nobody \notin Goroutines
  BY Roles
<1>3. /\ gate \in Goroutines \cup {Nobody} 
      /\ \A h \in Goroutines : pc[h] \in InGate <=> gate = h
  BY DEF QueueInv, GateInv
<1>4. CASE gate = Nobody /\ gate' = g /\ l \in InGate
  BY <1>1, <1>2, <1>3, <1>4
<1>5. CASE pc[g] \in InGate /\ gate' = Nobody /\ l \notin InGate
  BY <1>1, <1>2, <1>3, <1>5
<1>6. CASE pc[g] \in InGate /\ gate' = gate /\ l \in InGate
  BY <1>1, <1>3, <1>6
<1>7. CASE pc[g] \notin InGate /\ gate' = gate /\ l \notin InGate
  BY <1>1, <1>3, <1>7
<1> QED
  BY <1>4, <1>5, <1>6, <1>7

LEMMA ArbitrationStep ==
  ASSUME QueueInv, NEW c \in Arbiters, Arbitration(c)
  PROVE  QueueInv'
<1>0. /\ c \in Goroutines /\ c \notin QClosers \cup AClosers \cup Configs /\ InArbiter \subseteq PcOf(c)
  BY Roles DEF PcOf, Arbiters
<1>1. PICK l \in InArbiter :
        /\ Goto(c, l) /\ pc[c] \in InArbiter
        /\ UNCHANGED <<qvars, cvars, hvars, arret, moteur, onceQ, onceA>>
        /\ l = "infer" => pc[c] = "held" /\ arret = FALSE
        /\ \/ gate = Nobody /\ gate' = c /\ l \in InGate
           \/ pc[c] \in InGate /\ gate' = Nobody /\ l \notin InGate
           \/ pc[c] \in InGate /\ gate' = gate /\ l \in InGate
           \/ pc[c] \notin InGate /\ gate' = gate /\ l \notin InGate
  <2>1. CASE SelectContext(c)
    BY <2>1 DEF SelectContext, InArbiter, InGate, avars
  <2>2. CASE SelectArret(c)
    BY <2>2 DEF SelectArret, InArbiter, InGate, avars
  <2>3. CASE SelectGate(c)
    BY <2>3 DEF SelectGate, InArbiter, InGate
  <2>4. CASE HeldRefuse(c)
    BY <2>4 DEF HeldRefuse, InArbiter, InGate
  <2>5. CASE HeldInfer(c)
    <3>1. arret = FALSE
      BY <2>5 DEF HeldInfer, QueueInv, GateInv
    <3> QED BY <2>5, <3>1 DEF HeldInfer, InArbiter, InGate, avars
  <2>6. CASE InferEnd(c)
    BY <2>6 DEF InferEnd, InArbiter, InGate
  <2> QED BY <2>1, <2>2, <2>3, <2>4, <2>5, <2>6 DEF Arbitration
<1>2. PcInv' /\ LockInv' /\ AccountInv'
  <2>1. pc[c] \notin InCall \cup {"ended"} /\ l \notin InCall \cup {"ended"}
    BY <1>1 DEF InArbiter, InCall
  <2> QED BY <1>0, <1>1, <2>1, OutsideQueue
<1>3. /\ gate' \in Goroutines \cup {Nobody}
      /\ \A h \in Goroutines : pc'[h] \in InGate <=> gate' = h
  BY <1>0, <1>1, GateChanges
<1>4. pc'[c] = l /\ \A h \in Goroutines : h # c => pc'[h] = pc[h]
  BY <1>0, <1>1, Moved DEF QueueInv
<1>5. GateInv'
  <2>1. \A h \in Arbiters : pc'[h] = "infer" => moteur'
    BY <1>1, <1>4, Roles DEF QueueInv, GateInv
  <2>2. \A k \in AClosers : pc'[k] \in {"gate", "unmap"} => arret'
    BY <1>0, <1>1, <1>4, Roles DEF QueueInv, GateInv
  <2> QED BY <1>1, <1>3, <2>1, <2>2 DEF QueueInv, GateInv
<1> QED
  BY <1>2, <1>5 DEF QueueInv

LEMMA CallersStep ==
  ASSUME QueueInv,
         \/ \E c \in Directs : DirectCall(c)
         \/ \E c \in Configs : ConfigTake(c) \/ ConfigWrite(c)
  PROVE  QueueInv'
<1>1. PICK c \in Directs \cup Configs, l \in {"select", "write", "ended"} :
        /\ Goto(c, l) /\ pc[c] \in {"idle", "write"} /\ l \in PcOf(c)
        /\ UNCHANGED <<qvars, cvars, hvars, arret, moteur, onceQ, onceA>>
        /\ \/ gate = Nobody /\ gate' = c /\ l \in InGate
           \/ pc[c] \in InGate /\ gate' = Nobody /\ l \notin InGate
           \/ pc[c] \notin InGate /\ gate' = gate /\ l \notin InGate
  <2>1. ASSUME NEW c \in Directs, DirectCall(c)
        PROVE  /\ Goto(c, "select") /\ pc[c] = "idle" /\ gate' = gate
               /\ UNCHANGED <<qvars, cvars, hvars, arret, moteur, onceQ, onceA>>
               /\ "select" \in PcOf(c) /\ "select" \notin InGate /\ "idle" \notin InGate
    BY <2>1, Roles DEF DirectCall, avars, PcOf, InArbiter, InGate, Arbiters
  <2>2. ASSUME NEW c \in Configs, ConfigTake(c)
        PROVE  /\ Goto(c, "write") /\ pc[c] = "idle" /\ gate = Nobody /\ gate' = c
               /\ UNCHANGED <<qvars, cvars, hvars, arret, moteur, onceQ, onceA>>
               /\ "write" \in PcOf(c) /\ "write" \in InGate
    BY <2>2, Roles DEF ConfigTake, PcOf, InGate, Arbiters, Submitters
  <2>3. ASSUME NEW c \in Configs, ConfigWrite(c)
        PROVE  /\ Goto(c, "ended") /\ pc[c] = "write" /\ gate' = Nobody
               /\ UNCHANGED <<qvars, cvars, hvars, arret, moteur, onceQ, onceA>>
               /\ "ended" \in PcOf(c) /\ "ended" \notin InGate /\ "write" \in InGate
    BY <2>3, Roles DEF ConfigWrite, PcOf, InGate, Arbiters, Submitters
  <2> QED BY <2>1, <2>2, <2>3
<1>0. c \in Goroutines /\ c \notin QClosers \cup AClosers \cup {Worker}
  BY Roles DEF Arbiters, Goroutines
<1>2. PcInv' /\ LockInv' /\ AccountInv'
  BY <1>0, <1>1, OutsideQueue DEF InCall
<1>3. /\ gate' \in Goroutines \cup {Nobody}
      /\ \A h \in Goroutines : pc'[h] \in InGate <=> gate' = h
  BY <1>0, <1>1, GateChanges
<1>4. pc'[c] = l /\ \A h \in Goroutines : h # c => pc'[h] = pc[h]
  BY <1>0, <1>1, Moved DEF QueueInv
<1>5. GateInv'
  <2>1. \A h \in Arbiters : pc'[h] = "infer" => moteur'
    BY <1>1, <1>4, Roles DEF QueueInv, GateInv
  <2>2. \A k \in AClosers : pc'[k] \in {"gate", "unmap"} => arret'
    BY <1>0, <1>1, <1>4, Roles DEF QueueInv, GateInv
  <2> QED BY <1>1, <1>3, <2>1, <2>2 DEF QueueInv, GateInv
<1> QED
  BY <1>2, <1>5 DEF QueueInv

-----------------------------------------------------------------------------
(* The two Fermer.                                                         *)
LEMMA CloserPlaces ==
  /\ \A k \in QClosers : /\ PcOf(k) = {"idle", "lock", "drain", "once", "closed"}
                         /\ k \in Goroutines /\ k \notin Submitters \cup Arbiters \cup AClosers
  /\ \A k \in AClosers : /\ PcOf(k) = {"idle", "gate", "unmap", "once", "closed"}
                         /\ k \in Goroutines
                         /\ k \notin Submitters \cup Arbiters \cup QClosers \cup {Worker}
BY Roles DEF PcOf, Submitters, Arbiters

(* A closer of the queue moves neither the gate nor the accounts.          *)
LEMMA OutsideGate ==
  ASSUME QueueInv, NEW k \in QClosers, NEW l \in PcOf(k), Goto(k, l),
         UNCHANGED <<file, cvars, hvars, avars, onceA>>
  PROVE  /\ PcInv' /\ GateInv' /\ AccountInv'
         /\ pc'[k] = l /\ \A h \in Goroutines : h # k => pc'[h] = pc[h]
<1>1. PcInv' /\ pc'[k] = l /\ \A h \in Goroutines : h # k => pc'[h] = pc[h]
  BY CloserPlaces, Moved DEF QueueInv
<1>2. l \notin InGate /\ pc[k] \notin InGate /\ l # "infer"
  BY CloserPlaces DEF InGate, QueueInv, PcInv
<1>3. GateInv'
  BY <1>2, GateKept, CloserPlaces DEF QueueInv, avars
<1>4. AccountInv'
  <2>1. \A h \in Submitters : pc'[h] = pc[h]
    BY <1>1, CloserPlaces, Roles
  <2> QED BY <2>1, AccountKept, Roles DEF QueueInv, cvars, hvars
<1> QED
  BY <1>1, <1>3, <1>4

LEMMA QueueClosers ==
  ASSUME QueueInv, NEW k \in QClosers, CloseBegin(k) \/ CloseWait(k) \/ QClose(k)
  PROVE  QueueInv'
<1>0. /\ PcOf(k) = {"idle", "lock", "drain", "once", "closed"} /\ k \in Goroutines
      /\ k \notin Submitters /\ Worker \in Goroutines /\ Worker # k /\ Submitters \subseteq Goroutines
      /\ QClosers \subseteq Goroutines
  BY CloserPlaces, Roles
<1>1. PICK l \in PcOf(k) : Goto(k, l)
  BY <1>0 DEF CloseBegin, CloseWait, QClose, CloseQueue, CloseReturn, CloseAgain
<1>2. UNCHANGED <<file, cvars, hvars, avars, onceA>>
  BY DEF CloseBegin, CloseWait, QClose, CloseQueue, CloseReturn, CloseAgain, qvars
<1>3. /\ PcInv' /\ GateInv' /\ AccountInv'
      /\ pc'[k] = l /\ \A h \in Goroutines : h # k => pc'[h] = pc[h]
  BY <1>1, <1>2, OutsideGate
<1>4. \A h \in Submitters : pc'[h] = pc[h]
  BY <1>0, <1>3
<1>5. pc' = [pc EXCEPT ![k] = l] /\ DOMAIN pc = Goroutines
  BY <1>1 DEF Goto, QueueInv, PcInv
<1>6. LockInv'
  <2>0. LockInv /\ pc'[Worker] = pc[Worker]
    BY <1>0, <1>3 DEF QueueInv
  <2>1. CASE CloseBegin(k)
    <3>1. pc'[k] = "lock"
      BY <1>0, <1>5, <2>1 DEF CloseBegin, Goto
    <3> QED BY <1>0, <1>2, <1>3, <1>4, <2>0, <2>1, <3>1 DEF LockInv, CloseBegin
  <2>2. CASE CloseQueue(k)
    <3>1. pc'[k] = "drain" /\ readers = {}
      BY <1>0, <1>5, <2>2 DEF CloseQueue, Goto
    <3> QED BY <1>0, <1>2, <1>3, <1>4, <2>0, <2>2, <3>1 DEF LockInv, CloseQueue
  <2>3. CASE CloseReturn(k)
    <3>1. pc'[k] = "closed" /\ pc[k] = "drain" /\ pc[Worker] = "ended"
      BY <1>0, <1>5, <2>3 DEF CloseReturn, Goto
    <3> QED BY <1>0, <1>2, <1>3, <1>4, <2>0, <2>3, <3>1 DEF LockInv, CloseReturn, qvars
  <2>4. CASE CloseWait(k)
    <3>1. pc'[k] = "once"
      BY <1>0, <1>5, <2>4 DEF CloseWait, Goto
    <3> QED BY <1>0, <1>2, <1>3, <1>4, <2>0, <2>4, <3>1 DEF LockInv, CloseWait, qvars
  <2>5. CASE CloseAgain(k)
    <3>1. pc'[k] = "closed" /\ onceQ = "done"
      BY <1>0, <1>5, <2>5 DEF CloseAgain, Goto
    <3> QED BY <1>0, <1>2, <1>3, <1>4, <2>0, <2>5, <3>1 DEF LockInv, CloseAgain, qvars
  <2> QED BY <2>1, <2>2, <2>3, <2>4, <2>5 DEF QClose
<1> QED
  BY <1>3, <1>6 DEF QueueInv

LEMMA ArbiterClosers ==
  ASSUME QueueInv, NEW k \in AClosers, ArretClose(k) \/ ArretWait(k) \/ AClose(k)
  PROVE  QueueInv'
<1>0. /\ PcOf(k) = {"idle", "gate", "unmap", "once", "closed"} /\ k \in Goroutines
      /\ k \notin Submitters \cup Arbiters \cup QClosers \cup {Worker}
      /\ AClosers \subseteq Goroutines /\ Arbiters \subseteq Goroutines
  BY CloserPlaces, Roles
<1>1. PICK l \in PcOf(k) :
        /\ Goto(k, l) /\ UNCHANGED <<qvars, cvars, hvars, onceQ>>
        /\ \/ gate = Nobody /\ gate' = k /\ l \in InGate
           \/ pc[k] \in InGate /\ gate' = Nobody /\ l \notin InGate
           \/ pc[k] \notin InGate /\ gate' = gate /\ l \notin InGate
        /\ onceA' \in {onceA, "run", "done"}
        /\ \/ arret' = TRUE /\ moteur' = moteur
           \/ arret' = arret /\ moteur' = moteur /\ l # "gate" /\ (l = "unmap" => pc[k] = "gate")
           \/ arret' = arret /\ moteur' = FALSE /\ pc[k] = "unmap" /\ l \notin {"gate", "unmap"}
  <2>1. CASE ArretClose(k)
    BY <1>0, <2>1 DEF ArretClose, InGate
  <2>2. CASE ArretWait(k)
    BY <1>0, <2>2 DEF ArretWait, InGate, avars
  <2>3. CASE ArretTake(k)
    BY <1>0, <2>3 DEF ArretTake, InGate
  <2>4. CASE Unmap(k)
    BY <1>0, <2>4 DEF Unmap, InGate
  <2>5. CASE ArretAgain(k)
    BY <1>0, <2>5 DEF ArretAgain, InGate, avars
  <2> QED BY <2>1, <2>2, <2>3, <2>4, <2>5 DEF AClose
<1>2. PcInv' /\ LockInv' /\ AccountInv'
  <2>1. pc[k] \notin InCall /\ l \notin InCall
    BY <1>0 DEF InCall, QueueInv, PcInv
  <2> QED BY <1>0, <1>1, <2>1, OutsideQueue
<1>3. /\ gate' \in Goroutines \cup {Nobody}
      /\ \A h \in Goroutines : pc'[h] \in InGate <=> gate' = h
  BY <1>0, <1>1, GateChanges
<1>4. pc'[k] = l /\ \A h \in Goroutines : h # k => pc'[h] = pc[h]
  BY <1>0, <1>1, Moved DEF QueueInv
<1>5. GateInv'
  <2>0. GateInv
    BY DEF QueueInv
  <2>1. \A h \in Arbiters : pc'[h] = "infer" => moteur'
    <3> SUFFICES ASSUME NEW h \in Arbiters, pc'[h] = "infer" PROVE moteur'
      OBVIOUS
    <3>1. pc[h] = "infer" /\ moteur /\ h # k /\ h \in Goroutines
      BY <1>0, <1>4, <2>0 DEF GateInv
    <3>2. gate = h
      BY <2>0, <3>1 DEF GateInv, InGate
    <3>3. pc[k] \notin InGate
      BY <1>0, <2>0, <3>1, <3>2 DEF GateInv
    <3> QED BY <1>1, <3>1, <3>3 DEF InGate
  <2>2. arret' \in BOOLEAN /\ moteur' \in BOOLEAN /\ onceA' \in {"idle", "run", "done"}
    BY <1>1, <2>0 DEF GateInv
  <2>3. arret => arret'
    BY <1>1
  <2>4. \A h \in AClosers : pc'[h] \in {"gate", "unmap"} => arret'
    <3> SUFFICES ASSUME NEW h \in AClosers, pc'[h] \in {"gate", "unmap"} PROVE arret'
      OBVIOUS
    <3>1. CASE h # k
      BY <1>0, <1>4, <2>0, <2>3, <3>1 DEF GateInv
    <3>2. CASE h = k
      BY <1>1, <1>4, <2>0, <2>3, <3>2 DEF GateInv
    <3> QED BY <3>1, <3>2
  <2>5. moteur' = FALSE => arret'
    BY <1>1, <2>0, <2>3 DEF GateInv
  <2> QED BY <1>3, <2>1, <2>2, <2>4, <2>5 DEF GateInv
<1> QED
  BY <1>2, <1>5 DEF QueueInv

-----------------------------------------------------------------------------
LEMMA QueueStart == QueueInit => QueueInv
<1> SUFFICES ASSUME QueueInit PROVE QueueInv
  OBVIOUS
<1>1. pc[Worker] = "receive" /\ \A g \in Goroutines : g # Worker => pc[g] = "idle"
  BY Roles DEF QueueInit
<1>2. PcInv
  BY <1>1, Roles DEF QueueInit, PcInv, PcOf, Goroutines, Submitters, InCall, InArbiter
<1>3. LockInv
  BY <1>1, Roles DEF QueueInit, LockInv
<1>4. GateInv
  BY <1>1, Roles DEF QueueInit, GateInv, InGate
<1>5. AccountInv
  <2>1. SentNow = {} /\ CallNow = {} /\ Held = 0 /\ Judged = 0
    BY <1>1, Roles DEF SentNow, CallNow, Held, Judged, InCall, InArbiter, QueueInit
  <2>2. Cardinality(SentNow) = 0 /\ Cardinality(CallNow) = 0
    BY <2>1, FS_EmptySet
  <2> QED BY <2>1, <2>2, QueueAssumption DEF AccountInv, QueueInit
<1> QED
  BY <1>2, <1>3, <1>4, <1>5 DEF QueueInv

LEMMA QueueInvariance == QueueSpec => []QueueInv
<1>1. QueueInv /\ [QueueNext]_queueVars => QueueInv'
  <2> SUFFICES ASSUME QueueInv, [QueueNext]_queueVars PROVE QueueInv'
    OBVIOUS
  <2>1. CASE UNCHANGED queueVars
    <3>1. UNCHANGED <<pc, readers, writer, fermee, file, closed, soumis, ignores, ecartes, arbitres,
                      erreurs, current, issued, accepted, verdicts, failed, gate, arret, moteur,
                      onceQ, onceA>>
      BY <2>1 DEF queueVars, qvars, cvars, hvars, avars
    <3> QED BY <3>1 DEF QueueInv, PcInv, LockInv, GateInv, AccountInv, SentNow, CallNow, Held, Judged
  <2>2. CASE QueueNext
    <3>1. ASSUME NEW g \in Submitters, Soumettre(g) \/ Submission(g) PROVE QueueInv'
      BY <3>1, SoumettreStep, RLockStep, RefuseStep, SendStep, CountSentStep DEF Submission
    <3>2. ASSUME WorkerStep PROVE QueueInv'
      BY <3>2, ReceiveStep, OutcomeStep, WorkerReturns DEF WorkerStep
    <3> QED BY <2>2, <3>1, <3>2, ArbitrationStep, CallersStep, QueueClosers, ArbiterClosers DEF QueueNext
  <2> QED BY <2>1, <2>2
<1> QED
  BY <1>1, QueueStart, PTL DEF QueueSpec

(* For every number of goroutines that submit, arbitrate, reconfigure and  *)
(* close, every capacity and every number of submissions: no submission    *)
(* sends on the channel that Fermer closed, once a Fermer has returned     *)
(* TotalSoumis is TotalArbitres plus TotalErreursArbitrage and every       *)
(* dossier has had one outcome, and the model of ArbitrerEpisode is used   *)
(* by one goroutine at a time and never after Fermer unmapped it.          *)
THEOREM QueueIsSound == QueueSpec => []QueueSound
<1>1. QueueInv => QueueSound
  <2> SUFFICES ASSUME QueueInv PROVE QueueSound
    OBVIOUS
  <2>0. /\ Cardinality(SentNow) \in Nat /\ Cardinality(CallNow) \in Nat
        /\ Cardinality(SentNow) <= Cardinality(CallNow)
    <3>1. SentNow \subseteq CallNow /\ CallNow \subseteq Submitters
      BY DEF SentNow, CallNow, InCall
    <3>2. IsFiniteSet(CallNow) /\ Cardinality(CallNow) \in Nat /\ Cardinality(SentNow) \in Nat
      BY <3>1, FewSubmitters
    <3> QED BY <3>1, <3>2, FS_Subset
  <2>1. QueueTypeOK
    <3>1. PICK n \in Nat : n = soumis + Cardinality(SentNow)
      BY <2>0 DEF QueueInv, AccountInv
    <3>2. n <= MaxSoumis /\ soumis <= MaxSoumis /\ ignores <= MaxSoumis /\ ecartes <= MaxSoumis
      BY <2>0, <3>1, QueueAssumption DEF QueueInv, AccountInv
    <3>3. Judged \in Nat /\ Held \in Nat /\ Len(file) \in Nat
      BY DEF QueueInv, AccountInv, Judged, Held
    <3>4. Judged + Held + Len(file) = n
      BY <3>1 DEF QueueInv, AccountInv
    <3>5. arbitres <= MaxSoumis /\ erreurs <= MaxSoumis
      <4>1. Judged <= MaxSoumis
        BY <3>2, <3>3, <3>4, QueueAssumption
      <4> QED BY <4>1, QueueAssumption DEF Judged, QueueInv, AccountInv
    <3>6. file \in Seq(1 .. MaxSoumis)
      <4>1. file \in Seq(Nat) /\ \A i \in 1 .. Len(file) : file[i] = Judged + Held + i
        BY DEF QueueInv, AccountInv
      <4>2. \A i \in 1 .. Len(file) : file[i] \in 1 .. MaxSoumis
        BY <3>2, <3>3, <3>4, <4>1, QueueAssumption
      <4>3. file \in [1 .. Len(file) -> 1 .. MaxSoumis] /\ Len(file) \in Nat
        BY <4>1, <4>2
      <4> QED BY <4>3, SeqDef
    <3>7. readers \subseteq Submitters
      BY DEF QueueInv, LockInv
    <3> QED BY <3>2, <3>5, <3>6, <3>7, QueueAssumption
            DEF QueueTypeOK, QueueInv, LockInv, GateInv, AccountInv
  <2>2. NoSendOnClosed
    BY DEF NoSendOnClosed, QueueInv, LockInv
  <2>3. ExactAfterClose
    <3> SUFFICES ASSUME NEW k \in QClosers, pc[k] = "closed"
                 PROVE  /\ soumis = arbitres + erreurs
                        /\ accepted = verdicts \cup failed /\ verdicts \cap failed = {}
                        /\ file = <<>>
      BY DEF ExactAfterClose
    <3>1. closed /\ pc[Worker] = "ended" /\ file = <<>>
      BY DEF QueueInv, LockInv
    <3>2. SentNow = {} /\ Held = 0
      BY <3>1 DEF SentNow, Held, InArbiter, QueueInv, LockInv
    <3>3. Cardinality(SentNow) = 0 /\ Len(file) = 0
      BY <3>1, <3>2, FS_EmptySet
    <3>4. Judged = soumis
      BY <3>2, <3>3 DEF QueueInv, AccountInv, Judged
    <3>5. accepted = 1 .. soumis
      BY <3>3 DEF QueueInv, AccountInv
    <3>6. verdicts \cup failed = 1 .. Judged /\ verdicts \cap failed = {}
      BY DEF QueueInv, AccountInv
    <3> QED BY <3>1, <3>4, <3>5, <3>6 DEF Judged
  <2>4. EngineAlone
    <3> DEFINE inside == {g \in Goroutines : pc[g] \in {"infer", "write", "unmap"}}
    <3>1. \A g \in inside : gate = g
      BY DEF QueueInv, GateInv, InGate
    <3>2. inside = {} \/ inside = {gate}
      BY <3>1
    <3>3. Cardinality({}) = 0 /\ Cardinality({gate}) = 1
      BY FS_EmptySet, FS_Singleton
    <3>4. \A g \in inside : pc[g] = "infer" => moteur
      <4> SUFFICES ASSUME NEW g \in Goroutines, pc[g] = "infer" PROVE moteur
        OBVIOUS
      <4>1. g \in Arbiters
        BY DEF QueueInv, PcInv, PcOf, Goroutines, Submitters, Arbiters, InCall, InArbiter
      <4> QED BY <4>1 DEF QueueInv, GateInv
    <3> QED BY <3>2, <3>3, <3>4 DEF EngineAlone
  <2> QED BY <2>1, <2>2, <2>3, <2>4 DEF QueueSound, QueueExact
<1> QED
  BY <1>1, QueueInvariance, PTL

-----------------------------------------------------------------------------
(* The network collector.                                                  *)

(* A non-empty set of numbers has a least one.                             *)
LEMMA LeastNumber ==
  ASSUME NEW T \in SUBSET Nat, T # {}
  PROVE  \E x \in T : \A y \in T : x <= y
<1> DEFINE R == {ss \in Nat \X Nat : ss[1] < ss[2]}
<1>1. IsWellFoundedOn(R, Nat)
  <2>1. OpToRel(<, Nat) = R
    BY DEF OpToRel
  <2> QED
    BY <2>1, NatLessThanWellFounded
<1>2. PICK x \in T : \A y \in T : ~(<<y, x>> \in R)
  BY <1>1, WFMin
<1>3. \A y \in T : x <= y
  <2> SUFFICES ASSUME NEW y \in T, ~(x <= y) PROVE FALSE
    OBVIOUS
  <2>1. x \in Nat /\ y \in Nat /\ y < x
    OBVIOUS
  <2>2. <<y, x>> \in R
    BY <2>1
  <2> QED
    BY <2>2, <1>2
<1> QED
  BY <1>3

Counters == [out : 0 .. Top, resolver : 0 .. Top, elsewhere : 0 .. Top, connections : 0 .. Top,
             encrypted : BOOLEAN]
Additions == [out : Nat, resolver : Nat, elsewhere : Nat, connections : Nat, encrypted : BOOLEAN]
Entree == [occupied : BOOLEAN, key : Keys \cup {"none"}, seq : Nat, counters : Counters]

(* The parts of the invariant of the collector.  The entry of a process    *)
(* holds what is owed to it and when it was last recorded; a process has   *)
(* one entry at most; one without is owed nothing.                         *)
CollectorTypeInv ==
  /\ table \in [Entrees -> Entree] /\ seq \in Nat /\ ops \in Nat
  /\ harvest.at \in Nat /\ harvest.at <= ops
  /\ owed \in [Keys -> Counters] /\ last \in [Keys -> Nat]
EntryInv ==
  \A i \in Entrees : table[i].occupied =>
    /\ table[i].key \in Keys
    /\ table[i].counters = owed[table[i].key] /\ table[i].seq = last[table[i].key]
OneEntry ==
  \A i, j \in Entrees : table[i].occupied /\ table[j].occupied /\ table[i].key = table[j].key => i = j
NothingOwed == \A k \in Keys : Own(k) = {} => owed[k] = Zero

CollectorInv == CollectorTypeInv /\ EntryInv /\ OneEntry /\ NothingOwed

(* A sum that saturates stays within its limit.                            *)
LEMMA SaturatedSum ==
  ASSUME NEW a \in Nat, NEW b \in Nat
  PROVE  additionnerSature(a, b) \in 0 .. Top
<1>1. Top \in Nat /\ a + b \in Nat
  BY CollectorAssumption
<1>2. \E x \in {a + b, Top} : \A y \in {a + b, Top} : x <= y
  BY <1>1
<1>3. PICK m : m = Min({a + b, Top})
  OBVIOUS
<1>4. m \in {a + b, Top} /\ \A y \in {a + b, Top} : m <= y
  BY <1>2, <1>3 DEF Min
<1>5. m <= Top /\ m \in Nat
  BY <1>1, <1>4
<1> QED
  BY <1>1, <1>3, <1>5 DEF additionnerSature

LEMMA PlusType ==
  ASSUME NEW c \in Counters, NEW add \in Additions
  PROVE  Plus(c, add) \in Counters
<1>1. Top \in Nat
  BY CollectorAssumption
<1>2. /\ c.out \in Nat /\ c.resolver \in Nat /\ c.elsewhere \in Nat /\ c.connections \in Nat
      /\ add.out \in Nat /\ add.resolver \in Nat /\ add.elsewhere \in Nat /\ add.connections \in Nat
      /\ c.encrypted \in BOOLEAN /\ add.encrypted \in BOOLEAN
  BY <1>1 DEF Counters, Additions
<1>3. /\ additionnerSature(c.out, add.out) \in 0 .. Top
      /\ additionnerSature(c.resolver, add.resolver) \in 0 .. Top
      /\ additionnerSature(c.elsewhere, add.elsewhere) \in 0 .. Top
      /\ additionnerSature(c.connections, add.connections) \in 0 .. Top
  BY <1>2, SaturatedSum
<1> QED
  BY <1>2, <1>3 DEF Plus, Counters

LEMMA ZeroType == Zero \in Counters
  BY CollectorAssumption DEF Zero, Counters

(* What acquerirEmplacementVerrouille promises: the entry of the process   *)
(* if it has one; another's only when every entry is in use, and then the  *)
(* one used the longest ago.                                               *)
Placed(k, i) ==
  /\ i \in Entrees
  /\ Own(k) # {} => Own(k) = {i}
  /\ Own(k) = {} /\ table[i].occupied =>
       \A j \in Entrees : table[j].occupied /\ table[i].seq <= table[j].seq

LEMMA EmplacementPlaced ==
  ASSUME CollectorTypeInv, OneEntry, NEW k \in Keys
  PROVE  Placed(k, Emplacement(k))
<1> DEFINE unused == {i \in Entrees : ~table[i].occupied}
<1>1. capaciteTableProcessus \in Nat /\ 1 \in Entrees /\ Entrees \subseteq Nat
  BY CollectorAssumption DEF Entrees
<1>2. CASE Own(k) # {}
  <2>1. PICK i \in Entrees : i \in Own(k)
    BY <1>2 DEF Own
  <2>2. Own(k) = {i}
    BY <2>1 DEF Own, OneEntry
  <2>3. i <= i
    BY <1>1
  <2>4. Min({i}) = i
    BY <2>3 DEF Min
  <2>5. Emplacement(k) = i
    BY <1>2, <2>2, <2>4 DEF Emplacement
  <2> QED
    BY <1>2, <2>1, <2>2, <2>5 DEF Placed
<1>3. CASE Own(k) = {} /\ unused # {}
  <2>1. \A i \in unused : capaciteTableProcessus - i \in Nat
    BY <1>1 DEF Entrees
  <2>2. \E i \in unused : \A j \in unused : capaciteTableProcessus - i <= capaciteTableProcessus - j
    <3> DEFINE T == {capaciteTableProcessus - i : i \in unused}
    <3>1. T \in SUBSET Nat /\ T # {}
      BY <2>1, <1>3
    <3>2. PICK x \in T : \A y \in T : x <= y
      BY <3>1, LeastNumber
    <3>3. PICK i \in unused : x = capaciteTableProcessus - i
      BY <3>2
    <3>4. \A j \in unused : capaciteTableProcessus - j \in T
      OBVIOUS
    <3> QED
      BY <3>2, <3>3, <3>4
  <2>3. \E i \in unused : \A j \in unused : i >= j
    <3>1. PICK i \in unused : \A j \in unused : capaciteTableProcessus - i <= capaciteTableProcessus - j
      BY <2>2
    <3>2. \A j \in unused : i >= j
      <4> SUFFICES ASSUME NEW j \in unused PROVE i >= j
        OBVIOUS
      <4>1. capaciteTableProcessus - i <= capaciteTableProcessus - j /\ i \in Nat /\ j \in Nat
        BY <3>1, <1>1
      <4> QED
        BY <4>1, <1>1
    <3> QED
      BY <3>2
  <2>4. Max(unused) \in unused
    BY <2>3 DEF Max
  <2>5. Emplacement(k) = Max(unused)
    BY <1>3 DEF Emplacement
  <2>6. Emplacement(k) \in Entrees /\ ~table[Emplacement(k)].occupied
    BY <2>4, <2>5
  <2> QED
    BY <1>3, <2>6 DEF Placed
<1>4. CASE Own(k) = {} /\ unused = {}
  <2>1. \A j \in Entrees : table[j].occupied
    BY <1>4
  <2>2. \A j \in Entrees : table[j].seq \in Nat
    BY DEF CollectorTypeInv, Entree
  <2>3. \E i \in Entrees : \A j \in Entrees : table[i].seq <= table[j].seq
    <3> DEFINE T == {table[i].seq : i \in Entrees}
    <3>1. T \in SUBSET Nat /\ T # {}
      BY <2>2, <1>1
    <3>2. PICK x \in T : \A y \in T : x <= y
      BY <3>1, LeastNumber
    <3>3. PICK i \in Entrees : x = table[i].seq
      BY <3>2
    <3>4. \A j \in Entrees : table[j].seq \in T
      OBVIOUS
    <3> QED
      BY <3>2, <3>3, <3>4
  <2>4. EarliestUsed \in Entrees /\ \A j \in Entrees : table[EarliestUsed].seq <= table[j].seq
    BY <2>3 DEF EarliestUsed
  <2>5. Emplacement(k) = EarliestUsed
    BY <1>4 DEF Emplacement
  <2> QED
    BY <1>4, <2>1, <2>4, <2>5 DEF Placed
<1> QED
  BY <1>2, <1>3, <1>4


(* The effect of a record: the entry placed holds what is now owed to the  *)
(* process, and the one it belonged to before is owed nothing.             *)
Recorded(k, add, i) ==
  /\ Placed(k, i)
  /\ table' = [table EXCEPT ![i] = [occupied |-> TRUE, key |-> k, seq |-> seq + 1, counters |-> Plus(owed[k], add)]]
  /\ owed' = [x \in Keys |-> IF x = k THEN Plus(owed[k], add)
                             ELSE IF table[i].occupied /\ table[i].key = x THEN Zero ELSE owed[x]]
  /\ last' = [last EXCEPT ![k] = seq + 1]
  /\ seq' = seq + 1 /\ ops' = ops + 1 /\ harvest' = harvest

LEMMA RecordEffect ==
  ASSUME CollectorInv, NEW k \in Keys, NEW add, Record(k, add)
  PROVE  Recorded(k, add, Emplacement(k))
<1>1. PICK i : i = Emplacement(k)
  OBVIOUS
<1>2. Placed(k, i)
  BY <1>1, EmplacementPlaced DEF CollectorInv
<1>3. (IF table[i].occupied /\ table[i].key = k THEN table[i].counters ELSE Zero) = owed[k]
  <2>1. CASE table[i].occupied /\ table[i].key = k
    BY <1>2, <2>1 DEF CollectorInv, EntryInv, Placed
  <2>2. CASE ~(table[i].occupied /\ table[i].key = k)
    <3>1. i \notin Own(k)
      BY <2>2 DEF Own
    <3>2. Own(k) = {}
      BY <1>2, <3>1 DEF Placed
    <3> QED
      BY <2>2, <3>2 DEF CollectorInv, NothingOwed
  <2> QED
    BY <2>1, <2>2
<1> QED
  BY <1>1, <1>2, <1>3 DEF Record, Recorded

LEMMA RecordedKeeps ==
  ASSUME CollectorInv, NEW k \in Keys, NEW add \in Additions, NEW i, Recorded(k, add, i)
  PROVE  CollectorInv'
<1>1. PICK sum : sum = Plus(owed[k], add)
  OBVIOUS
<1>2. sum \in Counters
  BY <1>1, PlusType DEF CollectorInv, CollectorTypeInv
<1>3. i \in Entrees /\ \A j \in Entrees : j # i => table'[j] = table[j]
  BY DEF Recorded, Placed, CollectorInv, CollectorTypeInv
<1>4. table'[i] = [occupied |-> TRUE, key |-> k, seq |-> seq + 1, counters |-> sum]
  BY <1>1, <1>3 DEF Recorded, CollectorInv, CollectorTypeInv
<1>5. /\ owed'[k] = sum
      /\ \A x \in Keys : x # k => owed'[x] = IF table[i].occupied /\ table[i].key = x THEN Zero ELSE owed[x]
  BY <1>1 DEF Recorded
<1>6. last'[k] = seq + 1 /\ \A x \in Keys : x # k => last'[x] = last[x]
  BY DEF Recorded, CollectorInv, CollectorTypeInv
<1>7. \A j \in Entrees : j # i /\ table[j].occupied => table[j].key # k
  <2> SUFFICES ASSUME NEW j \in Entrees, j # i, table[j].occupied, table[j].key = k PROVE FALSE
    OBVIOUS
  <2>1. j \in Own(k)
    BY DEF Own
  <2> QED
    BY <2>1 DEF Recorded, Placed
<1>8. CollectorTypeInv'
  <2>1. table' \in [Entrees -> Entree]
    <3>1. table'[i] \in Entree
      BY <1>2, <1>4 DEF Entree, CollectorInv, CollectorTypeInv
    <3> QED
      BY <1>3, <3>1 DEF Recorded, CollectorInv, CollectorTypeInv
  <2>2. owed' \in [Keys -> Counters]
    <3>1. \A x \in Keys : owed'[x] \in Counters
      BY <1>2, <1>5, ZeroType DEF CollectorInv, CollectorTypeInv
    <3> QED
      BY <3>1 DEF Recorded
  <2>3. last' \in [Keys -> Nat]
    BY DEF Recorded, CollectorInv, CollectorTypeInv
  <2>4. seq' \in Nat /\ ops' \in Nat /\ harvest'.at \in Nat /\ harvest'.at <= ops'
    BY DEF Recorded, CollectorInv, CollectorTypeInv
  <2> QED
    BY <2>1, <2>2, <2>3, <2>4 DEF CollectorTypeInv, Entrees, Entree, Counters
<1>9. OneEntry'
  <2> SUFFICES ASSUME NEW a \in Entrees, NEW b \in Entrees, table'[a].occupied, table'[b].occupied,
                      table'[a].key = table'[b].key
               PROVE  a = b
    BY DEF OneEntry, Entrees
  <2> QED
    BY <1>3, <1>4, <1>7 DEF OneEntry, CollectorInv
<1>10. EntryInv'
  <2> SUFFICES ASSUME NEW j \in Entrees, table'[j].occupied
               PROVE  /\ table'[j].key \in Keys
                      /\ table'[j].counters = owed'[table'[j].key] /\ table'[j].seq = last'[table'[j].key]
    BY DEF EntryInv, Entrees
  <2>1. CASE j = i
    BY <2>1, <1>4, <1>5, <1>6
  <2>2. CASE j # i
    <3>1. table'[j] = table[j] /\ table[j].occupied /\ table[j].key # k /\ table[j].key \in Keys
      BY <2>2, <1>3, <1>7 DEF CollectorInv, EntryInv
    <3>2. ~(table[i].occupied /\ table[i].key = table[j].key)
      BY <2>2, <1>3, <3>1 DEF CollectorInv, OneEntry
    <3>3. owed'[table[j].key] = owed[table[j].key] /\ last'[table[j].key] = last[table[j].key]
      BY <3>1, <3>2, <1>5, <1>6
    <3> QED
      BY <3>1, <3>3 DEF CollectorInv, EntryInv
  <2> QED
    BY <2>1, <2>2
<1>11. NothingOwed'
  <2> SUFFICES ASSUME NEW x \in Keys, Own(x)' = {} PROVE owed'[x] = Zero
    BY DEF NothingOwed
  <2>1. \A j \in Entrees : ~(table'[j].occupied /\ table'[j].key = x)
    BY DEF Own, Entrees
  <2>2. x # k
    BY <2>1, <1>3, <1>4
  <2>3. CASE table[i].occupied /\ table[i].key = x
    BY <2>2, <2>3, <1>5
  <2>4. CASE ~(table[i].occupied /\ table[i].key = x)
    <3>1. Own(x) = {}
      BY <2>1, <2>4, <1>3 DEF Own
    <3> QED
      BY <2>2, <2>4, <3>1, <1>5 DEF CollectorInv, NothingOwed
  <2> QED
    BY <2>3, <2>4
<1> QED
  BY <1>8, <1>9, <1>10, <1>11 DEF CollectorInv

(* A process that leaves the table by a record is the one recorded the     *)
(* longest ago.                                                            *)
LEMMA RecordedSpares ==
  ASSUME CollectorInv, NEW k \in Keys, NEW add, NEW i, Recorded(k, add, i),
         NEW gone \in Keys, Own(gone) # {}, Own(gone)' = {}, NEW x \in Keys, Own(x) # {}
  PROVE  last[gone] <= last[x]
<1>1. PICK a \in Entrees : table[a].occupied /\ table[a].key = gone
  BY DEF Own
<1>2. PICK b \in Entrees : table[b].occupied /\ table[b].key = x
  BY DEF Own
<1>3. \A j \in Entrees : ~(table'[j].occupied /\ table'[j].key = gone)
  BY DEF Own, Entrees
<1>4. i \in Entrees /\ table'[i].occupied /\ table'[i].key = k /\ \A j \in Entrees : j # i => table'[j] = table[j]
  BY DEF Recorded, Placed, CollectorInv, CollectorTypeInv
<1>5. a = i /\ gone # k
  BY <1>1, <1>3, <1>4
<1>6. Own(k) = {}
  <2> SUFFICES ASSUME Own(k) # {} PROVE FALSE
    OBVIOUS
  <2>1. i \in Own(k)
    BY DEF Recorded, Placed
  <2> QED
    BY <2>1, <1>1, <1>5 DEF Own
<1>7. table[i].seq <= table[b].seq
  BY <1>1, <1>2, <1>5, <1>6 DEF Recorded, Placed
<1>8. table[a].seq = last[gone] /\ table[b].seq = last[x]
  BY <1>1, <1>2 DEF CollectorInv, EntryInv
<1> QED
  BY <1>5, <1>7, <1>8


(* A harvest gives what is owed, and the process is then owed nothing.     *)
LEMMA HarvestedIsOwed ==
  ASSUME CollectorInv, NEW k \in Keys, RecolterEtPurger(k)
  PROVE  harvest'.key = k /\ harvest'.counters = owed[k]
<1>1. harvest'.key = k /\ harvest'.counters = IF Own(k) = {} THEN Zero ELSE table[Min(Own(k))].counters
  BY DEF RecolterEtPurger
<1>2. CASE Own(k) = {}
  BY <1>1, <1>2 DEF CollectorInv, NothingOwed
<1>3. CASE Own(k) # {}
  <2>1. PICK i \in Entrees : i \in Own(k)
    BY <1>3 DEF Own
  <2>2. Own(k) = {i}
    BY <2>1 DEF Own, OneEntry, CollectorInv
  <2>3. i <= i
    BY CollectorAssumption DEF Entrees
  <2>4. Min({i}) = i
    BY <2>3 DEF Min
  <2>5. table[i].counters = owed[k]
    BY <2>1 DEF Own, CollectorInv, EntryInv
  <2> QED
    BY <1>1, <1>3, <2>2, <2>4, <2>5
<1> QED
  BY <1>2, <1>3

LEMMA HarvestDated ==
  ASSUME NEW k, RecolterEtPurger(k)
  PROVE  harvest'.at = ops + 1
  BY DEF RecolterEtPurger

LEMMA HarvestKeeps ==
  ASSUME CollectorInv, NEW k \in Keys, RecolterEtPurger(k)
  PROVE  CollectorInv'
<1>1. \A i \in Entrees : i \notin Own(k) => table'[i] = table[i]
  BY DEF RecolterEtPurger
<1>2. \A i \in Entrees : i \in Own(k) => table'[i] = [table[i] EXCEPT !.occupied = FALSE, !.counters = Zero]
  BY DEF RecolterEtPurger
<1>3. \A i \in Entrees : i \in Own(k) => ~table'[i].occupied /\ table'[i] \in Entree
  BY ZenonT(30), <1>2, ZeroType DEF CollectorInv, CollectorTypeInv, Entree
<1>4. owed'[k] = Zero /\ \A x \in Keys : x # k => owed'[x] = owed[x]
  BY DEF RecolterEtPurger, CollectorInv, CollectorTypeInv
<1>5. \A i \in Entrees : table'[i].occupied => table'[i] = table[i] /\ table[i].key # k
  BY <1>1, <1>3 DEF Own
<1>6. seq' = seq /\ last' = last /\ ops' = ops + 1 /\ harvest'.at = ops'
  BY DEF RecolterEtPurger
<1>7. CollectorTypeInv'
  <2>1. table' \in [Entrees -> Entree]
    <3>1. \A i \in Entrees : table'[i] \in Entree
      BY <1>1, <1>3 DEF CollectorInv, CollectorTypeInv
    <3>2. table' = [i \in Entrees |-> table'[i]]
      BY DEF RecolterEtPurger
    <3> QED
      BY <3>1, <3>2
  <2>2. owed' \in [Keys -> Counters]
    BY ZeroType DEF RecolterEtPurger, CollectorInv, CollectorTypeInv
  <2>3. seq' \in Nat /\ ops' \in Nat /\ harvest'.at \in Nat /\ harvest'.at <= ops' /\ last' \in [Keys -> Nat]
    BY <1>6 DEF CollectorInv, CollectorTypeInv
  <2> QED
    BY <2>1, <2>2, <2>3 DEF CollectorTypeInv, Entrees, Entree, Counters
<1>8. OneEntry'
  <2> SUFFICES ASSUME NEW a \in Entrees, NEW b \in Entrees, table'[a].occupied, table'[b].occupied,
                      table'[a].key = table'[b].key
               PROVE  a = b
    BY DEF OneEntry, Entrees
  <2> QED
    BY <1>5 DEF OneEntry, CollectorInv
<1>9. EntryInv'
  <2> SUFFICES ASSUME NEW j \in Entrees, table'[j].occupied
               PROVE  /\ table'[j].key \in Keys
                      /\ table'[j].counters = owed'[table'[j].key] /\ table'[j].seq = last'[table'[j].key]
    BY DEF EntryInv, Entrees
  <2> QED
    BY <1>4, <1>5, <1>6 DEF CollectorInv, EntryInv
<1>10. NothingOwed'
  <2> SUFFICES ASSUME NEW x \in Keys, Own(x)' = {} PROVE owed'[x] = Zero
    BY DEF NothingOwed
  <2>1. CASE x = k
    BY <2>1, <1>4
  <2>2. CASE x # k
    <3>1. \A j \in Entrees : ~(table'[j].occupied /\ table'[j].key = x)
      BY DEF Own, Entrees
    <3>2. \A j \in Entrees : ~(table[j].occupied /\ table[j].key = x)
      BY <3>1, <2>2, <1>1 DEF Own
    <3>3. Own(x) = {}
      BY <3>2 DEF Own
    <3> QED
      BY <2>2, <3>3, <1>4 DEF CollectorInv, NothingOwed
  <2> QED
    BY <2>1, <2>2
<1> QED
  BY <1>7, <1>8, <1>9, <1>10 DEF CollectorInv

(* What the two kinds of observation add.                                  *)
LEMMA DatagramAdds ==
  ASSUME NEW d \in Datagrams
  PROVE  [Zero EXCEPT !.out = d.bytes, !.connections = IF d.connection THEN 1 ELSE 0] \in Additions
  BY CollectorAssumption DEF Zero, Additions

LEMMA FlowAdds ==
  ASSUME NEW d \in Flows
  PROVE  [out |-> additionnerSature(d.resolver, d.elsewhere), resolver |-> d.resolver,
          elsewhere |-> d.elsewhere, connections |-> IF d.connection THEN 1 ELSE 0,
          encrypted |-> d.encrypted \/ d.resolver > 0] \in Additions
<1>1. d.resolver \in Nat /\ d.elsewhere \in Nat /\ d.encrypted \in BOOLEAN /\ Top \in Nat
  BY CollectorAssumption
<1>2. additionnerSature(d.resolver, d.elsewhere) \in 0 .. Top
  BY <1>1, SaturatedSum
<1> QED
  BY <1>1, <1>2 DEF Additions

(* Every step of the collector is a record of an addition, or a harvest.   *)
LEMMA CollectorSteps ==
  ASSUME CollectorNext
  PROVE  \E k \in Keys : RecolterEtPurger(k) \/ \E add \in Additions : Record(k, add)
  BY DatagramAdds, FlowAdds DEF CollectorNext, EnregistrerObservationReseau, EnregistrerObservationResolveur

LEMMA CollectorStart == CollectorInit => CollectorInv
<1> SUFFICES ASSUME CollectorInit PROVE CollectorInv
  OBVIOUS
<1>1. Unused \in Entree /\ Unused.occupied = FALSE
  BY ZeroType DEF Unused, Entree
<1>2. \A i \in Entrees : table[i] = Unused
  BY DEF CollectorInit
<1>3. CollectorTypeInv
  BY <1>1, ZeroType DEF CollectorInit, CollectorTypeInv
<1>4. EntryInv /\ OneEntry
  BY <1>1, <1>2 DEF EntryInv, OneEntry
<1>5. NothingOwed
  BY DEF NothingOwed, CollectorInit
<1> QED
  BY <1>3, <1>4, <1>5 DEF CollectorInv

LEMMA CollectorStep == CollectorInv /\ [CollectorNext]_collectorVars => CollectorInv'
<1> SUFFICES ASSUME CollectorInv, [CollectorNext]_collectorVars PROVE CollectorInv'
  OBVIOUS
<1>1. CASE CollectorNext
  BY <1>1, CollectorSteps, RecordEffect, RecordedKeeps, HarvestKeeps
<1>2. CASE UNCHANGED collectorVars
  BY <1>2 DEF collectorVars, CollectorInv, CollectorTypeInv, EntryInv, OneEntry, NothingOwed, Own
<1> QED
  BY <1>1, <1>2

(* Of every process, whatever the size of the table and the number of      *)
(* processes that compete for it: a harvest is all that was recorded of it *)
(* since its last harvest or its recycling, counters saturate, and a full  *)
(* table gives up the entry that was used the longest ago.                 *)
THEOREM CollectorIsExact == CollectorSpec => CollectorExact
<1>1. CollectorInv => Saturates
  BY DEF CollectorInv, CollectorTypeInv, Saturates, Entree, Counters
<1>2. CollectorInv /\ [CollectorNext]_collectorVars =>
        [harvest' # harvest => harvest'.counters = owed[harvest'.key]]_collectorVars
  <2> SUFFICES ASSUME CollectorInv, [CollectorNext]_collectorVars, harvest' # harvest
               PROVE  harvest'.counters = owed[harvest'.key]
    OBVIOUS
  <2>1. CollectorNext
    BY DEF collectorVars
  <2>2. PICK k \in Keys : RecolterEtPurger(k) \/ \E add \in Additions : Record(k, add)
    BY <2>1, CollectorSteps
  <2>3. RecolterEtPurger(k)
    BY <2>2 DEF Record
  <2> QED
    BY <2>3, HarvestedIsOwed
<1>3. CollectorInv /\ [CollectorNext]_collectorVars =>
        [\A k \in Keys : Own(k) # {} /\ Own(k)' = {} /\ harvest' = harvest =>
           \A x \in Keys : Own(x) # {} => last[k] <= last[x]]_collectorVars
  <2> SUFFICES ASSUME CollectorInv, [CollectorNext]_collectorVars, NEW gone \in Keys,
                      Own(gone) # {}, Own(gone)' = {}, harvest' = harvest, NEW x \in Keys, Own(x) # {}
               PROVE  last[gone] <= last[x]
    OBVIOUS
  <2>1. CASE CollectorNext
    <3>1. PICK k \in Keys : RecolterEtPurger(k) \/ \E add \in Additions : Record(k, add)
      BY <2>1, CollectorSteps
    <3>2. ~RecolterEtPurger(k)
      <4> SUFFICES ASSUME RecolterEtPurger(k) PROVE FALSE
        OBVIOUS
      <4>1. harvest'.at = ops + 1
        BY HarvestDated
      <4> QED
        BY <4>1 DEF CollectorInv, CollectorTypeInv
    <3>3. PICK add \in Additions : Record(k, add)
      BY <3>1, <3>2
    <3>4. Recorded(k, add, Emplacement(k))
      BY <3>3, RecordEffect
    <3> QED
      BY <3>4, RecordedSpares
  <2>2. CASE UNCHANGED collectorVars
    <3>1. Own(gone)' = Own(gone)
      BY <2>2 DEF collectorVars, Own
    <3> QED
      BY <3>1
  <2> QED
    BY <2>1, <2>2
<1> QED
  BY <1>1, <1>2, <1>3, CollectorStart, CollectorStep, PTL DEF CollectorSpec, CollectorExact, HarvestExact, ActiveKept

=============================================================================
