--------------------------- MODULE KineticProfile ---------------------------
(***************************************************************************)
(* The kinetic profile table of profil_welford.go over the quotients of    *)
(* quotients_episode.go.  A measure is what two snapshots of a task, the   *)
(* pressure of the host and the network collector give for one episode:    *)
(* its differences, already found to be of one process and not decreasing. *)
(* ObserverEpisode compares it with the profile of its executable and core *)
(* class, gives it an orientation, and then updates the profile unless the *)
(* orientation freezes it.  The table is used by one goroutine; one of its *)
(* 64 sets is modelled.  Welford's mean and variance are left out: no      *)
(* decision reads them.                                                    *)
(***************************************************************************)
EXTENDS Integers, Sequences, SequencesExt, FiniteSets, FiniteSetsExt

CONSTANTS
  Mesures,         \* the measures of the episodes
  Voies,           \* voiesParEnsembleProfil
  TailleAnneau,    \* TailleAnneauRobuste
  MinAmorcage, SeuilScore, SeuilHausse, SeuilEgress, SeuilPas, Figer,
                   \* ConfigProfilCinetique
  Planchers,       \* ConfigPlanchersCinetiques
  MaxEpisodes      \* bound: the episodes of a behaviour

ASSUME ProfileAssumption ==
  /\ Voies \in Nat \ {0} /\ TailleAnneau \in Nat \ {0}
  /\ MinAmorcage \in Nat /\ SeuilPas \in Nat /\ Figer \in BOOLEAN

VARIABLES
  voies,     \* the ways of the set
  seqAcces,
  diag,      \* what the last call returned
  hist       \* history: for every call its profile, its measure and what it found

vars == <<voies, seqAcces, diag, hist>>

-----------------------------------------------------------------------------
(* The vocabulary of internal/cinetique and the physical veto of           *)
(* arbitre_slm.go: the quotients, the orientations of the profile table,   *)
(* the causal verdicts of an arbiter, and the rules by which the facts of  *)
(* an episode ep, or of a diagnostic d, overrule a proposed verdict.       *)
ES == 0      \* bytes per I/O call
PE == 1      \* share of writes
AB == 2      \* block amplification
CPU == 3     \* CPU time per logical KiB
RSS == 4     \* peak resident memory per thread
EGR == 5     \* egress over reads
CNX == 6     \* connections per thousand DNS resolutions
PRE == 7     \* share of preemptions
ATT == 8     \* wait for the scheduler
DIL == 9     \* off-CPU dilatation
RES == 10    \* share of an encrypted resolver
ABS == 11    \* absorption, descriptive
Quotients == 0 .. 11
SensiblesCPU == {CPU, PRE, ATT, DIL}
Descriptifs == {ABS}

Orientations == {"amorcage", "nominale", "abstention", "degradationES", "compromission",
                 "derive", "ecart"}
Verdicts == {"materielle", "compromission", "derive", "contention"}

(* The orientations that wake an arbiter.                                  *)
DoitEscalade(d) == d.orientation \in {"degradationES", "compromission", "derive", "ecart"}

ActiviteDisque(ep) == ep.lus > 0 \/ ep.ecrits > 0 \/ ep.bloc > 0
OctetsSortantsNuls(ep) ==
  /\ ep.sortants = 0 /\ ep.versResolveur = 0 /\ ep.horsResolveur = 0
  /\ EGR \in ep.valides => ep.valeurs[EGR] <= 0

IndiceHostile(ep) == ep.codeDNS \/ ep.port \/ ep.sansDNS
AucunCanal(ep) == OctetsSortantsNuls(ep) /\ ~IndiceHostile(ep)
DeriveRessource(d) ==
  \/ EGR \in d.ep.valides /\ d.ep.valeurs[EGR] >= 50
  \/ d.variations[CPU] >= 50
  \/ d.variations[RSS] >= 35
  \/ d.ep.codeDNS
PreuveConvergente(d) == IndiceHostile(d.ep) /\ DeriveRessource(d)
(* Mutant of HausseMemoire: a growth needs the default threshold of steps. *)
HausseMemoireTard(d) == d.pas >= 5 \/ d.variations[RSS] > 20
HausseMemoire(d) == d.pas >= 3 \/ d.variations[RSS] > 20

-----------------------------------------------------------------------------
(* The verdicts that replace a proposal that the facts rule out.           *)
SansDisque(d) ==
  CASE PreuveConvergente(d) -> "compromission"
    [] ~PreuveConvergente(d) /\ d.orientation = "derive" -> "derive"
    [] OTHER -> "contention"
SansReseau(d) ==
  CASE d.orientation = "degradationES" /\ ActiviteDisque(d.ep) -> "materielle"
    [] d.orientation = "derive" -> "derive"
    [] OTHER -> "contention"
SansHausse(d) ==
  CASE d.orientation = "degradationES" /\ ActiviteDisque(d.ep) /\ AucunCanal(d.ep) -> "materielle"
    [] PreuveConvergente(d) -> "compromission"
    [] OTHER -> "contention"

(* A monotonic growth of the memory, with no channel and no I/O stall.     *)
DeriveProuvee(d) ==
  AucunCanal(d.ep) /\ d.orientation = "derive" /\ d.ep.valeurs[DIL] < 1000
(* An overloaded or migrated processor, with no channel and no drift.      *)
Contention(d) ==
  (d.ep.psi \/ d.ep.migration) /\ AucunCanal(d.ep) /\ d.orientation # "derive"

(* Mutant of Veto: a convergent proof is not imposed on other proposals.   *)
VetoLaunders(d, v) ==
  IF v = "materielle" /\ ~ActiviteDisque(d.ep) THEN SansDisque(d)
  ELSE IF v = "compromission" /\ AucunCanal(d.ep) THEN SansReseau(d)
  ELSE IF v = "derive" /\ ~HausseMemoire(d) THEN SansHausse(d)
  ELSE IF DeriveProuvee(d) THEN "derive"
  ELSE IF Contention(d) THEN "contention"
  ELSE v

(* The verdict that is kept, in the order of the six rules.                *)
Veto(d, v) ==
  IF v = "materielle" /\ ~ActiviteDisque(d.ep) THEN SansDisque(d)
  ELSE IF v = "compromission" /\ AucunCanal(d.ep) THEN SansReseau(d)
  ELSE IF v = "derive" /\ ~HausseMemoire(d) THEN SansHausse(d)
  ELSE IF PreuveConvergente(d) THEN "compromission"
  ELSE IF DeriveProuvee(d) THEN "derive"
  ELSE IF Contention(d) THEN "contention"
  ELSE v

-----------------------------------------------------------------------------
(* Quotients of an episode: numerator, factor, denominator and floor.      *)
Concurrence(m) == Max({1, m.fils})
PicRSS(m) == Max({m.rss, m.hwm})
Logiques(m) == m.lus + m.ecrits
Occupes(m) == m.exec + m.attente
HorsCPU(m) == IF m.duree > Occupes(m) THEN m.duree - Occupes(m) ELSE 0
DenomResolveur(m) == Max({m.versResolveur + m.horsResolveur, m.sortants})

Ratio(m) ==
  [q \in Quotients |->
    CASE q = ES  -> <<Logiques(m), 1, m.appels, Planchers.appels>>
      [] q = PE  -> <<m.ecrits, 1000, Logiques(m), Planchers.octets>>
      [] q = AB  -> <<m.bloc, 1000, Logiques(m), Planchers.octets>>
      [] q = CPU -> <<m.exec, 1024, Logiques(m), Planchers.octets>>
      [] q = RSS -> <<PicRSS(m), 1, Concurrence(m), 0>>
      [] q = EGR -> <<m.sortants, 1000, m.lus, Planchers.octets>>
      [] q = CNX -> <<m.connexions, 1000, m.resolutions, Planchers.resolutions>>
      [] q = PRE -> <<m.subies, 1000, m.subies + m.volontaires, Planchers.commutations>>
      [] q = ATT -> <<m.attente, 1000, m.exec, Planchers.exec>>
      [] q = DIL -> <<HorsCPU(m), 1000, m.exec, Planchers.exec>>
      [] q = RES -> <<m.versResolveur, 1000, DenomResolveur(m), Planchers.resolveur>>
      [] q = ABS -> <<m.absorbes, 1000, m.entrants, Planchers.entrants>>]

Valides(m) ==
  LET r == Ratio(m)
  IN {q \in Quotients : r[q][3] > 0 /\ r[q][3] >= r[q][4] /\ (q = RSS => PicRSS(m) > 0)}
Quotient(r) == (r[1] * r[2]) \div r[3]

FluxResolveur(m) == m.fluxResolveur \/ m.versResolveur > 0
Migration(m) == m.hybride /\ 0 \notin {m.classeDebut, m.classeFin} /\ m.classeDebut # m.classeFin

EvaluerEpisode(m) ==
  LET v == Valides(m)
      r == Ratio(m)
      vals == [q \in Quotients |->
                IF q \notin v THEN 0
                ELSE IF q = RES THEN Min({Quotient(r[q]), 1000}) ELSE Quotient(r[q])]
  IN [cle |-> m.executable, classeDebut |-> m.classeDebut, classeFin |-> m.classeFin,
      migration |-> Migration(m), psi |-> Planchers.psi > 0 /\ m.pression > Planchers.psi,
      exec |-> m.exec, attente |-> m.attente, horsCPU |-> HorsCPU(m),
      lus |-> m.lus, ecrits |-> m.ecrits, bloc |-> m.bloc,
      sortants |-> m.sortants, versResolveur |-> m.versResolveur, horsResolveur |-> m.horsResolveur,
      connexionsHors |-> m.connexionsHors, ecoute |-> m.ecoute,
      sansDNS |-> m.connexions > 0 /\ m.resolutions = 0 /\ ~FluxResolveur(m),
      port |-> m.port, codeDNS |-> m.codeDNS,
      confinement |-> RES \in v /\ vals[RES] >= 500 /\ m.connexionsHors = 0 /\ ~m.ecoute,
      rss |-> IF m.rss = 0 THEN PicRSS(m) ELSE m.rss,
      valides |-> v, valeurs |-> vals]
Episode == [m \in Mesures |-> EvaluerEpisode(m)]

-----------------------------------------------------------------------------
(* SuiviQuotientRobuste: the number of observations and the last ones.     *)
SansSuivi == [nombre |-> 0, anneau |-> <<>>]
Enregistrer(s, x) ==
  [nombre |-> s.nombre + 1,
   anneau |-> LET a == Append(s.anneau, x)
              IN IF Len(a) > TailleAnneau THEN Tail(a) ELSE a]

Distance(a, b) == IF a >= b THEN a - b ELSE b - a

Mediane(s) ==
  LET t == SortSeq(s, <)
      n == Len(s)
  IN IF n % 2 = 1 THEN t[n \div 2 + 1] ELSE (t[n \div 2] + t[n \div 2 + 1]) \div 2

(* The relative deviation in percent and the robust score in thousandths.  *)
EvaluerEcart(s, x) ==
  LET a == s.anneau
      mediane == Mediane(a)
      madm == Mediane([i \in DOMAIN a |-> Distance(a[i], mediane)])
      ecart == Distance(x, mediane)
      pct == (ecart * 100) \div Max({mediane, 1})
      echelle == Max({(madm * 1483) \div 1000, mediane \div 20, 1})
  IN [pct |-> IF x < mediane THEN -pct ELSE pct, score |-> (ecart * 1000) \div echelle]

-----------------------------------------------------------------------------
Vide == [occupee |-> FALSE, cle |-> 0, ordre |-> 0, episodes |-> 0, dernierRSS |-> 0, pas |-> 0,
         quotients |-> [q \in Quotients |-> SansSuivi]]

(* The hash of an executable gives up its two low bits to the core class.  *)
ComposerCle(ep) ==
  (ep.cle \div 4) * 4 + (IF ep.migration THEN ep.classeDebut ELSE ep.classeFin)

Tenues(cle) == {v \in 1 .. Voies : voies[v].occupee /\ voies[v].cle = cle}
Libres == {v \in 1 .. Voies : ~voies[v].occupee}

(* The way of the key; a free one; the one that was used longest ago.      *)
VoieCible(cle) ==
  IF Tenues(cle) # {} THEN Min(Tenues(cle))
  ELSE IF Libres # {} THEN Max(Libres)
  ELSE CHOOSE v \in 1 .. Voies : \A w \in 1 .. Voies : voies[v].ordre <= voies[w].ordre

MinQuorum ==
  LET m == Max({4, MinAmorcage \div 2}) IN IF MinAmorcage > 0 THEN Min({m, MinAmorcage}) ELSE m
Abstention(ep) == ep.psi \/ ep.migration
Pret(e, q) == e.quotients[q].nombre >= MinQuorum

(* Warm-up: too few episodes, or temporal quotients of which none is ready. *)
EnAmorcage(e, ep) ==
  \/ e.episodes < MinAmorcage
  \/ /\ ~Abstention(ep)
     /\ ep.valides \cap SensiblesCPU # {}
     /\ \A q \in ep.valides \cap SensiblesCPU : ~Pret(e, q)

PasMonotone(e, ep, amorcage) ==
  IF amorcage \/ ep.rss <= e.dernierRSS THEN 0 ELSE Min({e.pas + 1, 65535})

(* The quotients that are compared with their reference, and the ones that *)
(* are far from it.                                                        *)
Compares(e, ep, amorcage) == {q \in ep.valides : ~amorcage /\ Pret(e, q)}
Alertes(ep, ecarts) ==
  {q \in DOMAIN ecarts \ Descriptifs :
     /\ ~(Abstention(ep) /\ q \in SensiblesCPU)
     /\ ecarts[q].score >= SeuilScore
     /\ Distance(ecarts[q].pct, 0) >= SeuilHausse}

-----------------------------------------------------------------------------
(* determinerOrientation, rule by rule; d is a diagnostic without one.     *)
PreuveIntrinseque(ep) == ep.codeDNS \/ ep.port
ResolveurEnHausse(d) ==
  /\ RES \in d.alertes /\ d.variations[RES] >= SeuilHausse
  /\ d.ep.connexionsHors = 0 /\ ~d.ep.ecoute
Confine(d) == ~d.amorcage /\ (d.ep.confinement \/ ResolveurEnHausse(d))
Suspect(d) ==
  \/ PreuveIntrinseque(d.ep) \/ Confine(d) \/ d.ep.sansDNS
  \/ EGR \in d.ep.valides /\ d.ep.valeurs[EGR] >= SeuilEgress

Hostile(d) ==
  \/ PreuveIntrinseque(d.ep) \/ Confine(d)
  \/ ~d.amorcage /\ Suspect(d) /\ d.alertes \cap {CPU, RSS, EGR, CNX, RES} # {}
Blocage(d) ==
  /\ ~Abstention(d.ep) /\ ~Suspect(d)
  /\ ActiviteDisque(d.ep) /\ DIL \in d.alertes
  /\ d.variations[DIL] >= SeuilHausse /\ d.ep.valeurs[DIL] >= 1000
  /\ d.ep.horsCPU > 2 * d.ep.attente

Fuite(d) ==
  ~Suspect(d) /\ SeuilPas > 0 /\ d.pas >= SeuilPas /\ d.alertes \cap {ES, PE, AB} = {}

NonStructurels(d) ==
  {ATT, PRE} \cup Descriptifs
  \cup {q \in {DIL} : ~ActiviteDisque(d.ep) \/ d.ep.valeurs[DIL] < 1000}
  \cup {q \in {RES} : d.ep.ecoute \/ d.variations[RES] <= 0}
Intrinseques(d) == d.alertes \ NonStructurels(d)
FileDominante(ep) == ep.attente >= ep.exec

DeterminerOrientation(d) ==
  IF Hostile(d) THEN "compromission"
  ELSE IF d.amorcage THEN "amorcage"
  ELSE IF Blocage(d) THEN "degradationES"
  ELSE IF Fuite(d) THEN "derive"
  ELSE IF Intrinseques(d) # {}
       THEN IF FileDominante(d.ep) /\ Intrinseques(d) \subseteq SensiblesCPU
            THEN "abstention" ELSE "ecart"
  ELSE IF Abstention(d.ep) \/ (FileDominante(d.ep) /\ d.alertes \cap {ATT, PRE} # {})
       THEN "abstention" ELSE "nominale"

Diagnostic(e, ep) ==
  LET amorcage == EnAmorcage(e, ep)
      ecarts == [q \in Compares(e, ep, amorcage) |-> EvaluerEcart(e.quotients[q], ep.valeurs[q])]
      d == [ep |-> ep, amorcage |-> amorcage, pas |-> PasMonotone(e, ep, amorcage),
            variations |-> [q \in Quotients |-> IF q \in DOMAIN ecarts THEN ecarts[q].pct ELSE 0],
            alertes |-> Alertes(ep, ecarts), orientation |-> "amorcage"]
  IN [d EXCEPT !.orientation = DeterminerOrientation(d)]

-----------------------------------------------------------------------------
Gelee(o) == Figer /\ o \in {"compromission", "degradationES", "ecart"}

Appris(ep, o) ==
  {q \in ep.valides : ~(Abstention(ep) /\ q \in SensiblesCPU) /\ ~(o = "derive" /\ q = RSS)}

(* Mutant of MettreAJour: the cursor is frozen with the reference.         *)
MettreAJourFige(e, d) ==
  IF Gelee(d.orientation) THEN e
  ELSE [e EXCEPT
         !.quotients = [q \in Quotients |-> IF q \in Appris(d.ep, d.orientation)
                                            THEN Enregistrer(@[q], d.ep.valeurs[q]) ELSE @[q]],
         !.episodes = @ + 1, !.dernierRSS = d.ep.rss, !.pas = IF d.amorcage THEN 0 ELSE d.pas]

(* The entry after an episode that got the diagnostic d: the reference     *)
(* learns unless it is frozen, and outside warm-up the memory cursor       *)
(* follows every episode that is not hostile.                              *)
MettreAJour(e, d) ==
  LET ep == d.ep
      o == d.orientation
      suivi == ~d.amorcage /\ o # "compromission"
  IN [e EXCEPT
        !.quotients = [q \in Quotients |-> IF ~Gelee(o) /\ q \in Appris(ep, o)
                                           THEN Enregistrer(@[q], ep.valeurs[q]) ELSE @[q]],
        !.episodes = IF Gelee(o) THEN @ ELSE @ + 1,
        !.dernierRSS = IF suivi \/ (d.amorcage /\ ~Gelee(o)) THEN ep.rss ELSE @,
        !.pas = IF suivi THEN d.pas ELSE IF d.amorcage /\ ~Gelee(o) THEN 0 ELSE @]

AucunDiagnostic == [orientation |-> "amorcage"]

Init ==
  /\ voies = [v \in 1 .. Voies |-> Vide]
  /\ seqAcces = 0
  /\ diag = AucunDiagnostic
  /\ hist = <<>>

(* EvaluerEpisodeCinetique and ObserverEpisode of one measure.             *)
ObserverEpisode(m) ==
  /\ seqAcces < MaxEpisodes
  /\ LET ep == Episode[m]
         cle == ComposerCle(ep)
         v == VoieCible(cle)
         e == [(IF v \in Tenues(cle) THEN voies[v] ELSE Vide)
               EXCEPT !.occupee = TRUE, !.cle = cle, !.ordre = seqAcces + 1]
         d == Diagnostic(e, ep)
     IN /\ voies' = [voies EXCEPT ![v] = MettreAJour(e, d)]
        /\ diag' = d
        /\ hist' = Append(hist, [cle |-> cle, mesure |-> m, pas |-> d.pas, amorcage |-> d.amorcage,
                                 suspect |-> Suspect(d), alertes |-> d.alertes,
                                 orientation |-> d.orientation])
  /\ seqAcces' = seqAcces + 1

Next == \E m \in Mesures : ObserverEpisode(m)

Spec == Init /\ [][Next]_vars

-----------------------------------------------------------------------------
TypeOK ==
  /\ \A v \in 1 .. Voies :
       /\ voies[v].occupee \in BOOLEAN /\ voies[v].cle \in Nat /\ voies[v].ordre \in 0 .. seqAcces
       /\ voies[v].episodes \in 0 .. seqAcces /\ voies[v].pas \in 0 .. 65535
       /\ \A q \in Quotients : LET s == voies[v].quotients[q]
                               IN Len(s.anneau) = Min({s.nombre, TailleAnneau})
  /\ seqAcces \in 0 .. MaxEpisodes
  /\ diag.orientation \in Orientations

(* The calls of the profile that the last call used, oldest first.         *)
Serie == SelectSeq(hist, LAMBDA c : c.cle = hist[Len(hist)].cle)
RSSDe(c) == Episode[c.mesure].rss

(* A drift is declared exactly when the memory of the process rose at each *)
(* of the last SeuilPas episodes judged outside warm-up, whatever froze    *)
(* the reference in between: a fast leak is not stuck at its first step    *)
(* behind the freeze, and a hostile episode is not a step of a leak.       *)
(* Checked with one profile that is never evicted.                         *)
Montee(s, n) ==
  LET t == SelectSeq(s, LAMBDA c : c.orientation # "compromission")
  IN /\ Len(t) > n
     /\ \A i \in Len(t) - n + 1 .. Len(t) : ~t[i].amorcage /\ RSSDe(t[i]) > RSSDe(t[i - 1])
DriftExact ==
  hist # <<>> =>
    LET s == Serie
        c == s[Len(s)]
    IN c.orientation \notin {"compromission", "degradationES"} =>
         ((c.orientation = "derive")
            <=> (Montee(s, SeuilPas) /\ ~c.suspect /\ c.alertes \cap {ES, PE, AB} = {}))

(* While every quotient of a process stays within the relative threshold   *)
(* of its smallest value, and its traffic gives no sign, no alert is       *)
(* raised: neither the order of the episodes nor what was learned can turn *)
(* noise into an anomaly.                                                  *)
Bruit(s, q) ==
  LET vals == {Episode[s[i].mesure].valeurs[q] :
                 i \in {j \in 1 .. Len(s) : q \in Episode[s[j].mesure].valides}}
  IN \A x, y \in vals : (x - y) * 100 < SeuilHausse * Max({y, 1})
QuietUnderNoise ==
  (hist # <<>> /\ (\A q \in Quotients : Bruit(Serie, q)) /\ (\A i \in 1 .. Len(Serie) : ~Serie[i].suspect))
     => diag.orientation \in {"amorcage", "nominale", "abstention", "derive"}

(* The profiles that are kept are the last ones used: an executable loses  *)
(* its reference only when Voies others were observed since.               *)
Recents == {c.cle : c \in {hist[i] : i \in {j \in 1 .. Len(hist) :
              Cardinality({hist[k].cle : k \in j + 1 .. Len(hist)} \ {hist[j].cle}) < Voies}}}
HeldAreRecent == {voies[v].cle : v \in {w \in 1 .. Voies : voies[w].occupee}} = Recents

(* A profile judges by the history of its own process, and keeps it: what  *)
(* the orientation says is what the episodes show.                         *)
ProfileSound == TypeOK /\ DriftExact /\ QuietUnderNoise /\ HeldAreRecent

(* Whatever a model proposes for an episode that the table escalated, the  *)
(* verdict is possible: no storage failure without disk activity, no       *)
(* exfiltration without a channel, no drift without growing memory, and a  *)
(* convergent proof is never laundered; a process without a hostile sign   *)
(* is not accused by a rule.                                               *)
VetoPhysical ==
  DoitEscalade(diag) => \A v \in Verdicts :
    LET w == Veto(diag, v)
    IN /\ w = "materielle" => ActiviteDisque(diag.ep)
       /\ w = "compromission" => ~AucunCanal(diag.ep)
       /\ w = "derive" => HausseMemoire(diag)
       /\ PreuveConvergente(diag) => w = "compromission"
       /\ w = "compromission" => v = w \/ IndiceHostile(diag.ep)

(* A verdict that the rules impose is one that they accept: no rule        *)
(* overturns what another one decided.                                     *)
VetoStable ==
  DoitEscalade(diag) => \A v \in Verdicts : Veto(diag, Veto(diag, v)) = Veto(diag, v)
=============================================================================
