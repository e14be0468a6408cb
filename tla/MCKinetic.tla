------------------------------ MODULE MCKinetic ------------------------------
(* Instances of KineticProfile and KineticQueue, each in turn: one process   *)
(* that leaks, stalls, talks or is starved of processor, or executables that *)
(* compete for two ways; and around the queue a client, a direct caller, a   *)
(* goroutine that reconfigures, two that close the queue and two that close  *)
(* the arbiter.                                                              *)
EXTENDS KineticProfile, KineticQueue

VARIABLE part
allVars == <<part, vars, queueVars>>

MCPlanchers == [appels |-> 4, octets |-> 1000, exec |-> 100, commutations |-> 4, resolutions |-> 1,
                resolveur |-> 1000, entrants |-> 1000, psi |-> 200]

Base == [executable |-> 4, classeDebut |-> 1, classeFin |-> 1, hybride |-> TRUE,
         pression |-> 0, duree |-> 1500, exec |-> 1000, attente |-> 100,
         lus |-> 1000, ecrits |-> 1000, bloc |-> 1000, appels |-> 10,
         subies |-> 2, volontaires |-> 8, rss |-> 100, hwm |-> 100, fils |-> 1,
         sortants |-> 0, entrants |-> 0, absorbes |-> 0, versResolveur |-> 0, horsResolveur |-> 0,
         connexions |-> 0, connexionsHors |-> 0, resolutions |-> 0,
         ecoute |-> FALSE, fluxResolveur |-> FALSE, port |-> FALSE, codeDNS |-> FALSE]

At(m, r) == [m EXCEPT !.rss = r, !.hwm = r]
Surcharge == [Base EXCEPT !.pression = 500]
Bloque == [At(Base, 125) EXCEPT !.duree = 5000]
Resolution == [At(Base, 110) EXCEPT !.codeDNS = TRUE, !.sortants = 500]
Direct == [At(Base, 150) EXCEPT !.connexions = 1, !.connexionsHors = 1, !.sortants = 200]
Sommeil == [At(Base, 160) EXCEPT !.lus = 0, !.ecrits = 0, !.bloc = 0, !.appels = 0]
Lots == [At(Base, 140) EXCEPT !.appels = 5]

MCMesures == {Base, At(Base, 110), At(Base, 120), At(Base, 130), Surcharge, Bloque, Resolution,
              Direct, Sommeil, Lots}
MCRivals == {[Base EXCEPT !.executable = x] : x \in {4, 8, 12}}
            \cup {[Base EXCEPT !.executable = 4, !.classeFin = 2],
                  [Base EXCEPT !.executable = 5, !.classeDebut = 2, !.classeFin = 2]}
MCAll == MCMesures \cup MCRivals

\* Either one process over MaxLong episodes, of which at most MaxOdd are out of
\* the ordinary, or rivals over MaxEpisodes.
MaxLong == 5
MaxOdd == 2
MCPlain == {Base, At(Base, 110), At(Base, 120), At(Base, 130)}
Within(m) ==
  LET seen == {hist[i].mesure : i \in 1 .. Len(hist)} \cup {m}
      odd == {i \in 1 .. Len(hist) : hist[i].mesure \notin MCPlain}
  IN (/\ seen \subseteq MCMesures /\ Len(hist) < MaxLong
      /\ m \in MCPlain \/ Cardinality(odd) < MaxOdd) \/ seen \subseteq MCRivals

\* At most MaxActive of the callers around the client take part in one
\* behaviour; only the beginning of a call is bounded.
MaxActive == 3
Envelope ==
  Cardinality({g \in Directs \cup Configs \cup QClosers \cup AClosers : pc[g] # "idle"}) <= MaxActive

MCInit == part \in {"profile", "queue"} /\ Init /\ QueueInit

MCNext ==
  \/ /\ part = "profile"
     /\ \E m \in Mesures : Within(m) /\ ObserverEpisode(m)
     /\ UNCHANGED <<part, queueVars>>
  \/ /\ part = "queue"
     /\ QueueNext /\ Envelope'
     /\ UNCHANGED <<part, vars>>

MCSpec == MCInit /\ [][MCNext]_allVars /\ QueueFairness
=============================================================================
