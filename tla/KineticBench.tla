----------------------------- MODULE KineticBench -----------------------------
(* The benches that measure the engine on the host itself                     *)
(* (internal/cinetique/chaine_complete_linux.go, invariance_hybride_linux.go):*)
(* the complete chain, the confinement of the resolver and the invariance of  *)
(* the quotients between two kinds of processor.  A bench is a script: it     *)
(* opens sockets, locks and pins its thread, primes a profile, runs loads     *)
(* between two snapshots and reports what the profile said; every call may    *)
(* fail, the context may be cancelled, and the deferred releases run in       *)
(* reverse order.  Bytes are counted in units of 2048.                        *)
EXTENDS Integers, Sequences, FiniteSets, SequencesExt, TLC

CONSTANTS Benches,   \* which benches are run
          Hybrid,    \* the host has processors of two kinds
          Qwen,      \* a language model was asked for
          MinCalm,   \* calm episodes a profile is primed with (8)
          MaxPrime,  \* attempts at priming it (28, 24 and repetitions + 20)
          Drift,     \* steps of the organic drift (6)
          Datagrams, \* datagrams of the exfiltration (24)
          MaxFaults

BenchAssumption ==
  /\ Benches \subseteq {"chaine", "confinement", "invariance"}
  /\ Hybrid \in BOOLEAN /\ Qwen \in BOOLEAN
  /\ MinCalm \in Nat \ {0} /\ MaxPrime \in Nat /\ MaxPrime >= MinCalm
  /\ Drift \in Nat \ {0} /\ Datagrams \in Nat \ {0} /\ MaxFaults \in Nat

VARIABLE b
vars == b

-------------------------------------------------------------------------------
(* The scripts.                                                               *)

Do(op, arg) == [op |-> op, arg |-> arg]
Ctx == <<Do("ctx", "")>>
Episode(mode) == <<Do("episode", mode)>>
Observe(chain) == <<Do("observe", chain)>>
Measured(mode, chain) == Ctx \o Episode(mode) \o Observe(chain)
Pinned == <<Do("cores", ""), Do("lock", ""), Do("pin", "perf")>>
Times(n, script) == FlattenSeq([i \in 1 .. n |-> script])

\* capturerCinqChainesReelles, between its first line and its return: the
\* thread is pinned again after the migration, before its episode is observed.
CinqChaines ==
  Ctx \o <<Do("open", "serveur"), Do("open", "client"), Do("bind", "")>> \o Pinned
  \o Episode("nominale") \o <<Do("prime", "nominale")>>
  \o Measured("nominale", "0")
  \o (IF Hybrid THEN Ctx \o Episode("migration") \o <<Do("pin", "perf")>> \o Observe("1") ELSE <<>>)
  \o Measured("barriere", "2") \o Measured("exfiltration", "3")
  \o <<Do("open", "segments")>>
  \o Times(Drift - 1, Ctx \o <<Do("mmap", "")>> \o Episode("nominale") \o Observe(""))
  \o Ctx \o <<Do("mmap", "")>> \o Episode("nominale") \o Observe("4")

ExecuterBancChaineComplete ==
  <<Do("open", "resolveur"), Do("frame", "")>> \o CinqChaines \o <<Do("leave", ""), Do("open", "encodeur")>>
  \o (IF Qwen THEN Ctx \o <<Do("open", "qwen")>> ELSE <<>>)
  \o <<Do("arbitre", "")>>

\* Each chain primes a profile of its own; the listener of the third one is
\* closed as soon as its episode is over, whatever came of it.
ChaineHote(prime, mode, chain) == Ctx \o <<Do("table", ""), Do("prime", prime)>> \o Episode(mode) \o Observe(chain)
Forwarder ==
  Ctx \o <<Do("forwarder", ""), Do("table", ""), Do("prime", "forwarder")>>
  \o Episode("forwarder") \o <<Do("close", "forwarder")>> \o Observe("forwarder")
ExecuterBancConfinement ==
  Ctx \o [i \in 1 .. 5 |-> Do("open", <<"resolveur", "serveur", "client", "serveurWeb", "clientWeb">>[i])]
  \o <<Do("bind", "")>> \o Pinned \o <<Do("open", "cache")>>
  \o ChaineHote("calme", "tunnel", "tunnel") \o Forwarder
  \o ChaineHote("http3", "http3", "http3") \o ChaineHote("poste", "poste", "poste")

CoeurEfficient ==
  <<Do("pin", "eff")>> \o Episode("nominale") \o <<Do("snapshot", "")>>
  \o Times(MinCalm, Episode("nominale") \o <<Do("keep", "")>>) \o <<Do("snapshot", "")>>
ExecuterBancInvariance ==
  <<Do("cores", ""), Do("open", "capteur"), Do("open", "serveur"), Do("open", "client"), Do("lock", ""), Do("pin", "perf")>>
  \o Episode("nominale") \o <<Do("snapshot", ""), Do("prime", "nominale"), Do("snapshot", "")>>
  \o Episode("nominale") \o Observe("nominal") \o Episode("barriere") \o Observe("barriere")
  \o Episode("greffe") \o Observe("greffe") \o CoeurEfficient

Script == [chaine |-> ExecuterBancChaineComplete, confinement |-> ExecuterBancConfinement,
           invariance |-> ExecuterBancInvariance]

-------------------------------------------------------------------------------
(* What a load puts on the network: bytes to the encrypted resolver, bytes to *)
(* other hosts, datagrams that look like a tunnel.                            *)

Zero == [res |-> 0, hors |-> 0, dns |-> 0]
Load(mode) ==
  CASE mode \in {"tunnel", "forwarder"} -> [Zero EXCEPT !.res = 16]
    [] mode = "http3" -> [Zero EXCEPT !.res = 2, !.hors = 16]
    [] mode = "poste" -> [Zero EXCEPT !.res = 2, !.hors = 12]
    [] mode \in {"exfiltration", "greffe"} -> [Zero EXCEPT !.dns = Datagrams]
    [] OTHER -> Zero
OnCache(mode) == mode \in {"calme", "tunnel", "forwarder", "http3", "poste"}

Start(bench) ==
  [bench |-> bench, ip |-> 1, stage |-> "op", defers |-> <<>>, held |-> {}, mask |-> "initial",
   locked |-> FALSE, stuck |-> FALSE, segs |-> 0, fd |-> FALSE, file |-> FALSE, left |-> Zero, net |-> Zero,
   calm |-> 0, tries |-> 0, ep |-> [mode |-> "none"], kept |-> <<>>,
   dossiers |-> <<>>, report |-> <<>>, result |-> "running", faults |-> 0]
Init == \E bench \in Benches : b = Start(bench)

Running == b.result = "running"
Op == Script[b.bench][b.ip]
At(op) == Running /\ b.stage = "op" /\ b.ip <= Len(Script[b.bench]) /\ Op.op = op
Advance(s) == b' = [s EXCEPT !.ip = @ + 1, !.stage = "op"]

\* An error returns at once: what is deferred remains to be done.
Returns(s) == b' = [s EXCEPT !.result = "error", !.faults = @ + 1]
Fails(s) == b.faults < MaxFaults /\ Returns(s)

Check ==
  /\ At("ctx") \/ At("bind") \/ At("cores") \/ At("snapshot")
  /\ Advance(b) \/ Fails(b)

Open ==
  /\ At("open")
  /\ \/ Advance([b EXCEPT !.held = @ \cup {Op.arg}, !.defers = Append(@, Op.arg)])
     \/ Op.arg # "segments" /\ Fails(b)

\* LockOSThread precedes the read of the affinity; the deferred function gives
\* the mask back only where it was read, and unlocks in every case.
Lock ==
  /\ At("lock")
  /\ LET s == [b EXCEPT !.locked = TRUE]
     IN Advance([s EXCEPT !.defers = Append(@, "affinite")]) \/ Fails([s EXCEPT !.defers = Append(@, "verrou")])

epinglerFilSurCoeur == At("pin") /\ (Advance([b EXCEPT !.mask = Op.arg]) \/ Fails(b))

Mmap == At("mmap") /\ (Advance([b EXCEPT !.segs = @ + 1]) \/ Fails(b))

\* 24 addresses of 3 ports are tried: a listener without its client is closed
\* before the next try.
ouvrirPaireForwarder ==
  /\ At("forwarder")
  /\ \/ Advance([b EXCEPT !.held = @ \cup {"forwarder"}, !.defers = Append(@, "forwarder")])
     \/ Fails(b)

Close == At("close") /\ Advance([b EXCEPT !.held = @ \ {Op.arg}])

Frame == At("frame") /\ Advance([b EXCEPT !.defers = Append(@, "frame")])
NewTable == At("table") /\ Advance([b EXCEPT !.calm = 0, !.tries = 0])

-------------------------------------------------------------------------------
(* A load: the file (or the cache file of the bench), the first snapshot, the *)
(* writes and the hashes, the datagrams, the close, the last snapshot.        *)

Begins ==
  /\ At("episode") \/ (At("prime") /\ (b.tries < MinCalm \/ (b.calm < MinCalm /\ b.tries < MaxPrime)))
  /\ LET s == [b EXCEPT !.stage = "work", !.ep = [mode |-> Op.arg], !.left = Load(Op.arg)]
     IN IF OnCache(Op.arg) THEN b' = s ELSE b' = [s EXCEPT !.fd = TRUE, !.file = TRUE] \/ Fails(b)

\* Snapshot, writes, barrier, reads: each failure closes the file and leaves
\* it on the disk; the migration pins the thread half way, and the
\* exfiltration is over with its file before it sends.
Migrated(s) == IF s.ep.mode = "migration" THEN [s EXCEPT !.mask = "eff"] ELSE s
Work ==
  /\ Running /\ b.stage = "work"
  /\ LET s == Migrated(b)
     IN \/ b' = IF b.ep.mode = "exfiltration" THEN [s EXCEPT !.stage = "net", !.fd = FALSE, !.file = FALSE]
                ELSE [s EXCEPT !.stage = "net"]
        \/ Fails([s EXCEPT !.fd = FALSE]) \/ Fails([b EXCEPT !.fd = FALSE])

\* The datagrams of a tunnel are recorded one by one in the collector, the
\* rest is summed and recorded at the end; a deadline of two seconds ends an
\* exchange that is not answered.
Datagram ==
  /\ Running /\ b.stage = "net" /\ b.left.dns > 0
  /\ \/ b' = [b EXCEPT !.left.dns = @ - 1, !.net.dns = @ + 1]
     \/ Fails([b EXCEPT !.fd = FALSE])
Exchange ==
  /\ Running /\ b.stage = "net" /\ b.left # Zero /\ b.left.dns = 0
  /\ \/ b' = [b EXCEPT !.left = Zero, !.net.res = @ + b.left.res, !.net.hors = @ + b.left.hors]
     \/ Fails([b EXCEPT !.fd = FALSE])

\* The harvest empties the collector; a disturbed episode is one the machine
\* was loaded in or that ended on the other kind of processor.
Confined(net, listens) == net.res + net.hors >= 8 /\ 2 * net.res >= net.res + net.hors /\ net.hors = 0 /\ ~listens
Result(s, disturbed) ==
  LET e == [mode |-> s.ep.mode, net |-> s.net, core |-> s.mask, calm |-> ~disturbed, tries |-> s.tries,
            primed |-> s.calm, confined |-> Confined(s.net, "forwarder" \in s.held), segs |-> s.segs]
      r == [s EXCEPT !.net = Zero, !.ep = e]
  IN IF Op.op = "episode" THEN Advance(r)
     ELSE b' = [r EXCEPT !.stage = "op", !.tries = @ + 1, !.calm = IF disturbed THEN @ ELSE @ + 1,
                         !.kept = IF s.bench = "invariance" /\ s.tries < MinCalm THEN Append(@, e) ELSE @]
Measure ==
  /\ Running /\ b.stage = "net" /\ b.left = Zero
  /\ LET closed == [b EXCEPT !.fd = FALSE]
     IN \/ \E load \in BOOLEAN : Result([closed EXCEPT !.file = FALSE], load \/ (Hybrid /\ b.ep.mode = "migration"))
        \/ Fails(closed)                          \* the close
        \/ Fails([closed EXCEPT !.file = FALSE])  \* the snapshot, the evaluation

\* The loop ends with enough calm episodes or enough attempts.
Primed ==
  /\ At("prime") /\ ~(b.tries < MinCalm \/ (b.calm < MinCalm /\ b.tries < MaxPrime))
  /\ Advance(b)

Observed ==
  /\ At("observe")
  /\ LET e == b.ep
         step == [chain |-> Op.arg, ep |-> e]
     IN \/ Advance(IF Op.arg = "" THEN b
                   ELSE IF b.bench = "chaine" THEN [b EXCEPT !.dossiers = Append(@, step)]
                   ELSE [b EXCEPT !.report = Append(@, step)])
        \/ b.bench # "chaine" /\ Fails(b)   \* the text of the differential

Keep == At("keep") /\ Advance([b EXCEPT !.kept = Append(@, b.ep)])

\* One dossier of the complete chain: context, text, encoder, model.
Arbitre ==
  /\ At("arbitre")
  /\ \/ b.dossiers = <<>> /\ Advance(b)
     \/ /\ b.dossiers # <<>>
        /\ \/ b' = [b EXCEPT !.report = Append(@, Head(b.dossiers)), !.dossiers = Tail(@)]
           \/ Fails(b)

-------------------------------------------------------------------------------
(* The return: the deferred functions in reverse order.  The error of giving  *)
(* the affinity back is discarded, and the thread stays where it was pinned.  *)

Release(s, d) ==
  CASE d = "affinite" -> [s EXCEPT !.mask = "initial", !.locked = FALSE]
    [] d = "verrou" -> [s EXCEPT !.locked = FALSE]
    [] d = "segments" -> [s EXCEPT !.segs = 0, !.held = @ \ {d}]
    [] OTHER -> [s EXCEPT !.held = @ \ {d}]
Pop(s) == [Release(s, Last(s.defers)) EXCEPT !.defers = Front(@)]
Pops(s) ==
  {Pop(s)} \cup {[Pop(s) EXCEPT !.mask = s.mask, !.stuck = TRUE, !.faults = @ + 1] :
                   d \in {x \in {Last(s.defers)} : x = "affinite" /\ s.faults < MaxFaults}}

Leave ==
  /\ At("leave")
  /\ IF Last(b.defers) = "frame" THEN Advance([b EXCEPT !.defers = Front(@)]) ELSE b' \in Pops(b)

Ends ==
  /\ Running /\ b.stage = "op" /\ b.ip > Len(Script[b.bench])
  /\ b' = [b EXCEPT !.result = "done"]

Unwind == ~Running /\ b.defers # <<>> /\ b' \in Pops(b)

Next ==
  \/ Check \/ Open \/ Lock \/ epinglerFilSurCoeur \/ Mmap \/ ouvrirPaireForwarder \/ Close \/ Frame
  \/ NewTable \/ Begins \/ Work \/ Datagram \/ Exchange \/ Measure \/ Primed \/ Observed \/ Keep \/ Arbitre
  \/ Leave \/ Ends \/ Unwind

\* The bench is one goroutine whose calls return: its sockets have deadlines.
Fairness == WF_vars(Next)
Spec == Init /\ [][Next]_vars /\ Fairness

-------------------------------------------------------------------------------
(* What makes a bench honest.                                                 *)

Gone == ~Running /\ b.defers = <<>>

\* However a bench ends, no descriptor, socket or mapping is left, and the
\* thread is unlocked with the affinity it had, unless the kernel refused it.
LeavesNothing ==
  Gone => b.held = {} /\ ~b.fd /\ b.segs = 0 /\ ~b.locked /\ (b.mask = "initial" \/ b.stuck)

Chains == [chaine |-> <<"0">> \o (IF Hybrid THEN <<"1">> ELSE <<>>) \o <<"2", "3", "4">>,
           confinement |-> <<"tunnel", "forwarder", "http3", "poste">>,
           invariance |-> <<"nominal", "barriere", "greffe">>]
ModeOf == [c \in {"0", "4", "nominal"} |-> "nominale"] @@ [c \in {"1"} |-> "migration"]
          @@ [c \in {"2", "barriere"} |-> "barriere"] @@ [c \in {"3"} |-> "exfiltration"]
          @@ [c \in {"greffe"} |-> "greffe"] @@ [c \in {"tunnel", "forwarder", "http3", "poste"} |-> c]

\* A report names its chains in order and gives each the diagnosis of the load
\* it is named for, on the processor and with the network of that load alone,
\* against a profile that saw enough calm episodes or every attempt allowed;
\* a bench that succeeded reports them all, and only the confined tunnel is
\* said to be confined.
ReportTrue ==
  /\ IsPrefix([i \in DOMAIN b.report |-> b.report[i].chain], Chains[b.bench])
  /\ b.result = "done" => Len(b.report) = Len(Chains[b.bench])
  /\ \A i \in DOMAIN b.report :
       LET c == b.report[i].chain e == b.report[i].ep
       IN /\ e.mode = ModeOf[c] /\ e.net = Load(e.mode)
          /\ e.core = IF c = "1" THEN "eff" ELSE "perf"
          /\ e.primed >= MinCalm \/ e.tries = MaxPrime
          /\ e.confined <=> c = "tunnel"
          /\ c = "4" => e.segs = Drift

\* The invariance compares as many episodes of each kind of processor, each
\* run on its own kind.
KeptPure ==
  b.bench = "invariance" /\ b.result = "done" =>
    /\ Len(b.kept) = 2 * MinCalm
    /\ \A i \in DOMAIN b.kept : b.kept[i].core = IF i <= MinCalm THEN "perf" ELSE "eff"

BenchHonest == LeavesNothing /\ ReportTrue /\ KeptPure

\* Every bench ends and releases what it holds.
BenchEnds == <>Gone
===============================================================================
