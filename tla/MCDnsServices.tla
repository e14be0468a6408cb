----------------------------- MODULE MCDnsServices ----------------------------
(* The DNS services: the laboratory (its server, the shipper that sends the   *)
(* journal to logpit, the campaign runner) and the live service.  A behaviour *)
(* is one of one of them, which "part" names; in part "response" nothing      *)
(* moves and the initial states enumerate questions and zones.                *)
EXTENDS DnsLab, DnsLive

VARIABLES part, probe

allVars == <<part, probe, vars, liveVars>>

-------------------------------------------------------------------------------
(* A question under the zone, one that is no question, and two senders whose  *)
(* hashes meet in one bucket.                                                 *)
Word(w, n) == [word |-> w, n |-> n]
Apex == <<Word("lab", 3), Word("fr", 2)>>
LongApex(n) == <<Word("lab", n), Word("lab", 63), Word("fr", 2)>>
Plain(pieces) == [i \in DOMAIN pieces |-> <<pieces[i]>>]
Ask(labels, type) ==
  [len |-> 512, qr |-> FALSE, opcode |-> 0, qd |-> 1, labels |-> labels, nx |-> FALSE, class |-> 1, type |-> type]
Zone(apex, txt, negative, aaaa) == [apex |-> apex, txt |-> txt, negative |-> negative, aaaa |-> aaaa]
MCQuestions == {Ask(Plain(<<Word("x", 5)>> \o Apex), 1), [Ask(Plain(Apex), 1) EXCEPT !.qr = TRUE]}
MCZones == {Zone(Apex, 20, "stego", "none")}
MCBucket == [x \in Sources |-> "b"]

(* Names up to the longest one, with a question that is cut or has no single  *)
(* question, in and out of the zone, with '.' octets inside labels before,    *)
(* at and inside the apex; zones whose records fit or not, by their text or   *)
(* by their apex.                                                             *)
Words(ns) == [i \in DOMAIN ns |-> Word("x", ns[i])]
Long == <<63, 63, 63>>
Under == {<<>>, <<1>>, <<5, 63>>, <<64>>, Long, Long \o <<30>>, Long \o <<53>>, Long \o <<54>>, Long \o <<55>>}
Names == {Plain(Words(u) \o Apex) : u \in Under} \cup {Plain(Words(u)) : u \in Under}
Dotted == {<<Words(<<1, 2>>)>> \o Plain(Apex), <<<<Word("x", 1)>> \o Apex>>, <<Apex>>,
           <<<<Word("x", 1), Apex[1]>>, <<Apex[2]>>>>, <<<<Word("x", 0)>> \o Apex>>}
AllQuestions ==
  {[Ask(l, t) EXCEPT !.nx = n] : l \in Names \cup Dotted, t \in {1, 2, 16, 28, 251, 255}, n \in BOOLEAN}
  \cup {[Ask(l, 1) EXCEPT !.len = k, !.opcode = o, !.qd = d, !.class = c, !.nx = TRUE] :
          l \in Names, k \in {11, 12, 40, 512}, o \in {0, 4}, d \in {0, 1}, c \in {1, 3}}
AllZones == {Zone(Apex, t, n, a) : t \in {20, 255}, n \in {"none", "soa", "stego"}, a \in {"none", "iid"}}
LongProbes ==
  {<<[Ask(Plain(Words(u) \o LongApex(n)), 1) EXCEPT !.nx = TRUE], Zone(LongApex(n), 20, v, "none")>> :
     u \in {<<>>, <<1>>, <<30>>, <<63>>}, n \in 40 .. 63, v \in {"soa", "stego"}}

(* What an earlier service left; Dual adds an address of the other family.    *)
MCLeft == {<<"a", 2>>}
Dual == INSTANCE DnsLive WITH
  Addresses <- {"a", "f"}, Foreign <- {"f"}, Limit <- 1, Left <- {}, MaxRequests <- 1, MaxLiveFaults <- 0

-------------------------------------------------------------------------------
Parts == {"server", "shipper", "campaign", "live", "dual"}
MCInit ==
  /\ \/ part \in Parts /\ probe = <<CHOOSE q \in MCQuestions : TRUE, CHOOSE z \in MCZones : TRUE>>
     \/ part = "response" /\ probe \in (AllQuestions \X AllZones) \cup LongProbes
  /\ Init
  /\ IF part = "dual" THEN Dual!LiveInit ELSE LiveInit

\* The server over the clock with its failures; the shipper while the clock
\* stands still and one source sends; campaigns against a rival of logpit.
LabStep ==
  \/ part = "server" /\ (Server \/ Stop) /\ faults' <= 1 /\ auth'.seen <= 2
  \/ part = "shipper" /\ (Server \/ Shipper) /\ auth'.clock = 0 /\ ~auth'.torn /\ auth'.line.by = Idle.by
     /\ (auth'.seen = 0 \/ auth'.line.n > 0)
  \/ part = "campaign" /\ (Emitter \/ Rival) /\ faults' + emit'.crashes <= 1
MCNext ==
  /\ UNCHANGED <<part, probe>>
  /\ \/ LabStep /\ UNCHANGED liveVars
     \/ part = "live" /\ LiveNext /\ UNCHANGED vars
     \/ part = "dual" /\ Dual!LiveNext /\ UNCHANGED vars

\* At rest, no fair action of a component is enabled.
MCSpec == MCInit /\ [][MCNext]_allVars /\ Fairness /\ LiveFairness

-------------------------------------------------------------------------------
(* DnsLab: a response fits 512 octets, gives data only for a whole question   *)
(* of the zone, and points to the apex inside the question (names with a '.'  *)
(* inside a label excepted).                                                  *)
ResponsesSound == part = "response" => ResponseSound(probe[1], probe[2])

(* A signal ends the shipper and closes the journal, a campaign gives its     *)
(* reservation back, and the Close of a started live service returns.         *)
ServicesSettle == LabSettles /\ (part = "live" => CloseReturns)
===============================================================================
