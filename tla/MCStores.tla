------------------------------ MODULE MCStores ------------------------------
(***************************************************************************)
(* What the engine keeps.  On disk: the codebook that promotions rewrite   *)
(* (Promotion), the disks of the forge (FloppyStore) and the daily slices  *)
(* of the oracle (OracleSilo).  In tables of bounded size: the network     *)
(* counters of the processes (NetCollector) and the histories of the       *)
(* queried domains (TemporalTracker).  They share nothing, so a behaviour  *)
(* is one of one store, which "store" names; the others stay as they were  *)
(* at the start.  Two promoters take turns from the merge to the reload,   *)
(* as the callers of PromoteAndReload must.  The disks are explored three  *)
(* times: a forger with a reader and a damaged medium, a differential run  *)
(* that is cut by a power loss, and one that a forger disturbs.  The       *)
(* slices and the histories are explored twice: one silo over three days,  *)
(* and two silos that share a directory past its limit; one domain over    *)
(* every clock, and domains that compete for two slots.                    *)
(***************************************************************************)
EXTENDS Promotion, FloppyStore, NetCollector, TemporalTracker

VARIABLES
  store,
  silo, seal, flock, slices, archive, damaged, ingested, calls, failures, logged, torn  \* OracleSilo

siloVars == <<silo, seal, flock, slices, archive, damaged, ingested, calls, failures, logged, torn>>
disks == <<bookVars, floppyVars, siloVars>>
tables == <<collectorVars, trackerVars>>

(* Incident 1 is clean, 2 strikes a benign reference, 3 was not judged     *)
(* hostile and 4 strikes the known threat only.                            *)
Incidents == [c \in 1 .. 4 |->
                [verdict |-> IF c = 3 THEN 3 ELSE 2,
                 near |-> CASE c = 2 -> {"b1"} [] c = 4 -> {"t1"} [] OTHER -> {}]]
Ref(id, threat) == [id |-> id, threat |-> threat]
References == [genuine |-> <<Ref("b1", FALSE), Ref("b2", FALSE), Ref("t1", TRUE)>>,
               altered |-> <<Ref("b2", FALSE), Ref("t1", TRUE)>>,
               empty   |-> <<>>]
Call(h, sealed, pct) == [holdout |-> h, seal |-> sealed, pct |-> pct]
Validations == {Call("genuine", TRUE, 0), Call("altered", TRUE, 0), Call("nil", TRUE, 0),
                Call("empty", TRUE, 0), Call("genuine", TRUE, -1), Call("genuine", FALSE, 0)}

FirstBook == <<8, 9>>

(* Centroid c1 blocks the hostile view and c2 a benign one.                *)
Blocking == {<<"c1", "h">>, <<"c2", "b">>}

Ev(i, d, high) == [id |-> i, day |-> d, priority |-> high, flags |-> IF high THEN {"anomalies"} ELSE {}]
ThreeDays == {Ev("a", 1, FALSE), Ev("b", 2, FALSE), Ev("c", 3, FALSE), Ev("d", 1, TRUE)}
OneDay == {Ev("a", 1, FALSE), Ev("b", 1, FALSE), Ev("c", 1, TRUE), Ev("d", 2, FALSE)}
Chain == INSTANCE OracleSilo WITH
           file <- slices, Silos <- {"s1"}, Days <- 1 .. 3, Events <- ThreeDays, Cap <- 1,
           Legacy <- {}, Keyed <- TRUE, MaxIngest <- 5, MaxFailures <- 0, MaxDamages <- 1,
           MaxCalls <- 2
Loss == INSTANCE OracleSilo WITH
          file <- slices, Silos <- {"s1", "s2"}, Days <- 1 .. 3, Events <- OneDay, Cap <- 2,
          Legacy <- {1}, Keyed <- FALSE, MaxIngest <- 4, MaxFailures <- 1, MaxDamages <- 1,
          MaxCalls <- 1
Relink == INSTANCE OracleSilo WITH
            file <- slices, Silos <- {"s1"}, Days <- 1 .. 4, Events <- {Ev(i, i, FALSE) : i \in 1 .. 4},
            Cap <- 2, Legacy <- {}, Keyed <- TRUE, MaxIngest <- 6, MaxFailures <- 1, MaxDamages <- 0,
            MaxCalls <- 1

(* Three processes, two of them of one pid, for two entries.               *)
Sent == {[bytes |-> 2, connection |-> TRUE], [bytes |-> 0, connection |-> FALSE]}
Resolved == {[resolver |-> 2, elsewhere |-> 1, connection |-> FALSE, encrypted |-> FALSE],
             [resolver |-> 0, elsewhere |-> 2, connection |-> TRUE, encrypted |-> TRUE]}

(* Three domains on two slots; the bits of a and b are the same.           *)
HomeOf == [d \in {"d1", "d2", "d3"} |-> IF d = "d2" THEN 1 ELSE 0]
StrideOf == [d \in {"d1", "d2", "d3"} |-> IF d = "d3" THEN 3 ELSE 1]
BitsOf == [s \in {"a", "b"} |-> {1, 2}]

(* The jitter of a full window is a percentage.                            *)
ASSUME \A ts \in [1 .. Window -> Times] : Variation(ts) \in 0 .. 100

-----------------------------------------------------------------------------
FirstDisk == saves = 0 /\ made = {Image({"c1"}, 8, "k")}

(* Who meets: a forger and a reader on a damaged medium; two delta runs    *)
(* one after the other; a delta run and a forger, or two of either.        *)
Meet ==
  \/ store = "forge" /\ saves' <= 1 /\ run'["d1"] = run["d1"]
  \/ store = "delta" /\ damages' = 0 /\ run'["f1"] = run["f1"] /\ reader' = reader
  \/ store = "rival" /\ damages' = 0 /\ losses' = 0 /\ reader' = reader

(* Who asks: one domain over every clock; domains that compete for two     *)
(* slots, at fewer times.                                                  *)
Ask ==
  \/ store \in {"clock", "rivals"} /\ NotFollowed
  \/ store = "clock" /\ Queries({"d1"}, {NoSub}, Times)
  \/ store = "rivals" /\ queries < 4 /\ Queries(ParentDomains, Subs \cup {NoSub}, {1, 2, 4})

MCInit ==
  /\ BookInit /\ FloppyInit /\ CollectorInit /\ TrackerInit
  /\ \/ store \in {"book", "chain", "collector", "clock", "rivals"} /\ FirstDisk /\ Chain!Init
     \/ store \in {"forge", "delta", "rival"} /\ Chain!Init
     \/ store = "loss" /\ FirstDisk /\ Loss!Init

MCNext ==
  /\ UNCHANGED store
  /\ \/ store = "book"  /\ BookNext /\ Turns'  /\ UNCHANGED <<floppyVars, siloVars, tables>>
     \/ store \in {"forge", "delta", "rival"} /\ FloppyNext /\ Meet /\ UNCHANGED <<bookVars, siloVars, tables>>
     \/ store = "chain" /\ Chain!Next /\ UNCHANGED <<bookVars, floppyVars, tables>>
     \/ store = "loss"  /\ Loss!Next  /\ UNCHANGED <<bookVars, floppyVars, tables>>
     \/ store = "collector" /\ CollectorNext /\ UNCHANGED <<disks, trackerVars>>
     \/ Ask /\ UNCHANGED <<disks, collectorVars>>

MCSpec == MCInit /\ [][MCNext]_<<store, disks, tables>>

(* The silo alone, where the seal of a late day may fail half way.         *)
RelinkSpec ==
  /\ store = "relink" /\ BookInit /\ FloppyInit /\ FirstDisk /\ CollectorInit /\ TrackerInit /\ Relink!Init
  /\ [][Relink!Next /\ UNCHANGED <<store, bookVars, floppyVars, tables>>]_<<store, disks, tables>>

-----------------------------------------------------------------------------
(* OracleSilo: whenever nobody seals, each slice carries the seal of the   *)
(* one before it, although days are filled late and relinked, and a        *)
(* verification reports every slice altered when it began and no other;    *)
(* sampling keeps a slice within its limit and loses nothing that matters: *)
(* the flags of every sealed event are in the header of its day, high and  *)
(* critical events are kept while they fit, and the count is that of the   *)
(* distinct events while none was discarded; a damaged slice stays, one of *)
(* an older version is archived before it is replaced, and entries are     *)
(* lost by sampling only.                                                  *)
SiloTrue ==
  /\ [](store = "chain" => Chain!TypeOK /\ Chain!ChainWhole /\ Chain!VerifyTrue)
  /\ [](store = "loss" => Loss!TypeOK /\ Loss!AlertSurvives /\ Loss!PriorityKept /\ Loss!ObservedDistinct)
  /\ Loss!NothingDestroyed

(* relinkSuccessorsLocked: once every seal that was interrupted has been   *)
(* done again, each slice carries the seal of the one before it.           *)
RelinkWhole == Relink!ChainWhole
=============================================================================
