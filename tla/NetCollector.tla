---------------------------- MODULE NetCollector ----------------------------
(***************************************************************************)
(* CollecteurReseauParProcessus, of attribution_socket_linux.go: the       *)
(* network counters of every process, in a table of fixed size from which  *)
(* the least recently used is recycled, until an episode harvests them.    *)
(* Every operation runs under the mutex, so it is one step.                *)
(***************************************************************************)
EXTENDS Integers, FiniteSets, FiniteSetsExt

CONSTANTS
  Keys,      \* processes: a pid with a start time
  capaciteTableProcessus, \* the entries of the table
  Datagrams, \* observations: bytes, and whether a connection is new
  Flows,     \* observations of resolvers: bytes to one and elsewhere, and so on
  Top,       \* the largest value of a counter, where it saturates
  MaxOps     \* bound: the operations

(* The table has entries; bytes are counted in unsigned integers.          *)
ASSUME CollectorAssumption ==
  /\ capaciteTableProcessus \in Nat \ {0} /\ Top \in Nat
  /\ Datagrams \subseteq [bytes : Nat, connection : BOOLEAN]
  /\ Flows \subseteq [resolver : Nat, elsewhere : Nat, connection : BOOLEAN, encrypted : BOOLEAN]

Entrees == 1 .. capaciteTableProcessus

Zero == [out |-> 0, resolver |-> 0, elsewhere |-> 0, connections |-> 0, encrypted |-> FALSE]
Unused == [occupied |-> FALSE, key |-> "none", seq |-> 0, counters |-> Zero]

VARIABLES
  table,     \* entrees
  seq,       \* seqAcces
  ops,
  harvest,   \* what the last RecolterEtPurger returned, and for whom
  owed,      \* history: what was recorded for a process since it was last harvested or recycled
  last       \* history: the step at which every process was last recorded

collectorVars == <<table, seq, ops, harvest, owed, last>>

CollectorInit ==
  /\ table = [i \in Entrees |-> Unused]
  /\ seq = 0 /\ ops = 0
  /\ harvest = [at |-> 0, key |-> "none", counters |-> Zero]
  /\ owed = [k \in Keys |-> Zero]
  /\ last = [k \in Keys |-> 0]

additionnerSature(a, b) == Min({a + b, Top})

Own(k) == {i \in Entrees : table[i].occupied /\ table[i].key = k}

(* Mutant of EarliestUsed: the one most recently used.                     *)
LatestUsed == CHOOSE i \in Entrees : \A j \in Entrees : table[i].seq >= table[j].seq

EarliestUsed == CHOOSE i \in Entrees : \A j \in Entrees : table[i].seq <= table[j].seq

(* acquerirEmplacementVerrouille: the entry of the process, else the last  *)
(* free one, else the one used the longest ago.                            *)
Emplacement(k) ==
  LET unused == {i \in Entrees : ~table[i].occupied}
  IN IF Own(k) # {} THEN Min(Own(k)) ELSE IF unused # {} THEN Max(unused) ELSE EarliestUsed

(* The counters c with those of an observation added.                      *)
Plus(c, add) ==
  [out |-> additionnerSature(c.out, add.out), resolver |-> additionnerSature(c.resolver, add.resolver),
   elsewhere |-> additionnerSature(c.elsewhere, add.elsewhere),
   connections |-> additionnerSature(c.connections, add.connections),
   encrypted |-> c.encrypted \/ add.encrypted]

Record(k, add) ==
  /\ ops < MaxOps /\ ops' = ops + 1
  /\ seq' = seq + 1
  /\ LET i == Emplacement(k)
         mine == table[i].occupied /\ table[i].key = k
         before == IF mine THEN table[i].counters ELSE Zero
     IN /\ table' = [table EXCEPT ![i] = [occupied |-> TRUE, key |-> k, seq |-> seq', counters |-> Plus(before, add)]]
        /\ owed' = [x \in Keys |-> IF x = k THEN Plus(owed[k], add)
                                   ELSE IF table[i].occupied /\ table[i].key = x THEN Zero ELSE owed[x]]
  /\ last' = [last EXCEPT ![k] = seq']
  /\ UNCHANGED harvest

EnregistrerObservationReseau(k, d) ==
  Record(k, [Zero EXCEPT !.out = d.bytes, !.connections = IF d.connection THEN 1 ELSE 0])

(* The bytes to encrypted resolvers and the others, which are also those   *)
(* that go out.                                                            *)
EnregistrerObservationResolveur(k, d) ==
  Record(k, [out |-> additionnerSature(d.resolver, d.elsewhere), resolver |-> d.resolver,
             elsewhere |-> d.elsewhere, connections |-> IF d.connection THEN 1 ELSE 0,
             encrypted |-> d.encrypted \/ d.resolver > 0])

(* The harvest; a process without an entry gets nothing.                   *)
RecolterEtPurger(k) ==
  /\ ops < MaxOps /\ ops' = ops + 1
  /\ harvest' = [at |-> ops', key |-> k, counters |-> IF Own(k) = {} THEN Zero ELSE table[Min(Own(k))].counters]
  /\ table' = [i \in Entrees |-> IF i \in Own(k) THEN [table[i] EXCEPT !.occupied = FALSE, !.counters = Zero] ELSE table[i]]
  /\ owed' = [owed EXCEPT ![k] = Zero]
  /\ UNCHANGED <<seq, last>>

CollectorNext ==
  \E k \in Keys :
    \/ \E d \in Datagrams : EnregistrerObservationReseau(k, d)
    \/ \E d \in Flows : EnregistrerObservationResolveur(k, d)
    \/ RecolterEtPurger(k)

CollectorSpec == CollectorInit /\ [][CollectorNext]_collectorVars

-----------------------------------------------------------------------------
(* Counters saturate and do not wrap.                                      *)
Saturates ==
  \A i \in Entrees : LET c == table[i].counters IN
    {c.out, c.resolver, c.elsewhere, c.connections} \subseteq 0 .. Top

(* RecolterEtPurger returns all that was recorded of the process since its *)
(* last harvest or its recycling, and nothing of another process or of an  *)
(* earlier one of the same pid.                                            *)
HarvestExact == [][harvest' # harvest => harvest'.counters = owed[harvest'.key]]_collectorVars

(* A process leaves the table only by its harvest or, when the table is    *)
(* full, because every other entry was used after it.                      *)
ActiveKept ==
  [][\A k \in Keys : Own(k) # {} /\ Own(k)' = {} /\ harvest' = harvest =>
       \A x \in Keys : Own(x) # {} => last[k] <= last[x]]_collectorVars

(* A harvest is all that was recorded of the process since its last        *)
(* harvest or its recycling, with counters that saturate, and nothing of   *)
(* another process; a full table gives up the entry used longest ago.      *)
CollectorExact == []Saturates /\ HarvestExact /\ ActiveKept
=============================================================================
