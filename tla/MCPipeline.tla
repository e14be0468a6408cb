------------------------------ MODULE MCPipeline ------------------------------
(* The path of a packet: the pipeline that decides on it and has the suspect  *)
(* ones arbitrated (Pipeline) and the synchroniser that compiles the         *)
(* reputation tables the pipeline reads (Reputation).  They meet in one       *)
(* atomic pointer, so a behaviour is one of one of them, which "part" names.  *)
EXTENDS Pipeline, Reputation

VARIABLE part
allVars == <<part, vars, reputationVars>>

-------------------------------------------------------------------------------
(* Pipeline: a dense packet, one under a label that the second table both     *)
(* allows by its parent and blocks by its name, and a root query.             *)
dense == [parse |-> "query", reserved |-> FALSE, dense |-> TRUE, shape |-> FALSE, high |-> TRUE]
label == [parse |-> "query", reserved |-> TRUE, dense |-> TRUE, shape |-> FALSE, high |-> FALSE]
root == [parse |-> "empty", reserved |-> FALSE, dense |-> FALSE, shape |-> FALSE, high |-> FALSE]
MCPackets == {dense, label, root}
Before == [blocks |-> {}, allows |-> {}]
After == [blocks |-> {label}, allows |-> {label}]
MCTables == {Before, After}

(* Reputation: a shared hosting root with a blocked tenant, a vendor with a   *)
(* blocked host, and names under each.                                        *)
host == <<"pages">>
tenant == <<"bad", "pages">>
vendor == <<"corp">>
beacon == <<"c2", "corp">>
MCNames == {host, tenant, <<"x">> \o tenant, vendor, beacon, <<"x">> \o beacon, <<"www", "corp">>}
MCDefault == {[domain |-> vendor, class |-> 1, kind |-> 2]}
MCClassOf == [allow |-> 4, deny |-> 3]
MCKindOf == [allow |-> 2, deny |-> 2]
MCLists == [allow |-> {{host}, {host, beacon}}, deny |-> {{tenant}, {beacon}, {host}}]
MCShared == {host}
MCSources == <<"allow", "deny">>

-------------------------------------------------------------------------------
MCInit ==
  /\ part \in {"pipeline", "reputation"}
  /\ IF part = "pipeline" THEN Init ELSE Init /\ rep = Before
  /\ IF part = "reputation" THEN ReputationInit
     ELSE ReputationInit /\ published = [allow |-> {host}, deny |-> {host}]
MCNext ==
  /\ UNCHANGED part
  /\ \/ part = "pipeline" /\ Next /\ UNCHANGED reputationVars
     \/ part = "reputation" /\ ReputationNext /\ UNCHANGED vars

\* At rest the pipeline has no fair action enabled.
MCSpec ==
  /\ MCInit /\ [][MCNext]_allVars /\ Fairness
  /\ \A i \in Syncers : /\ SF_reputationVars(part = "reputation" /\ SyncOnce(i))
                        /\ WF_reputationVars(part = "reputation" /\ Sync(i))

-------------------------------------------------------------------------------
(* Close ends and leaves no accepted incident without an outcome; once the    *)
(* sources are healthy and stable, the table becomes what they publish.       *)
PipelineSettles == CloseSettles /\ Refreshes
===============================================================================
