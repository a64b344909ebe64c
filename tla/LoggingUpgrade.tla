--------------------------- MODULE LoggingUpgrade ---------------------------
(***************************************************************************)
(* Role logging: `upgrade` replaces ElasticSearch by OpenSearch and moves  *)
(* the indices of every host from one docker volume to another; `deploy`   *)
(* only starts OpenSearch.  Tasks run host by host, in any order; a host   *)
(* whose task fails leaves the play.                                       *)
(***************************************************************************)
EXTENDS Naturals, FiniteSets

CONSTANTS Hosts,     \* hosts of the logging group
          Mounted,   \* logging_opensearch_datadir_volume
          MaxFaults  \* bound: failures

\* The volumes upgrade.yml moves between, and the one maine_all.yml names.
Volumes == {"elasticsearch", "opensearch", "logging_opensearch"}

ASSUME LoggingAssumption ==
    /\ IsFiniteSet(Hosts) /\ MaxFaults \in Nat
    /\ Mounted \in Volumes \ {"elasticsearch"}

VARIABLES es,     \* hosts with ElasticSearch's container
          os,     \* hosts with OpenSearch's container
          nodes,  \* what directory `nodes` of a host's volume holds
          act, task,
          play,   \* hosts of the play, kept when it ends
          left,   \* hosts that have still to run the task
          exit, faults

site == <<es, os, nodes>>
vars == <<site, act, task, play, left, exit, faults>>

TypeOK ==
    /\ es \subseteq Hosts /\ os \subseteq Hosts
    /\ nodes \in [Hosts -> [Volumes -> {"none", "history", "fresh"}]]
    /\ \A h \in os : nodes[h][Mounted] # "none"
    /\ act \in {"none", "upgrade", "deploy"}
    /\ task \in {"idle", "quiesce", "stop", "move", "restart"}
    /\ left \subseteq play /\ play \subseteq Hosts
    /\ exit \in {"none", "ok", "failed"} /\ faults \in 0..MaxFaults

Volume(h) == [v \in Volumes |-> IF v = "elasticsearch" /\ h \in es THEN "history" ELSE "none"]

\* ElasticSearch ran on the hosts OpenSearch is for (upgrade.yml:2-4), or never.
Init ==
    /\ es \in {{}, Hosts} /\ os = {} /\ nodes = [h \in Hosts |-> Volume(h)]
    /\ act = "none" /\ task = "idle" /\ play = {} /\ left = {}
    /\ exit = "none" /\ faults = 0

(***************************************************************************)
(* The play                                                                *)
(***************************************************************************)
Start(a, hs) ==
    /\ task = "idle" /\ hs # {} /\ act' = a /\ play' = hs /\ left' = hs
    /\ task' = IF a = "upgrade" THEN "quiesce" ELSE "restart"
    /\ faults' = faults + (IF hs = Hosts THEN 0 ELSE 1) /\ faults' <= MaxFaults
    /\ exit' = "none" /\ UNCHANGED site

Close(how) == task' = "idle" /\ left' = {} /\ exit' = how /\ UNCHANGED <<act, play>>
Begin(t) == task' = t /\ left' = play /\ UNCHANGED <<act, play, exit>>
Done(h) == left' = left \ {h} /\ UNCHANGED <<act, task, play, exit, faults>>

\* A failed host leaves the play; the last one to leave ends it.
Leave(h) ==
    IF play = {h} THEN Close("failed")
    ELSE play' = play \ {h} /\ left' = left \ {h} /\ UNCHANGED <<act, task, exit>>

\* Mutant: ElasticSearch of every host has to answer.
QuiesceEvery ==
    /\ task = "quiesce" /\ UNCHANGED <<site, faults>>
    /\ IF es # Hosts THEN Close("failed") ELSE Begin("stop")

\* The clusters behind the endpoint, one server on the port of a host.
Clusters == {es, os \ es} \ {{}}

\* A cluster elects a master among the hosts it was configured with, and has
\* its state back once two thirds of them have joined.
HasMaster(c) ==
    /\ 2 * Cardinality(c) > Cardinality(Hosts)
    /\ Cardinality(c) >= (2 * Cardinality(Hosts)) \div 3

Leaderless == Clusters = {} \/ \E c \in Clusters : ~HasMaster(c)

\* Shard allocation off and a flush, `run_once`: whichever server the load
\* balancer picks answers 200 only if its cluster has a master.
Quiesce ==
    /\ task = "quiesce" /\ UNCHANGED <<site, faults>>
    /\ \/ (\E c \in Clusters : HasMaster(c)) /\ Begin("stop")
       \/ Leaderless /\ Close("failed")

Stop(h) ==
    /\ task = "stop" /\ h \in left /\ Done(h)
    /\ es' = es \ {h} /\ UNCHANGED <<os, nodes>>

\* Mutant: a failed mv is ignored.
MoveIgnored(h) ==
    /\ task = "move" /\ h \in left /\ Done(h) /\ UNCHANGED <<es, os>>
    /\ nodes' = IF nodes[h]["opensearch"] = "none"
                THEN [nodes EXCEPT ![h]["opensearch"] = nodes[h]["elasticsearch"],
                                   ![h]["elasticsearch"] = "none"]
                ELSE nodes

\* Mutant: ElasticSearch's directory is copied over.
MoveCopies(h) ==
    /\ task = "move" /\ h \in left /\ Done(h) /\ UNCHANGED <<es, os>>
    /\ nodes' = [nodes EXCEPT ![h]["opensearch"] = nodes[h]["elasticsearch"]]

\* mv puts a directory into one that has none of this name, or fails.
Move(h) ==
    /\ task = "move" /\ h \in left /\ UNCHANGED <<es, os, faults>>
    /\ IF nodes[h]["elasticsearch"] = "none" \/ nodes[h]["opensearch"] = "none"
       THEN /\ nodes' = IF nodes[h]["elasticsearch"] = "none" THEN nodes
                        ELSE [nodes EXCEPT ![h]["opensearch"] = nodes[h]["elasticsearch"],
                                           ![h]["elasticsearch"] = "none"]
            /\ Done(h)
       ELSE Leave(h) /\ UNCHANGED nodes

\* Mutant: the container comes up without a data volume of its own.
RestartBare(h) ==
    /\ task = "restart" /\ h \in left /\ Done(h)
    /\ os' = os \cup {h} /\ UNCHANGED <<es, nodes>>

\* Configuration, comparison of the container, and the handler that creates
\* it; a server that finds no directory in its volume makes one.
Restart(h) ==
    /\ task = "restart" /\ h \in left /\ Done(h)
    /\ os' = os \cup {h} /\ UNCHANGED es
    /\ nodes' = IF nodes[h][Mounted] = "none"
                THEN [nodes EXCEPT ![h][Mounted] = "fresh"] ELSE nodes

\* All hosts of the play have run the task.
Advance ==
    /\ task \in {"stop", "move", "restart"} /\ left = {} /\ UNCHANGED <<site, faults>>
    /\ IF task = "restart" THEN Close(IF play = Hosts THEN "ok" ELSE "failed")
       ELSE Begin(IF task = "stop" THEN "move" ELSE "restart")

Fault == faults < MaxFaults /\ faults' = faults + 1 /\ UNCHANGED site

\* A task fails on one host, or the play is cut short.
DropHost(h) == task # "idle" /\ h \in left /\ Fault /\ Leave(h)
EndPlay == task # "idle" /\ Fault /\ Close("failed")

Play == Quiesce \/ Advance \/ \E h \in Hosts : Stop(h) \/ Move(h) \/ Restart(h)

Next ==
    \/ \E a \in {"upgrade", "deploy"}, hs \in SUBSET Hosts : Start(a, hs)
    \/ Play \/ EndPlay \/ \E h \in Hosts : DropHost(h)

Spec == Init /\ [][Next]_vars

\* A play goes on, and the operator repeats `upgrade`.
FairSpec == Spec /\ WF_vars(Play) /\ SF_vars(Start("upgrade", Hosts))

(***************************************************************************)
(* Properties                                                              *)
(***************************************************************************)
HasHistory(h, v) == nodes[h][v] = "history"

\* After an upgrade that succeeded on every host, OpenSearch serves the
\* indices each host had (upgrade.yml:82-95, "Migrate ElasticSearch data to
\* OpenSearch").
HistoryServed ==
    exit = "ok" /\ act = "upgrade" =>
        \A h \in Hosts, v \in Volumes : HasHistory(h, v) => v = Mounted /\ h \in os

\* An upgrade never starts OpenSearch on a host whose indices it has not moved
\* out of ElasticSearch's volume: the server would start empty.
MovedBeforeStarted ==
    [][act = "upgrade" => \A h \in os' \ os : ~HasHistory(h, "elasticsearch")]_vars

\* Repeating upgrade moves every index, unless a play that ended between the
\* stop of a server and the start of the last one left a cluster without a
\* master to answer the first task, or OpenSearch was deployed before.
Blocked == \E h \in Hosts : HasHistory(h, "elasticsearch") /\ nodes[h]["opensearch"] # "none"
UpgradeMigratesUnless ==
    (\E h \in Hosts : HasHistory(h, "elasticsearch")) ~>
        \/ \A h \in Hosts : ~HasHistory(h, "elasticsearch")
        \/ (Leaderless /\ task = "idle") \/ Blocked
=============================================================================
