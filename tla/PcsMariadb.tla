----------------------------- MODULE PcsMariadb -----------------------------
(***************************************************************************)
(* Role pcs-mariadb: a Galera cluster run by pacemaker.  A play is a list  *)
(* of tasks; a `run_once` task that fails ends the play, a task of all     *)
(* hosts only drops the host it failed on.  What an interrupted play left  *)
(* in pacemaker, in the docker volumes and in the database is what the     *)
(* next play starts from.                                                  *)
(***************************************************************************)
EXTENDS Naturals, FiniteSets

CONSTANTS Hosts, \* groups['mariadb']
          EnableClustercheck,  \* enable_mariadb_clustercheck
          MaxRev,    \* bound: edits of the configuration or the image
          MaxFaults, \* bound: dropped hosts, ended plays, reinstalled hosts
          None

ASSUME PcsMariadbAssumption ==
    /\ IsFiniteSet(Hosts) /\ Hosts # {}
    /\ EnableClustercheck \in BOOLEAN
    /\ MaxRev \in Nat /\ MaxFaults \in Nat
    /\ None \notin [rev : Nat, on : BOOLEAN] \cup [rev : Nat, up : BOOLEAN]

VARIABLES bundle, primitive, check, \* pacemaker: mariadb-bundle, the resource
                                    \* in it, mariadb-clustercheck-bundle
          volumes, data,            \* docker volume and database of a host
          schema, registered,       \* last mysql upgrade; register.yml is done
          wanted,                   \* revision of the site's configuration
          act, task, play, left,    \* the play: hosts in it, hosts yet to run
          existed, had,             \* registered variables of the play
          exit,                     \* of the last play, until the site changes
          faults

pacemaker == <<bundle, primitive, check>>
storage == <<volumes, data>>
database == <<schema, registered>>
ansible == <<act, task, play, left, existed, had, exit>>
vars == <<pacemaker, storage, database, wanted, ansible, faults>>

Rev == 0..MaxRev
Bundle == [rev : Rev, on : BOOLEAN]
Tasks == {"idle", "delete", "query", "bundle", "primitive", "delete check",
          "query check", "create check", "volume", "divide", "bootstrap", "enable",
          "enable check", "wait", "register", "upgrade", "finish",
          "disable", "disable check"}

TypeOK ==
    /\ bundle \in Bundle \cup {None} /\ check \in Bundle \cup {None}
    /\ primitive \in {"absent", "off", "on"}
    /\ volumes \subseteq Hosts /\ data \in [Hosts -> {"none", "boot", "live"}]
    /\ schema \in Rev /\ registered \in BOOLEAN /\ wanted \in Rev
    /\ act \in {"none", "deploy", "reconfigure", "upgrade", "stop"}
    /\ task \in Tasks /\ play \subseteq Hosts /\ left \subseteq play
    /\ existed \in BOOLEAN /\ had \subseteq Hosts
    /\ exit \in {"none", "ok", "failed"} /\ faults \in 0..MaxFaults

Init ==
    /\ bundle = None /\ check = None /\ primitive = "absent"
    /\ volumes = {} /\ data = [h \in Hosts |-> "none"]
    /\ schema = 0 /\ registered = FALSE /\ wanted = 0
    /\ act = "none" /\ task = "idle" /\ play = {} /\ left = {}
    /\ existed = FALSE /\ had = {} /\ exit = "none" /\ faults = 0

\* pacemaker runs a database server on the hosts.
Running == bundle # None /\ bundle.on /\ primitive = "on"
HasData == \E h \in Hosts : data[h] # "none"
Rebuilding == act \in {"reconfigure", "upgrade"}

(***************************************************************************)
(* The play                                                                *)
(***************************************************************************)
Close(how) ==
    /\ task' = "idle" /\ exit' = how
    /\ play' = {} /\ left' = {} /\ had' = {} /\ existed' = FALSE

\* A failed command of a `run_once` task.
Fail == Close("failed") /\ UNCHANGED <<pacemaker, database, act>>

Then(t) == task' = t /\ UNCHANGED <<act, play, left, had, exit>>

Start(a, hs) ==
    /\ task = "idle" /\ hs # {} /\ hs \subseteq Hosts
    /\ faults' = faults + IF hs = Hosts THEN 0 ELSE 1
    /\ faults' <= MaxFaults
    /\ act' = a /\ play' = hs /\ left' = {} /\ exit' = "none"
    /\ task' = IF a = "stop" THEN "disable" ELSE "delete"
    /\ UNCHANGED <<pacemaker, storage, database, wanted, existed, had>>

\* Mutant: force_update does not reach the role.
NeverDelete ==
    /\ task = "delete"
    /\ Then("query")
    /\ UNCHANGED <<pacemaker, storage, database, wanted, existed, faults>>

\* Mutant: the bundle is deleted by every play.
AlwaysDelete ==
    /\ task = "delete"
    /\ bundle' = None /\ primitive' = "absent"
    /\ Then("query")
    /\ UNCHANGED <<check, storage, database, wanted, existed, faults>>

Delete ==
    /\ task = "delete"
    /\ IF Rebuilding THEN bundle' = None /\ primitive' = "absent"
                ELSE UNCHANGED <<bundle, primitive>>
    /\ Then("query")
    /\ UNCHANGED <<check, storage, database, wanted, existed, faults>>

Query ==
    /\ task = "query"
    /\ existed' = (bundle # None) /\ Then("bundle")
    /\ UNCHANGED <<pacemaker, storage, database, wanted, faults>>

CreateBundle ==
    /\ task = "bundle"
    /\ bundle' = IF existed THEN bundle ELSE [rev |-> wanted, on |-> FALSE]
    /\ Then("primitive")
    /\ UNCHANGED <<primitive, check, storage, database, wanted, existed, faults>>

\* The test is still that of the bundle: a bundle alone never gets one.
CreatePrimitive ==
    /\ task = "primitive"
    /\ primitive' = IF existed THEN primitive ELSE "off"
    /\ Then("delete check")
    /\ UNCHANGED <<bundle, check, storage, database, wanted, existed, faults>>

\* Mutant: clustercheck is not rebuilt.
KeepCheck ==
    /\ task = "delete check"
    /\ Then("query check")
    /\ UNCHANGED <<pacemaker, storage, database, wanted, existed, faults>>

DeleteCheck ==
    /\ task = "delete check"
    /\ check' = IF Rebuilding THEN None ELSE check
    /\ Then("query check")
    /\ UNCHANGED <<bundle, primitive, storage, database, wanted, existed, faults>>

QueryCheck ==
    /\ task = "query check"
    /\ existed' = (check # None) /\ Then("create check")
    /\ UNCHANGED <<pacemaker, storage, database, wanted, faults>>

CreateCheck ==
    /\ task = "create check"
    /\ check' = IF existed \/ ~EnableClustercheck THEN check
                ELSE [rev |-> wanted, on |-> FALSE]
    /\ task' = "volume" /\ left' = play
    /\ UNCHANGED <<bundle, primitive, storage, database, wanted, act, play, existed, had, exit, faults>>

CreateVolume(h) ==
    /\ task = "volume" /\ h \in left
    /\ left' = left \ {h} /\ volumes' = volumes \cup {h}
    /\ had' = IF h \in volumes THEN had \cup {h} ELSE had
    /\ UNCHANGED <<pacemaker, data, database, wanted, act, task, play, existed, exit, faults>>

\* Mutant: every host decides by its own volume.
DivideByHost ==
    /\ task = "volume" /\ left = {}
    /\ existed' = FALSE /\ task' = "bootstrap" /\ left' = play \ had
    /\ UNCHANGED <<pacemaker, storage, database, wanted, act, play, had, exit, faults>>

\* Mutant: bootstrap is started on the hosts of the inventory.
DivideInventory ==
    /\ task = "volume" /\ left = {}
    /\ existed' = (had # {}) /\ task' = "bootstrap"
    /\ left' = IF had = {} THEN Hosts ELSE {}
    /\ UNCHANGED <<pacemaker, storage, database, wanted, act, play, had, exit, faults>>

\* mariadb_cluster_exists: some host of the play had its volume before.
Divide ==
    /\ task = "volume" /\ left = {}
    /\ existed' = (had # {}) /\ task' = "bootstrap"
    /\ left' = IF had = {} THEN play ELSE {}
    /\ UNCHANGED <<pacemaker, storage, database, wanted, act, play, had, exit, faults>>

\* An initialised data directory is kept.
Bootstrap(h) ==
    /\ task = "bootstrap" /\ h \in left
    /\ left' = left \ {h}
    /\ data' = IF data[h] = "none" THEN [data EXCEPT ![h] = "boot"] ELSE data
    /\ UNCHANGED <<pacemaker, volumes, database, wanted, act, task, play, existed, had, exit, faults>>

EnableBundle ==
    /\ task = "bootstrap" /\ left = {}
    /\ IF bundle = None THEN Fail
       ELSE /\ bundle' = [bundle EXCEPT !.on = TRUE]
            /\ primitive' = IF primitive = "absent" THEN "absent" ELSE "on"
            /\ Then("enable check") /\ UNCHANGED <<check, database, existed>>
    /\ UNCHANGED <<storage, wanted, faults>>

EnableCheck ==
    /\ task = "enable check"
    /\ IF check = None THEN Fail
       ELSE /\ check' = [check EXCEPT !.on = TRUE]
            /\ Then("wait") /\ UNCHANGED <<bundle, primitive, database, existed>>
    /\ UNCHANGED <<storage, wanted, faults>>

\* All hosts see the port open, or none does.
Wait ==
    /\ task = "wait"
    /\ IF Running THEN Then("register") /\ UNCHANGED <<pacemaker, database, existed>>
       ELSE Fail
    /\ UNCHANGED <<storage, wanted, faults>>

\* Mutant: the play does not look whether a database answers.
RegisterUnseen ==
    /\ task = "register"
    /\ registered' = TRUE /\ Then(IF act = "upgrade" THEN "upgrade" ELSE "finish")
    /\ UNCHANGED <<pacemaker, schema, existed, storage, wanted, faults>>

\* A server without a bootstrapped database knows no root password.
Register ==
    /\ task = "register"
    /\ IF Running /\ HasData
       THEN registered' = TRUE /\ Then(IF act = "upgrade" THEN "upgrade" ELSE "finish")
            /\ UNCHANGED <<pacemaker, schema, existed>>
       ELSE Fail
    /\ UNCHANGED <<storage, wanted, faults>>

UpgradeDatabase ==
    /\ task = "upgrade"
    /\ schema' = wanted /\ Then("finish")
    /\ UNCHANGED <<pacemaker, storage, registered, wanted, existed, faults>>

Finish ==
    /\ task = "finish"
    /\ Close(IF play = Hosts THEN "ok" ELSE "failed")
    /\ UNCHANGED <<pacemaker, storage, database, wanted, act, faults>>

DisableBundle ==
    /\ task = "disable"
    /\ IF bundle = None THEN Fail
       ELSE /\ bundle' = [bundle EXCEPT !.on = FALSE]
            /\ primitive' = IF primitive = "absent" THEN "absent" ELSE "off"
            /\ Then("disable check") /\ UNCHANGED <<check, database, existed>>
    /\ UNCHANGED <<storage, wanted, faults>>

DisableCheck ==
    /\ task = "disable check"
    /\ IF check = None THEN Fail
       ELSE /\ check' = [check EXCEPT !.on = FALSE]
            /\ Then("finish") /\ UNCHANGED <<bundle, primitive, database, existed>>
    /\ UNCHANGED <<storage, wanted, faults>>

(***************************************************************************)
(* Faults, pacemaker and the operator                                      *)
(***************************************************************************)
Fault == faults < MaxFaults /\ faults' = faults + 1

\* A task fails on one host, which leaves the play.
DropHost(h) ==
    /\ task \in {"volume", "bootstrap"} /\ h \in left /\ Fault
    /\ IF play = {h} THEN Close("failed")
       ELSE play' = play \ {h} /\ left' = left \ {h}
            /\ UNCHANGED <<task, had, existed, exit>>
    /\ UNCHANGED <<pacemaker, storage, database, wanted, act>>

\* A `run_once` task fails, with or without effect, or the play is cut short.
EndPlay ==
    /\ task # "idle" /\ Fault
    /\ Close("failed")
    /\ UNCHANGED <<pacemaker, storage, database, wanted, act>>

\* The servers find each other; those behind are copied from a donor, and
\* clients write.
Sync ==
    /\ Running /\ HasData
    /\ volumes' = Hosts /\ data' = [h \in Hosts |-> "live"]
    /\ UNCHANGED <<pacemaker, database, wanted, ansible, faults>>

Edit ==
    /\ task = "idle" /\ wanted < MaxRev /\ wanted' = wanted + 1
    /\ exit' = "none"
    /\ UNCHANGED <<pacemaker, storage, database, act, task, play, left, existed, had, faults>>

Reinstall(h) ==
    /\ task = "idle" /\ Fault
    /\ volumes' = volumes \ {h} /\ data' = [data EXCEPT ![h] = "none"]
    /\ exit' = "none"
    /\ UNCHANGED <<pacemaker, database, wanted, act, task, play, left, existed, had>>

Play ==
    \/ Delete \/ Query \/ CreateBundle \/ CreatePrimitive
    \/ DeleteCheck \/ QueryCheck \/ CreateCheck
    \/ Divide \/ EnableBundle \/ EnableCheck \/ Wait \/ Register
    \/ UpgradeDatabase \/ Finish \/ DisableBundle \/ DisableCheck
    \/ \E h \in Hosts : CreateVolume(h) \/ Bootstrap(h)

Actions == {"deploy", "reconfigure", "upgrade", "stop"}

Next ==
    \/ \E a \in Actions, hs \in SUBSET Hosts : Start(a, hs)
    \/ Play \/ EndPlay \/ Sync \/ Edit
    \/ \E h \in Hosts : DropHost(h) \/ Reinstall(h)

Spec == Init /\ [][Next]_vars

\* A play goes on, and the operator repeats `reconfigure`.
FairSpec ==
    /\ Spec
    /\ SF_vars(Start("reconfigure", Hosts))
    /\ WF_vars(Play) /\ WF_vars(Sync)

(***************************************************************************)
(* Properties                                                              *)
(***************************************************************************)
\* A play that reports success leaves a database that serves, whatever plays
\* before it were cut short (pcs-mariadb/tasks/deploy.yml:2-10).
SuccessMeansServing ==
    exit = "ok" /\ act # "stop" =>
        /\ Running /\ HasData /\ registered
        /\ check # None /\ check.on

\* A successful reconfigure or upgrade leaves nothing at an old revision, and
\* an upgrade has brought the schema along (reconfigure.yml:2-6, upgrade.yml).
RebuiltMeansCurrent ==
    exit = "ok" /\ Rebuilding =>
        /\ \A b \in {bundle, check} : b # None /\ b.rev = wanted
        /\ act = "upgrade" => schema = wanted

\* While no host has left the play, it never bootstraps a host beside another
\* that has clients' data (bootstrap.yml:2-41).
Beside == /\ \E h \in Hosts : data[h] = "live"
          /\ \E h \in Hosts : data'[h] = "boot" /\ data[h] # "boot"
WholePlayBootstrapsAlone == [][play = Hosts => ~Beside]_vars

\* A host is never bootstrapped beside another host that has clients' data
\* (bootstrap.yml:15-17).
NeverBootstrapsBeside == [][~Beside]_vars

\* Repeating reconfigure ends with success, whatever was cut short, unless the
\* volumes were made and the bootstrap was not: then no play ever does it.
Stranded == volumes # {} /\ ~HasData
ReconfigureHeals == []<>(exit = "ok" /\ act = "reconfigure") \/ <>[]Stranded

\* The role keeps the promise of Rebuildable, whatever is cut short: the
\* bundle changes in place only by being switched on and off, and only
\* force_update takes it away (config-pacemaker-resource.yml:10-11).
Abstract == INSTANCE Rebuildable WITH
    service <- IF bundle = None THEN None ELSE [rev |-> bundle.rev, up |-> Running],
    doing <- IF task = "idle" /\ exit = "none" THEN "none" ELSE act,
    report <- exit
RefinesRebuildable == Abstract!Spec
=============================================================================
