----------------------------- MODULE ServiceRole -----------------------------
(***************************************************************************)
(* A role of a containerised service with a database, as role shadowfiend: *)
(* `deploy`, `reconfigure`, `upgrade` and `config` (genconfig) write the   *)
(* files of every host, notify the restart handler of what changed,        *)
(* create and fill the database once, and flush the handlers.  The play    *)
(* runs batch by batch (kolla_serial); a host on which a task fails leaves *)
(* the play with its notifications, and a failed `run_once` task ends it.  *)
(***************************************************************************)
EXTENDS Naturals, FiniteSets

CONSTANTS Hosts,
          Serials,   \* kolla_serial; 0: all hosts in one batch
          MaxRev,    \* bound: edits of the configuration or the image
          MaxFaults, \* bound: hosts that fail a task, plays cut short
          None

ASSUME ServiceRoleAssumption ==
    /\ IsFiniteSet(Hosts) /\ Hosts # {}
    /\ Serials \subseteq Nat /\ MaxRev \in Nat /\ MaxFaults \in Nat
    /\ None \notin Nat

VARIABLES conf, container, \* revision of a host's files and of what runs
          created, schema, \* the database exists; revision of its tables
          wanted,          \* revision of the operator's configuration
          act, task, serial,
          rest, batch,     \* hosts of later batches, hosts of this one
          left,            \* hosts that have not run this task
          notified,        \* hosts with a restart handler to run
          changed,         \* database.changed
          exit, faults

hosts == <<conf, container>>
database == <<created, schema>>
play == <<act, task, serial, rest, batch, left, notified, changed, exit>>
vars == <<hosts, database, wanted, play, faults>>

Rev == 0..MaxRev
Actions == {"deploy", "reconfigure", "upgrade", "config"}

TypeOK ==
    /\ conf \in [Hosts -> Rev \cup {None}] /\ container \in [Hosts -> Rev \cup {None}]
    /\ created \in BOOLEAN /\ schema \in Rev \cup {None} /\ wanted \in Rev
    /\ act \in Actions \cup {"none"} /\ serial \in Serials \cup {0}
    /\ task \in {"idle", "batch", "config", "check", "database", "user", "bootstrap", "flush"}
    /\ rest \subseteq Hosts /\ batch \subseteq Hosts \ rest
    /\ left \subseteq batch /\ notified \subseteq batch
    /\ changed \in BOOLEAN /\ exit \in {"none", "ok", "failed"} /\ faults \in 0..MaxFaults

Init ==
    /\ conf = [h \in Hosts |-> None] /\ container = [h \in Hosts |-> None]
    /\ created = FALSE /\ schema = None /\ wanted = 0
    /\ act = "none" /\ task = "idle" /\ serial = 0
    /\ rest = {} /\ batch = {} /\ left = {} /\ notified = {}
    /\ changed = FALSE /\ exit = "none" /\ faults = 0

(***************************************************************************)
(* Ansible: the play, its batches and its tasks                            *)
(***************************************************************************)
Start(a) ==
    /\ task = "idle"
    /\ act' = a /\ serial' \in Serials
    /\ task' = "batch" /\ rest' = Hosts /\ batch' = {} /\ exit' = "ok"
    /\ UNCHANGED <<hosts, database, wanted, left, notified, changed, faults>>

NextBatch ==
    /\ task = "batch" /\ rest # {}
    /\ \E b \in SUBSET rest :
          /\ IF serial = 0 \/ serial > Cardinality(rest) THEN b = rest
                                                       ELSE Cardinality(b) = serial
          /\ batch' = b /\ rest' = rest \ b /\ left' = b
    /\ task' = "config"
    /\ UNCHANGED <<hosts, database, wanted, act, serial, notified, changed, exit, faults>>

EndPlay(how) ==
    /\ task' = "idle" /\ exit' = how
    /\ rest' = {} /\ batch' = {} /\ left' = {} /\ notified' = {} /\ changed' = FALSE

Finish ==
    /\ task = "batch" /\ rest = {}
    /\ EndPlay(exit)
    /\ UNCHANGED <<hosts, database, wanted, act, serial, faults>>

\* All hosts of the batch are through the task.
Go(from, to) == task = from /\ left = {} /\ task' = to

(***************************************************************************)
(* The tasks of the role                                                   *)
(***************************************************************************)
\* A file that is written anew notifies the handler.
Config(h) ==
    /\ task = "config" /\ h \in left
    /\ left' = left \ {h} /\ conf' = [conf EXCEPT ![h] = wanted]
    /\ notified' = IF conf[h] = wanted THEN notified ELSE notified \cup {h}
    /\ UNCHANGED <<container, database, wanted, act, task, serial, rest, batch, changed, exit, faults>>

\* Action `config` ends here: its handlers run, and do nothing.
Configured ==
    /\ IF act = "config"
       THEN Go("config", "batch") /\ batch' = {} /\ left' = {} /\ notified' = {}
       ELSE Go("config", "check") /\ left' = batch /\ UNCHANGED <<batch, notified>>
    /\ UNCHANGED <<hosts, database, wanted, act, serial, rest, changed, exit, faults>>

\* Mutant: only a missing container is noticed.
CheckMissing(h) ==
    /\ task = "check" /\ h \in left
    /\ left' = left \ {h}
    /\ notified' = IF container[h] = None THEN notified \cup {h} ELSE notified
    /\ UNCHANGED <<hosts, database, wanted, act, task, serial, rest, batch, changed, exit, faults>>

\* compare_container also notices a container whose image or files are old.
CheckContainer(h) ==
    /\ task = "check" /\ h \in left
    /\ left' = left \ {h}
    /\ notified' = IF container[h] # conf[h] THEN notified \cup {h} ELSE notified
    /\ UNCHANGED <<hosts, database, wanted, act, task, serial, rest, batch, changed, exit, faults>>

\* Mutant: upgrade fills the database only when it made it.
UpgradeAsDeploy ==
    /\ Go("check", "database")
    /\ UNCHANGED <<hosts, database, wanted, act, serial, rest, batch, left, notified, changed, exit, faults>>

\* Mutant: the handlers are flushed before the bootstrap.
FlushFirst ==
    /\ Go("check", "flush") /\ left' = notified
    /\ UNCHANGED <<hosts, database, wanted, act, serial, rest, batch, notified, changed, exit, faults>>

Checked ==
    /\ Go("check", IF act = "upgrade" THEN "bootstrap" ELSE "database")
    /\ UNCHANGED <<hosts, database, wanted, act, serial, rest, batch, left, notified, changed, exit, faults>>

CreateDatabase ==
    /\ Go("database", "user")
    /\ created' = TRUE /\ changed' = ~created
    /\ UNCHANGED <<hosts, schema, wanted, act, serial, rest, batch, left, notified, exit, faults>>

\* Mutant: the handlers are flushed on the whole group.
FlushGroup ==
    /\ Go("user", IF changed THEN "bootstrap" ELSE "flush")
    /\ left' = IF changed THEN {} ELSE Hosts
    /\ UNCHANGED <<hosts, database, wanted, act, serial, rest, batch, notified, changed, exit, faults>>

\* bootstrap_service.yml is included only when this play made the database.
CreateUser ==
    /\ Go("user", IF changed THEN "bootstrap" ELSE "flush")
    /\ left' = IF changed THEN {} ELSE notified
    /\ UNCHANGED <<hosts, database, wanted, act, serial, rest, batch, notified, changed, exit, faults>>

\* The bootstrap container needs its database.
Bootstrap ==
    /\ Go("bootstrap", "flush") /\ created
    /\ schema' = wanted /\ left' = notified
    /\ UNCHANGED <<hosts, created, wanted, act, serial, rest, batch, notified, changed, exit, faults>>

BootstrapFails ==
    /\ task = "bootstrap" /\ ~created
    /\ EndPlay("failed")
    /\ UNCHANGED <<hosts, database, wanted, act, serial, faults>>

Restart(h) ==
    /\ task = "flush" /\ h \in left
    /\ left' = left \ {h} /\ notified' = notified \ {h}
    /\ container' = [container EXCEPT ![h] = conf[h]]
    /\ UNCHANGED <<conf, database, wanted, act, task, serial, rest, batch, changed, exit, faults>>

Flushed ==
    /\ Go("flush", "batch") /\ batch' = {}
    /\ UNCHANGED <<hosts, database, wanted, act, serial, rest, left, notified, changed, exit, faults>>

(***************************************************************************)
(* Faults and the operator                                                 *)
(***************************************************************************)
Fault == faults < MaxFaults /\ faults' = faults + 1

\* Its handlers never run; a batch without hosts ends the play.
HostFails(h) ==
    /\ h \in left /\ Fault
    /\ IF batch = {h} THEN EndPlay("failed")
       ELSE /\ batch' = batch \ {h} /\ left' = left \ {h} /\ notified' = notified \ {h}
            /\ exit' = "failed" /\ UNCHANGED <<task, rest, changed>>
    /\ UNCHANGED <<hosts, database, wanted, act, serial>>

\* A `run_once` task fails, with or without effect, or the play is cut short.
PlayFails ==
    /\ task # "idle" /\ Fault
    /\ EndPlay("failed")
    /\ UNCHANGED <<hosts, database, wanted, act, serial>>

\* docker restarts a container: it reads the files that are there.
DockerRestarts(h) ==
    /\ container[h] # None /\ container[h] # conf[h] /\ Fault
    /\ container' = [container EXCEPT ![h] = conf[h]]
    /\ UNCHANGED <<conf, database, wanted, play>>

Edit ==
    /\ task = "idle" /\ wanted < MaxRev /\ wanted' = wanted + 1 /\ exit' = "none"
    /\ UNCHANGED <<hosts, database, act, task, serial, rest, batch, left, notified, changed, faults>>

Play ==
    \/ NextBatch \/ Finish \/ Configured \/ Checked \/ CreateDatabase \/ CreateUser
    \/ Bootstrap \/ BootstrapFails \/ Flushed
    \/ \E h \in Hosts : Config(h) \/ CheckContainer(h) \/ Restart(h)

Next ==
    \/ \E a \in Actions : Start(a)
    \/ Play \/ PlayFails \/ Edit
    \/ \E h \in Hosts : HostFails(h) \/ DockerRestarts(h)

Spec == Init /\ [][Next]_vars

\* A play goes on; the operator repeats deploy and upgrade.
FairSpec ==
    /\ Spec
    /\ WF_vars(Play) /\ SF_vars(Start("deploy")) /\ SF_vars(Start("upgrade"))

(***************************************************************************)
(* Properties                                                              *)
(***************************************************************************)
\* A play that reports success, other than genconfig, leaves every container
\* with the wanted files and image, also when the play that wrote the files
\* lost its notifications (check-containers.yml:2-17, deploy.yml:10-15).
SuccessMeansCurrent ==
    exit = "ok" /\ task = "idle" /\ act # "config" =>
        \A h \in Hosts : conf[h] = wanted /\ container[h] = wanted

\* An upgrade starts no container on tables of another revision, in any batch
\* (upgrade.yml:6-9).
UpgradesTablesFirst ==
    [][act = "upgrade" /\ task = "flush" /\ faults' = faults =>
          \A h \in Hosts : container'[h] # container[h] => schema = container'[h]]_vars

\* Repeating deploy and upgrade ends with every container and the tables at
\* the wanted revision, also when a play died between creating the database
\* and filling it, after which no deploy fills it (bootstrap.yml:35-36).
RepeatingConverges ==
    <>[](/\ schema = wanted
         /\ \A h \in Hosts : container[h] = wanted)

\* Every role of this pattern is a rollout: nothing moves back, whichever
\* revision of its files a host was left with, and success is reported only
\* when all hosts have moved; genconfig moves nothing and promises nothing.
Abstract == INSTANCE Rollout WITH
    at <- container, tables <- schema,
    upgrading <- act = "upgrade" /\ task # "idle",
    report <- IF task = "idle" /\ act # "config" THEN exit ELSE "none"
RefinesRollout == Abstract!Spec
=============================================================================
