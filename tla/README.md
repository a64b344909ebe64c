# Maine: a verification project in TLA+

Maine deploys an OpenStack cloud: it enrols, inspects and installs bare-metal
machines with bifrost, configures their networks, and then runs ansible roles
that keep pacemaker bundles and docker containers at the revision the operator
configured. Nothing in it is a long-lived server. Its hard behaviour is that
of *commands*: a command lists the state of some service, works through the
listing with many calls, may be cut at any point, and is then repeated on
whatever the last one left. The models below therefore all have the same shape:
persistent state, one command or play at a time with its local state, and an
environment (ironic, pacemaker, docker, the operator, failures) that moves
meanwhile.

## 1. Inventory

| component | state it keeps or changes | operations | hard behaviour | what makes it correct | model |
|---|---|---|---|---|---|
| bifrost enrolment, `roles/bifrost/files/enroll.py` | ironic's node table, from `servers.csv` | one run: list, keep/rename/delete in a thread pool, create/patch/extra in a second pool, manage | interleaved pool tasks, refused names, lost answers, crashes between the three calls that make a node | one node per BMC; a known machine keeps its node; success means ironic equals the file; repeats converge | `Enroll` |
| inspection, provision, deployment: `inspector.py`, `provide.py`, `generate_servers.py.j2`, `deploy-servers.yml` | ironic's provision states and maintenance flags, the inspector's statuses and data, `servers.yml` | `bifrost-inspect`, `-provide`, `-deploy-servers` | stale listings, two-call repairs, half-written entries | success means every listed machine was handed to ironic; never cleaned while inspected; inspected machines get deployed | `Provision` |
| `status_checker.py` | none | prints | counts a node as registered only in `enroll`, the state `enroll.py` moves every node out of | – | not modelled |
| bifrost container: `roles/bifrost/tasks/{start,reconfigure,stop,...}.yml` | one container | start, reconfigure, stop | `reconfigure.yml` and `start.yml` use two names | the container that runs is the one reconfigure looks at | not modelled, see 6 |
| `pcs-mariadb` | pacemaker bundles and resource, docker volumes, Galera data, schema, load-balancer user | deploy, reconfigure, upgrade, stop, recover, backup | `run_once` against per-host tasks, hosts that leave a play, facts computed from the hosts that are left | one cluster is bootstrapped, and only one; rebuilt means current; deploy disturbs nothing | `PcsMariadb` |
| `pcs-rabbitmq` | pacemaker bundle and resource | deploy, reconfigure, upgrade, stop | two commands under one test of existence, interrupted rebuilds | rebuilt means running and current; nothing runs half built | `PcsRabbitmq` |
| `shadowfiend` and the roles of its pattern (ryze, kunkka, nuntius, zaqar, ...) | a host's files, its container, a database and its tables | deploy, reconfigure, upgrade, config, pull | notifications lost with a failed host, `database.changed`, serial batches | success means every container is current; tables before containers; repeats converge | `ServiceRole` (shadowfiend) |
| `logging` | ElasticSearch and OpenSearch containers and their volumes | upgrade, deploy, reconfigure | a data move between volumes inside an interruptible play | no index is lost from sight | `LoggingUpgrade` |
| `uos_net_config` and `network.yml` | ifcfg files, running interfaces, SR-IOV VFs | apply, restart | two-pass application, first lines swapped around it, kills | what succeeds runs; what is right stays up | `NetConfig` |
| site play, `playbooks/site.yml` | none of its own | runs the roles in order | hosts lost by one role are missing in the next | an upgrade reaches every role | not modelled, see 6 |
| `maine-ansible` | none | options and action to one `ansible-playbook` command | – | the action reaches the playbook that knows it | not modelled, see 6 |
| `genpwd`, and the upgrade script of the `Jenkinsfile` | `passwords.yml` | fill in place; move, fill a copy, merge | truncated before it is written, half-filled pairs, a script that cannot be repeated | a password in use is never lost and never replaced | `Passwords` |
| `diffinventory --merge` | the inventory, the package's `.rpmnew`, backups | merge the operator's block into the new inventory | two nested rewrites, the backup last | the new release's text with the operator's block | `MergeInventory` |
| `genhost`, `uos_net_vars` | `/etc/hosts`; none | append the missing hosts; give a host the columns of its rows | a name is a pattern; rows of several files, in any order | a machine is reached by its name and has its row's addresses | `ServersCsv` |
| network check: `network-check`, `ustack_ping` | none | every host pings every other on every vlan | hosts lost on the way, skipped items, names with a domain | success means every link was measured | `NetworkCheck` |
| `uos-expire-es` | indices | expire | boundaries | – | not modelled |
| backups and recovery | `/opt/maine_backup`, the backup volume, the bundle | full, incremental, cleanup, recovery | retention of chains of backups | every kept incremental has its base | not modelled, see 6 |
| ceph plays | a ceph cluster | deploy, integrate, clean disks | commands that cannot be repeated | an interrupted deployment can be finished | not modelled, see 6 |
| host preparation, post-deploy, templates, lint and demo scripts | packages, sysctls, iptables, sample resources | – | idempotent tasks | – | not modelled |

How they interact: `bifrost-enroll` writes the nodes and their `extra`, from
which `Provision`'s commands and the dynamic inventory read; the deployed
machines become the `baremetal` group on which the network play and every role
run; `servers.csv` also feeds the variables plugin, `genhost` and the network
check. The passwords and the inventory are what every role is run with. The roles meet in three
places only: pacemaker and docker on the hosts, the database that
`pcs-mariadb` serves and `ServiceRole` fills, and the set of hosts still in
the play. Commands are serialised by the operator (ansible runs one play at a
time from one deployment host); the services they drive are not.

`PROJECT.json` lists every component with its sources, and every hazard at its
line with the properties that cover it, or why none does yet.

## 2. Modules

| module | models | implementation lines it stands for |
|---|---|---|
| `Enroll`, `MCEnroll` | one enrolment run, repeated | `enroll.py` |
| `EnrollProofs` | theorems about `Enroll` | |
| `Provision`, `MCProvision` | inspect, provide, deploy-servers against a moving ironic | `inspector.py`, `provide.py`, `generate_servers.py.j2`, `deploy-servers.yml` |
| `ProvisionProofs` | theorems about `Provision` | |
| `PcsMariadb`, `MCPcsMariadb` | the role task by task | `roles/pcs-mariadb/tasks` |
| `PcsMariadbProofs` | theorems about `PcsMariadb` | |
| `PcsRabbitmq`, `MCPcsRabbitmq` | the role task by task | `roles/pcs-rabbitmq/tasks` |
| `PcsRabbitmqProofs` | theorems about `PcsRabbitmq` | |
| `ServiceRole`, `MCServiceRole` | a containerised service with a database | `roles/shadowfiend` |
| `ServiceRoleProofs` | theorems about `ServiceRole` | |
| `LoggingUpgrade`, `MCLoggingUpgrade` | the move from ElasticSearch to OpenSearch | `roles/logging/tasks` |
| `LoggingUpgradeProofs` | theorems about `LoggingUpgrade` | |
| `NetConfig`, `MCNetConfig` | the network module and play | `library/uos_net_config.py`, `playbooks/network.yml` |
| `Passwords` | the site's passwords over generations and upgrades | `maine/cmd/genpwd.py`, `Jenkinsfile`, `genpasswords.yml` |
| `MergeInventory` | the merge of inventories | `maine/cmd/diffinventory.py` |
| `SiteFiles`, `MCSiteFiles` | both together, over updates of the package | |
| `SiteFilesProofs` | theorems about `SiteFiles` | |
| `ServersCsv` | the readers of `servers.csv`, as operators | `vars_plugins/uos_net_vars.py`, `maine/cmd/genhost.py` |
| `NetworkCheck`, `MCNetworkCheck` | genhost, the network play and the check | `library/ustack_ping.py`, `roles/network-check`, `playbooks/network.yml` |
| `NetworkProofs` | theorems about `NetConfig` and `NetworkCheck` | |
| `Rebuildable` | abstract: a service under pacemaker | refined by `PcsRabbitmq` and `PcsMariadb` |
| `Rollout` | abstract: hosts and tables move to the wanted revision | refined by `ServiceRole` |

A module declares its parameters and bounds as CONSTANTS under one named
assumption. An action stands for one API call, one task (on one host unless it
is `run_once`), or one phase of a program, whole. Definitions whose comment
begins with "Mutant" stand in front of the definition they are a broken version
of; nothing uses them, and the runs' properties are known to fail when one of
them takes the place of the original.

**Enroll.** `ironic` is the node table; `rows` what `load_csv` read; `job` the
program counters of the pool tasks; `node_id` the dictionary
`node_hostname_in_ironic`, then `create_node`'s local. `Keep`/`Rename`/`Delete`
are `update_node_info`; `Create`/`Patch` then `AddExtra` are `create_node`;
`Manage` the last loop. `Answer` lets a call take effect and lose its answer;
`CallFails` fails without effect; `Crash` ends the process. Of the extra and
driver properties only the row they come from is kept. That a node name is
unique, which states may be deleted, and what `manage` leads to are ironic's
(external). A thread counts as busy only between the two calls of a host task.

**Provision.** `seen` is the listing a command made (`node_state_in_ironic`),
`status` and `data` the inspector's. `fixing` is the clean-failed node
`provide.py` is repairing with several calls. `Entry` is one iteration of the
generator: an entry exists as soon as data came, and is whole only if the data
are; a half one, which lacks at least the node's uuid, is written to `servers.yml`
and handed on all the same. What bifrost's playbook makes of it is not in the
repository: `DeployDynamic` (external) lets it deploy the node, fail, or pass it
over. `Accepts` is ironic's state machine (external).

**PcsMariadb, PcsRabbitmq.** `task` is the next task of the play; `play` and
`left` the hosts in it and those that have yet to run it. `Delete` to
`CreateCheck` are `config-pacemaker-resource.yml` with its registered return
codes (`existed`); `CreateVolume`, `Divide`, `Bootstrap` are `bootstrap.yml`;
`Enable*`, `Wait`, `Register`, `UpgradeDatabase` the tail of the actions. A
`run_once` task that fails ends the play; another task's failure drops its host.
Pacemaker starts what is enabled and Galera's members copy data (`Sync`).

**ServiceRole.** `conf`, `container`: revision of a host's files and of what
its container was started with; `notified`: pending restart handlers, lost when
a host fails; `changed`: `database.changed`. All files of a host are one
revision. `Finish` reports success only if no host was lost.

**LoggingUpgrade.** `nodes[h][v]` is what OpenSearch's data directory holds in
volume `v` of host `h`: nothing, the old indices, or a fresh directory. The first
task asks one server, whichever the load balancer picks, and gets its 200 only if
that server's cluster has a master (`HasMaster`, external): most of the hosts in
`cluster.initial_master_nodes` run, and `gateway.recover_after_nodes` of them
joined (`opensearch.yml.j2:2,9,17`; ElasticSearch is taken to have been configured
alike). That a cluster may shrink its voting configuration by itself is left out.
`Clusters` counts one server per host, since both listen on the same endpoint
(`upgrade.yml:2-4`).

**NetConfig.** `files` holds for each name the revision of the ifcfg file and
its first line; `running` what the interface runs with; `vfs` the PFs whose VFs
exist; `added` what os-net-config's provider has been given. os-net-config
itself (`Apply`, `Up`) is external, taken as the calls and comments of
`uos_net_config.py` describe it: it rewrites and restarts what differs, and
with cleanup removes what it was not given. A kill while a file is rewritten
leaves it `Cut`; the copy that fileinput leaves beside it is not modelled. The
recursions over members are written without recursion, as the least set of
objects that is closed under a step (`Reached`): the step to all members gives
what is below an object (`Tree`), the step to the last member that has members
of its own gives where `check_configure_sriov` takes its answer from.
`MCNetConfig` also has that function as the code writes it, member by member,
and an assumption that TLC evaluates, `CheckAgrees`, says that both agree on all
objects of the instance, three of which (nested bonds) no configuration uses.

**Passwords, MergeInventory, SiteFiles.** A password file is the values of its
keys, a pair being two parts, and whether it was torn: `None` is a missing file.
Values are numbers; a generated one is a value of its key that no file has and no
service was deployed with. Seven numbers are there to be generated, and at most
six are about for a key when one is needed, so that there always is a fresh one:
`SiteTypeOK` proves it for any keys and releases.
`site`, `old`, `new` are `passwords.yml` and the script's files in `/tmp`, `pc`
what runs and where it is. `Filled` is genpwd's loop; `ReadSite` reads and
truncates, `WriteSite` writes; `Move` to `Upgrade` are the lines of the upgrade
script, with kolla-mergepwd (external) in `Merge` and `Final`. `Kill` may fall
anywhere and leaves any prefix of a file that was being written (`TornFrom`, with the
keys of the prefix in `FirstKeys`).
`used` is what the services were deployed with. `MergeInventory` keeps of a
text its CUSTOMIZE block and the release of the rest; `OpenNew`, `OpenOld`,
`WriteOld`, `WriteBak` are the two nested rewrites and the backup; `torn` says
that the inventory is still what a kill left of it, `lost` for which release a
kill came after the package's inventory was truncated. `SiteFiles`
runs one command at a time and brings the template of the passwords and the
inventory of a release together, in `UpdatePackage`.

**ServersCsv, NetworkCheck.** `RowsOf` and `Var` are the plugin: the places of the
rows whose name has the host's first label, in all files in the order glob gave,
the last one winning; `Missing` and `parse_hosts` are genhost, of whose lines
the first of each name counts. `MCNetworkCheck` also has the variables as the
plugin combines them, row by row, and an assumption, `VarAgrees`, that both
agree on all files of the instance. `StartPlay` lists the files (`found`, in the
code `FOUND`), `Configure` gives the interfaces their addresses (`NetConfig`
says how), `PingNext` is one item of the loop on one host, `ustack_ping` the
module. The order of the items is left open, since nothing that they ask changes
while the loop runs. The network and the figures of ping are external. A link
has a latency, a loss and an MTU; the minimum, average and maximum are told
apart because the code mixes them. Its states and actions have names other than
`NetConfig`'s (`stage`, `outcome`, `CheckSpec`), because `NetworkProofs` is about
both.

**Refinements.** `Rebuildable` says what a role that keeps a service under
pacemaker promises: the service is made at the wanted revision, changes only by
being switched, is taken away only by a reconfigure or an upgrade and taken
down otherwise only by a stop, all of it inside a play, and a rebuild reports
success only when the service is up and current. `PcsRabbitmq` and `PcsMariadb`
implement it with the mapping `service` = their bundle's revision and whether
the server runs, `doing` = the action of the play (`RefinesRebuildable`).
`Rollout` says that every container and the
tables only move forward, to a revision that was wanted, and that success means
all have moved; `ServiceRole` implements it with `at` = `container`, `tables` =
`schema` (`RefinesRollout`).

## 3. Runs

| run | question | instance | states |
|---|---|---|---|
| `enroll` | is ironic right after any edits, failures, lost answers and crashes, and do repeats converge? | 2 BMCs, 3 uuids, 7 contents of the file (growth, rename, a hostname on another BMC, which replaces the first or takes over its name, a chain of names, a doubled hostname, empty), 2 pool threads, 1 edit, 2 faults | 464,916 |
| `provision` | are listings good enough, does success mean deployed, is everything inspected deployed? | 2 machines, distinct or equal hostnames, 2 troubles, 1 crash | 248,113 |
| `pcs_mariadb` | what do interrupted plays leave, and does reconfigure heal it? | 2 hosts, clustercheck on, 1 edit, 2 faults | 40,106 |
| `pcs_mariadb_beside` | can a second cluster be bootstrapped? (violation) | 2 hosts, 2 faults | about 8,100 |
| `pcs_rabbitmq` | does a rebuild that succeeds leave the server current? | 2 edits, 2 faults | 1,631 |
| `service_role` | is every container current after success, with tables first, and do repeats converge? | 3 hosts, serial 0 and 2, 1 edit, 2 faults | 151,334 |
| `logging` | are the indices served after an upgrade? | 3 hosts, the volume the role moves to mounted, 3 faults | 18,287 |
| `logging_volume` | and with the volume of the shipped defaults? (violation) | 3 hosts, no fault | about 110 |
| `netconfig` | is what succeeds running, does what is right stay up, do repeats converge? | 6 devices, 6 configurations (PF alone, first, last in a bridge; one invalid), 2 edits, 2 faults | 537,508 |
| `netconfig_sriov` | is every PF configured? (violation) | the same, 1 fault | about 1,800 |
| `site_files` | is a password in use ever lost or replaced, does the inventory follow the package? | 4 keys (a pair, one that stays blank, one new in release 2), 2 blocks, 2 releases, 2 kills | 1,598,926 |
| `network_check` | does a check that succeeds have measured every link, and do repeats succeed? | 3 machines whose names contain each other or carry a domain, files of 1, 2 and 3 columns or rows, a second file, 4 networks, 1 change | 99,867 |

*Properties.* Each passing run checks one type invariant and properties that
relate several actors or several runs:

- `NoDuplicateBmc`, `EnrolledOnSuccess`, `KnownNodeSurvives`, `EnrollConverges`;
- `DeployedOnSuccess`, `NeverCleanedWhileInspected`, `CallsAccepted`,
  `InspectedGetDeployed`;
- `SuccessMeansServing`, `RebuiltMeansCurrent`, `RefinesRebuildable`,
  `WholePlayBootstrapsAlone`, `ReconfigureHeals`;
- `RebuiltMeansCurrent`, `StartedLast` and `RefinesRebuildable` of RabbitMQ;
- `SuccessMeansCurrent`, `UpgradesTablesFirst`, `RefinesRollout`,
  `RepeatingConverges`;
- `HistoryServed`, `MovedBeforeStarted`, `UpgradeMigratesUnless`;
- `SuccessMeansRunning`, `UntouchedKeptUp`, `NetworkConverges`;
- `PasswordsHeld`, `UsedKept`, `InventoryMerged`;
- `SuccessMeansChecked`, `CheckConverges`.

Several of them hold only with an exception, which is then part of the
statement and says where the code does not heal itself: `DeployedOnSuccess` (half
an inspection, whose fate is not in the repository, and a hostname shared with
another listed machine), `CallsAccepted` (a repair cut short leaves a node in
maintenance that `provide.py` no longer repairs; no command finishes that repair,
and `InspectedGetDeployed` asks that no command is cut short), `ReconfigureHeals`
(volumes made, bootstrap never run: `Stranded`), `UpgradeMigratesUnless` (an
upgrade that ended when a cluster had too few servers left for a master
(`Leaderless`) may fail in its first task ever after, and one after a deploy in
`mv`), `UntouchedKeptUp` and `NetworkConverges`
(with cleanup, the first of two passes takes down what it was not given),
`EnrollConverges` (`Stuck`: a node needs a name that another node still has, in
an exchange or a chain of names, or because the BMC that had the name has left the
file; or a deployed node is no longer in the file), `PasswordsHeld` and `UsedKept` (a kill while genpwd or the merge
rewrites the file), `InventoryMerged` (an inventory that a
kill emptied while it was open, until somebody edits it; the text of a release
whose merge was killed between truncating the package's file and writing the
other one, until the next release), `SuccessMeansChecked` (of the latency,
only the minimum; only machines of one row with an address of their own) and
`CheckConverges` (`Blocked`: a second row, a row under another name, an old
line of `/etc/hosts`, or a name inside another; and the file needs a second
row).

*Bounds.* Faults, edits and troubles are bounded by `MaxFaults`, `MaxEdits`,
`MaxTroubles`, `MaxCrashes` and `MaxRev`, in the guards of the actions that
spend them; no state constraint is used. Two faults suffice for the
patterns the properties are about: one leaves something half done, the other
hits the attempt to repair it; one edit puts a stale revision against a wanted
one, two a stale one against a stale one. Two hosts are one that fails and one
that goes on; three, with batches of two, give a last batch smaller than the
first. Two machines are enough for a conflict over a name or a BMC, three
uuids for a node that replaces another; three hosts are the fewest of which a
cluster can lose one and keep its master. Revisions, files and rows are compared
only for equality.

*Fairness.* It is stated only in `FairSpec`. Weak fairness of the program or
play says that a process that can make its next call does: they have no
blocking wait but those modelled. Fairness of `Start(...)` says that the
operator repeats the command; it is strong where other commands may start in
between, since every start ends the enabledness of the others. Weak fairness
of `Verified`, `Cleaned`, `Booted`, `Inspected` and `Sync` says that ironic,
the inspector and Galera finish what they started or report it; their failures
are bounded and never owed. `genhost` and the whole play of `NetworkCheck` are
repeated, strongly fair because each and the check alone exclude the others
while they run. Edits, faults and crashes have no fairness.
Deadlock is checked in every run.

## 4. Findings

Checked by a run that shows the violation:

1. `pcs_mariadb_beside`: whether a cluster exists is judged from the volumes of
   the hosts *in the play* (`bootstrap.yml:17`); when the hosts with data have
   left it, the remaining one is bootstrapped as a second cluster.
2. `logging_volume`: `upgrade.yml:94` moves the indices to the volume
   `opensearch`, and the container mounts `logging_opensearch` by default.
3. `netconfig_sriov`: `check_configure_sriov` forgets a PF when a bond follows it
   in a bridge; its VFs are never created, and the run succeeds.

Met while modelling, and part of the exceptions above:

- two hosts that exchange their hostnames in `servers.csv` are never renamed:
  ironic refuses a name another node holds (`enroll.py:62`), and a chain of new
  names, or the name of a BMC that leaves the file, may end every run in the same
  way, before the other node is renamed or deleted;
- `upgrade.yml:6` needs a cluster with a master, and the same play stops the
  servers one by one: cut when two of three are stopped, it cannot be repeated;
- half an entry of `generate_servers.py.j2:66` stays in `servers.yml` and goes to
  bifrost with the whole ones;
- a RabbitMQ deploy cut between the creation of the bundle and of the resource
  is followed by deploys that succeed and start nothing
  (`config-pacemaker-resource.yml:63`); `Rebuildable` promises only of rebuilds
  that the service is up;
- the upgrade script moves `passwords.yml` away before the new one is there:
  killed in between it cannot be repeated, and repeated after its merge was
  killed it moves the torn file over the good copy (`Jenkinsfile:222`);
- `diffinventory.py:82` truncates the package's inventory and never writes it;
- `ustack_ping.py:90` returns the minimum latency three times, so that the
  allowed average and maximum judge the best packet;
- `uos_net_vars.py:24` speaks of a column `hostname_in_inventory`; the code takes
  the first label of the column `hostname` (lines 100-102).

## 5. Proofs

Checked by TLAPS for every value of the constants:

| theorem | says | from |
|---|---|---|
| `EnrollTypeOK` | `Spec => []TypeOK` | `EnrollAssumption` |
| `EnrollNoDuplicateBmc` | `Spec => []NoDuplicateBmc` | `EnrollAssumption`, and that no file lists one BMC twice |
| `EnrollEnrolledOnSuccess` | `Spec => []EnrolledOnSuccess` | `EnrollAssumption` |
| `EnrollKnownNodeSurvives` | `Spec => KnownNodeSurvives` | `EnrollAssumption` |
| `ProvisionTypeOK` | `Spec => []TypeOK` | `ProvisionAssumption` |
| `ProvisionOneDriver` | `Spec => []NeverCleanedWhileInspected` | `ProvisionAssumption` |
| `ProvisionCallsAccepted` | `Spec => CallsAccepted` | `ProvisionAssumption` |
| `ProvisionDeployedOnSuccess` | `Spec => DeployedOnSuccess` | `ProvisionAssumption` |
| `RabbitmqTypeOK` | `Spec => []TypeOK` | `PcsRabbitmqAssumption` |
| `RabbitmqRebuilt` | `Spec => []RebuiltMeansCurrent` | `PcsRabbitmqAssumption` |
| `RabbitmqStartedLast` | `Spec => StartedLast` | nothing |
| `RabbitmqRefines` | `Spec => RefinesRebuildable` | `PcsRabbitmqAssumption` |
| `MariadbTypeOK` | `Spec => []TypeOK` | `PcsMariadbAssumption` |
| `MariadbRebuilt` | `Spec => []RebuiltMeansCurrent` | `PcsMariadbAssumption` |
| `MariadbServing` | `Spec => []SuccessMeansServing` | `PcsMariadbAssumption` |
| `MariadbBootstrapsAlone` | `Spec => WholePlayBootstrapsAlone` | `PcsMariadbAssumption` |
| `MariadbRefines` | `Spec => RefinesRebuildable` | `PcsMariadbAssumption` |
| `RoleTypeOK` | `Spec => []TypeOK` | `ServiceRoleAssumption` |
| `RoleCurrent` | `Spec => []SuccessMeansCurrent` | `ServiceRoleAssumption` |
| `RoleTablesFirst` | `Spec => UpgradesTablesFirst` | `ServiceRoleAssumption` |
| `RoleRefines` | `Spec => RefinesRollout` | `ServiceRoleAssumption` |
| `LoggingTypeOK` | `Spec => []TypeOK` | `LoggingAssumption` |
| `LoggingHistoryServed` | `Spec => []HistoryServed` | `LoggingAssumption` and `Mounted = "opensearch"` |
| `LoggingMovedFirst` | `Spec => MovedBeforeStarted` | `LoggingAssumption` |
| `NetTypeOK` | `Spec => []TypeOK` | `NetConfigAssumption` |
| `NetSuccessMeansRunning` | `Spec => []SuccessMeansRunning` | `NetConfigAssumption` |
| `NetUntouchedKeptUp` | `Spec => UntouchedKeptUp` | `NetConfigAssumption` |
| `CheckTyped` | `CheckSpec => []CheckTypeOK` | `NetworkCheckAssumption` |
| `CheckMeasured` | `CheckSpec => []SuccessMeansChecked` | `NetworkCheckAssumption` |
| `SiteTypeOK` | `Spec => []TypeOK` | `PasswordsAssumption`, `MergeAssumption`, `SiteAssumption` |
| `SitePasswordsHeld` | `Spec => []PasswordsHeld` | the same |
| `SiteUsedKept` | `Spec => UsedKept` | the same |
| `SiteInventoryMerged` | `Spec => []InventoryMerged` | the same |

*Enroll.* `TypeOK` is not inductive: `Patch` and `AddExtra` write to
`ironic[node_id[h]]`, so it takes that a job of a pool is one of the phase the
run is in (`JobsOK`) and that no run means no jobs and no remembered uuids
(`IdleOK`); together `TypeInv`. The properties speak of the table alone, whereas
the danger is in what a run remembers while it works, and each adds what it needs
of that to the one before:

- `NamesInv`: names of nodes are unique (`UniqueNames`), and in the first pool a
  node whose task is done has its BMC in the file, carries the name the file
  gives it and is the node remembered for that hostname, while every other one
  still has its task (`UpdateOK`). It needs nothing of the file: where a BMC or a
  hostname occurs twice, ironic's refusal of the second name keeps it.
- `BmcInv`, for `EnrollNoDuplicateBmc`: in the second pool a node with the BMC of
  a hostname is the one remembered for it, so that a hostname without a
  remembered uuid has no node on its BMC (`CreateOK`). The step from the first to
  the second pool is where `UpdateOK` gives `CreateOK`, and needs that no file
  lists a BMC twice: two rows of one BMC would create two nodes, the second by
  the same code for the other hostname.
- `MemoryInv`, for `EnrollEnrolledOnSuccess`: what is remembered in the first
  pool is a known node under its new name (`UpdateMemory`); in the second every
  node is remembered for exactly one hostname of the file and has, as the task of
  the hostname goes on, its BMC and then its row (`CreateMemory`); when all tasks
  are done that is `Enrolled`, and the last loop disturbs none of it. Again
  nothing is asked of the file: two rows of one BMC give two nodes, but of
  exactly the hosts of the file.
- `ReadOK`, for `EnrollKnownNodeSurvives`: a run works on the file as it is. The
  operator does not edit it meanwhile in the model, and this is where the
  property would fail if that were allowed.

*Provision.* `NeverCleanedWhileInspected` needs what the lists of the commands
hold: `TodoInv` (the nodes a command still has to provide or deploy are not being
inspected, and the node under repair is one of them), `ServersInv` (an entry is of
a node of its hostname, which is not being inspected) and `DataInv` (a node leaves
the inspector's states only with data). An inspection that ends replaces the data
of a node; that node is in no list and in no entry because its status was
`running`. Nodes may share a hostname: an entry names its node, so that one that
was overwritten is not deployed. `CallsAccepted` is about how stale a listing may
be. `AcceptInv` says that a node a command still has to do is in the state it was
listed in although ironic and the inspector move on (`SeenInv`: none of their
steps leaves a state that a command acts on), that what is listed or entered for
a deployment is available (`DeployableInv`), and that a node in maintenance is in
the repair of the running command or was left by one cut short
(`MaintenanceInv`): the one exception of the property is that clause.
`DeployedOnSuccess` rests on all of them: `DoneInv` follows a machine that the
listing found available from the list to its entry, or to that of its namesake,
and from there to ironic. There always is an entry because of `DataInv`, and a
whole one is accepted because of `AcceptInv`, so that only half an entry can be
passed over in silence.

*PcsRabbitmq.* `RebuiltMeansCurrent` speaks of the end of a play. `RebuildInv`
says for each task what a rebuild has achieved when it gets there: nothing is
left of the old bundle before the query, the bundle is current before the
resource, both are there before the bootstrap and the start. `existed` being
false after a successful delete is what makes the creations happen. `StartedLast`
needs no invariant: each action but `Enable` either leaves pacemaker alone or
leaves one of the two parts disabled. `RabbitmqRefines` is a step simulation:
`AbstractNext` takes every action to `Begin`, `Work`, `End`, `Edit` or a stutter
of `Rebuildable`. It needs of `RebuildInv` that a play that runs has an action
and no report, that `existed` is still true of the bundle when it is used, and
that a bundle just made is disabled: otherwise giving it its resource would
take a running service down.

*PcsMariadb.* Both success properties come from `IInv`: `PlayInv` (only stop
disables, a bundle is made where there was none), `RebuildInv` (what each task
of a rebuild finds established, for the bundle, for the clustercheck bundle and
for the schema) and `ServeInv` (what the waits and the registration have seen).
Most steps are closed by one of three lemmas: a play that ended without success
leaves nothing to establish (`EndedIInv`), a step that leaves pacemaker, data
and play alone disturbs nothing (`FrameIInv`), and during a play there is no
result (`PlayingIInv`). `MariadbBootstrapsAlone` needs `DataInv`: data implies a
volume; while volumes are being made, data anywhere means that some host of the
play was, or is about to be, seen with its volume; and while hosts are being
bootstrapped either no host has clients' data or, if the servers have meanwhile
copied the first database, none is empty. The clauses on `play = Hosts` are
where the proof would fail for a play that lost a host, and there
`NeverBootstrapsBeside` is indeed violated. `MariadbRefines` is a step
simulation like that of the other role.

*ServiceRole.* The runs have three hosts in at most two batches; the theorems
hold for any number of both. `TypeOK` is proved together with `Between`: between
batches no host is at work, and what a flush has left to restart is what was
notified. `BatchInv` says how far the hosts of the batch are, task by task (files
written, then a current container or a notification, then a container or a
restart to come), `DoneInv` that while no host has failed the hosts of the
earlier batches are current, and so are the tables in an upgrade that has a
batch behind it. `Finish` is where `Done` is all hosts, which are not none.
`RoleRefines` adds `OrderInv`: a container is never ahead of the files of its
host, which are never ahead of the site, so that a restart, also one that docker
makes by itself from the files of a play that failed, only moves forward.

*LoggingUpgrade.* `HistoryServed` speaks of the end of an upgrade. `MoveInv` says how
far it is: the hosts of the play that are done with `mv`, and all of them once the
start is reached, have nothing left in ElasticSearch's volume, the hosts done with
the start run OpenSearch, and no index ever gets into a third volume. A host whose
`mv` fails keeps its indices and leaves the play, which is why the clauses speak of
`play` and not of all hosts. The assumption on `Mounted` is what the run
`logging_volume` refutes for the shipped defaults.

*NetConfig.* `SuccessMeansRunning` speaks of the end of a play, and `RunInv` says
what the run has achieved at each step before: no file has the module's own first
line while os-net-config compares them; what the provider was given is of
the configuration and, from the first apply on, has every PF of its top level,
so that the second apply, which adds the others, is given all of it; after it
every file is written and, with cleanup, there is no other; and the way out only
changes first lines, until all are the module's. `RestartNetwork` then starts
every interface from these files, which are whole. `ChangedInv` says that what
apply is to bring up is down and has a file. `NetUntouchedKeptUp` adds that a file
whose content is right differs, at the moment of the comparison, from none that
os-net-config would write, whichever first line a cut run left in it; here names
of valid configurations are taken to be unique. The exception of the property is
`FirstApply` with cleanup, and `FirstHasPf` shows that it takes a PF: there is no
first apply unless the search finds one, and what the search finds is there
(`CheckSound`). The converse is what `netconfig_sriov` refutes.

*NetworkCheck.* `CheckInv` says that a play works on the files as they are on disk
and that, of each host that has not failed, every item it is done with was rightly
skipped or answered. `FinishStep` is the argument: no host has failed, so every
item of the second row's columns is answered; a machine of one row has that row's
cells for its variables, whichever file was listed first (`OneRowVar`), so an item
between two such machines is not skipped; and the machine that answered is the
one that was meant because no other has its address. The rows of a file having
the same columns is what makes the second row stand for all. That there is a last
row, and a first line of a name, comes from the well-foundedness of the natural
numbers (`Least`, `Greatest`, `LastPlace`). `CheckTyped` needs it, too: an
interface gets a cell of a row, or keeps what it had.

*SiteFiles.* `PInv` says at each step of genpwd and of the upgrade script which of
the files exist and what they come from (`PlaceOK`), and which of them, if whole,
have every value in use (`CurrentOK`: `site` except while it is being rewritten,
then the memory; `old` while the script runs). A torn file promises nothing, and
the two exceptions of `PasswordsHeld` are the two ways a torn file takes the place
of the last whole one. Type correctness includes that a fresh value exists: the
values about for a key are at most six of the seven, by counting (`Pigeons`).
`MInv` follows the operator's block and the text of the newest release through
the two nested rewrites (`MergePlaceOK`): from the truncation to the write the
text of the newest release is only in memory, and a kill there sets `lost` to
that release and no other. It uses that `.rpmnew` is always of the newest release
(`NewestThere`).

Only model-checked:

- liveness: `EnrollConverges`, `InspectedGetDeployed`, `ReconfigureHeals`,
  `RepeatingConverges`, `UpgradeMigratesUnless`, `NetworkConverges`,
  `CheckConverges`. Fairness and ENABLED are out of the prover's reach.
- that `check_configure_sriov` and `Var`, which are written without recursion,
  agree with the loops of the code: `CheckAgrees` and `VarAgrees` are evaluated
  on the instances, as what a recursive definition computes for every input is
  out of its reach, too.

Every other property of the runs has a theorem.

## 6. Not modelled, and why

Contents of templates and files (a revision stands for them), the group guard of
shadowfiend's `deploy.yml:5-8` (the shipped inventory has all its hosts in the
group), argument parsing and printing, idempotent package and sysctl tasks, image pulls, prechecks,
keystone registration and the load balancer's files, the `eni` and `iproute`
providers and the Uniontech branch of the network play (whose
`ovs-vsctl add-br` cannot be repeated), Galera's and pacemaker's internals,
ironic's and the inspector's internals beyond the states the code reads. Two
commands started by two operators at once are left out: nothing in the
repository supports it.

Components left out as a whole:

- `status_checker.py`, `tools/partitions.py`, `validate-all-file.py` and the other
  scripts of the repository's own checks: they print, build an image in one
  straight sequence, or read source files; nothing reads their state later.
- `uos-expire-es` is one delete-by-query, in which `--ttl 0`, which the help
  says keeps records forever, deletes all.
- Recovery and backup of MariaDB (`recover_cluster.yml`, `backup.yml`, the backup
  plays): `pcs resource cleanup` acts on failure counts, and mariabackup on
  files, that no modelled task reads. `cleanup-backup.yml` runs `rm` on bare
  names in another directory, so it removes nothing.
- The bifrost container: one container, which `reconfigure.yml` compares under
  the name bifrost-deploy and `start.yml` starts as bifrost_deploy.
- The ceph plays: shell commands of cephadm, whose effects (what `orch apply`
  or `fs volume create` do to a cluster that has been there) are not in the
  repository, so a model would be of cephadm.
- `site.yml` and `maine-ansible`: the order of the roles and the choice of a
  playbook. The roles of the shadowfiend pattern other than shadowfiend:
  `ServiceRole` was read against shadowfiend's files alone. hawkeye flushes its
  handlers before its bootstrap; captain's and lulu's upgrade import a
  `bootstrap_service.yml` they do not have.
- maine-ironic, maine-common, host preparation and post-deployment: kolla's own
  tasks, idempotent package tasks, and sample resources.

## 7. What comes next

To prove: the assumption of `EnrollNoDuplicateBmc` weakened to two nodes per BMC
that the file lists twice; invariants that say in which states a command can
still be repeated, as the safety half of the convergence properties.

To model: the roles of the shadowfiend pattern as variants of `ServiceRole`, and
`site.yml` as their composition with the two pacemaker roles.
