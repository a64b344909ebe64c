-------------------------- MODULE ServiceRoleProofs --------------------------
(***************************************************************************)
(* Proofs about ServiceRole, for any set of hosts, any batch sizes and any *)
(* number of edits, of failed hosts and of plays cut short.                *)
(***************************************************************************)
EXTENDS ServiceRole, TLAPS

Done == Hosts \ (rest \cup batch)
Moving == {"database", "user", "bootstrap"}

\* Between its batches a play works on no host, and a flush runs the handlers
\* that were notified.
Between ==
    /\ task \in {"idle", "batch"} => batch = {}
    /\ task = "flush" => notified = left

\* A container never runs ahead of the files of its host, nor these or the
\* tables ahead of the site.
OrderInv ==
    /\ schema \in Nat => schema <= wanted
    /\ \A h \in Hosts :
          /\ conf[h] \in Nat => conf[h] <= wanted
          /\ container[h] \in Nat => conf[h] \in Nat /\ container[h] <= conf[h]

\* What is true of the hosts of the batch as the tasks go by.
BatchInv ==
    /\ task # "idle" => act # "none"
    /\ task = "config" => \A h \in batch \ left : conf[h] = wanted
    /\ task \in Moving \cup {"check", "flush"} =>
          act # "config" /\ \A h \in batch : conf[h] = wanted
    /\ task = "check" => \A h \in batch \ left : container[h] = wanted \/ h \in notified
    /\ task \in Moving => \A h \in batch : container[h] = wanted \/ h \in notified
    /\ task = "flush" => \A h \in batch : container[h] = wanted \/ h \in left
    /\ task \in {"database", "user"} => act # "upgrade"
    /\ task = "flush" /\ act = "upgrade" => schema = wanted

\* What is true of the hosts of earlier batches, while none has failed.
DoneInv ==
    task # "idle" /\ exit = "ok" /\ act # "config" =>
        /\ \A h \in Done : conf[h] = wanted /\ container[h] = wanted
        /\ act = "upgrade" /\ Done # {} => schema = wanted

PlayInv == BatchInv /\ DoneInv /\ SuccessMeansCurrent

IInv == TypeOK /\ Between /\ OrderInv /\ PlayInv

LEMMA RevFacts == Rev \subseteq Nat /\ None \notin Rev
BY ServiceRoleAssumption DEF Rev

LEMMA EndTypes ==
    ASSUME NEW how \in {"ok", "failed", "none"}, EndPlay(how)
    PROVE  /\ task' = "idle" /\ exit' \in {"none", "ok", "failed"} /\ changed' \in BOOLEAN
           /\ rest' \subseteq Hosts /\ batch' \subseteq Hosts \ rest'
           /\ left' \subseteq batch' /\ notified' \subseteq batch' /\ batch' = {}
<1>1. changed' \in BOOLEAN
  BY DEF EndPlay
<1> QED BY <1>1 DEF EndPlay

LEMMA InitTypeOK == Init => TypeOK /\ Between
<1> SUFFICES ASSUME Init PROVE TypeOK /\ Between
  OBVIOUS
<1>1. created \in BOOLEAN /\ changed \in BOOLEAN
  BY DEF Init
<1>2. wanted \in Rev /\ faults \in 0..MaxFaults
  BY ServiceRoleAssumption DEF Init, Rev
<1>3. conf \in [Hosts -> Rev \cup {None}] /\ container \in [Hosts -> Rev \cup {None}]
  BY DEF Init
<1> QED BY <1>1, <1>2, <1>3 DEF Init, TypeOK, Between

LEMMA NextTypeOK == TypeOK /\ Between /\ [Next]_vars => TypeOK' /\ Between'
<1> SUFFICES ASSUME TypeOK, Between, [Next]_vars PROVE TypeOK' /\ Between'
  OBVIOUS
<1> USE DEF hosts, database
<1>1. ASSUME NEW a \in Actions, Start(a) PROVE TypeOK' /\ Between'
  <2>1. /\ rest' \subseteq Hosts /\ batch' = {} /\ left = {} /\ notified = {}
    BY <1>1 DEF Start, TypeOK, Between
  <2> QED BY <1>1, <2>1 DEF Start, TypeOK, Between
<1>2. CASE NextBatch
  <2>1. PICK b \in SUBSET rest : batch' = b /\ rest' = rest \ b /\ left' = b
    BY <1>2 DEF NextBatch
  <2>2. UNCHANGED <<conf, container, created, schema, wanted, act>> /\ task' = "config"
        /\ UNCHANGED <<serial, notified, changed, exit, faults>> /\ task = "batch"
    BY <1>2 DEF NextBatch
  <2>3. notified = {}
    BY <2>2 DEF TypeOK, Between
  <2> QED BY <2>1, <2>2, <2>3 DEF TypeOK, Between
<1>3. CASE Finish
  <2>1. EndPlay(exit) /\ exit \in {"ok", "failed", "none"}
    BY <1>3 DEF Finish, TypeOK
  <2>2. UNCHANGED <<conf, container, created, schema, wanted, act, serial, faults>>
    BY <1>3 DEF Finish
  <2> QED BY <2>1, <2>2, EndTypes DEF TypeOK, Between
<1>4. ASSUME NEW h \in Hosts, Config(h) \/ CheckContainer(h) \/ Restart(h)
      PROVE  TypeOK' /\ Between'
  <2>1. conf' \in [Hosts -> Rev \cup {None}] /\ container' \in [Hosts -> Rev \cup {None}]
    BY <1>4 DEF Config, CheckContainer, Restart, TypeOK
  <2>2. /\ left' \subseteq batch' /\ notified' \subseteq batch' /\ UNCHANGED <<batch, task>>
        /\ task \in {"config", "check", "flush"} /\ (task = "flush" => notified' = left')
        /\ UNCHANGED <<created, schema, wanted, act, serial, rest, changed, exit, faults>>
    BY <1>4 DEF Config, CheckContainer, Restart, TypeOK, Between
  <2> QED BY <2>1, <2>2 DEF TypeOK, Between
<1>5. CASE Configured \/ Flushed
  <2>1. /\ task' \in {"batch", "check"} /\ (task' = "batch" => batch' = {} /\ left' = {})
        /\ batch' \subseteq batch /\ left' \subseteq batch' /\ notified' \subseteq batch'
    <3>1. CASE Configured
      BY <3>1 DEF Configured, Go, TypeOK
    <3>2. CASE Flushed
      <4>1. notified = {}
        BY <3>2 DEF Flushed, Go, Between
      <4> QED BY <3>2, <4>1 DEF Flushed, Go
    <3> QED BY <1>5, <3>1, <3>2
  <2>2. UNCHANGED <<conf, container, created, schema, wanted, act, serial, rest, changed>>
        /\ UNCHANGED <<exit, faults>>
    BY <1>5 DEF Configured, Flushed
  <2> QED BY <2>1, <2>2 DEF TypeOK, Between
<1>6. CASE Checked \/ CreateDatabase \/ CreateUser \/ Bootstrap
  <2>1. created' \in BOOLEAN /\ changed' \in BOOLEAN /\ schema' \in Rev \cup {None}
    BY <1>6 DEF Checked, CreateDatabase, CreateUser, Bootstrap, TypeOK
  <2>2. /\ UNCHANGED <<conf, container, wanted, act, serial, rest, batch, notified>>
        /\ UNCHANGED <<exit, faults>> /\ task' \in {"database", "user", "bootstrap", "flush"}
    BY <1>6 DEF Checked, CreateDatabase, CreateUser, Bootstrap, Go
  <2>3. left' \in {{}, notified} /\ (task' = "flush" => left' = notified)
    BY <1>6 DEF Checked, CreateDatabase, CreateUser, Bootstrap, Go
  <2> QED BY <2>1, <2>2, <2>3 DEF TypeOK, Between
<1>7. CASE BootstrapFails
  BY <1>7, EndTypes DEF BootstrapFails, TypeOK, Between
<1>8. ASSUME NEW h \in Hosts, HostFails(h) PROVE TypeOK' /\ Between'
  <2>1. faults' \in 0..MaxFaults
    BY <1>8, ServiceRoleAssumption DEF HostFails, Fault, TypeOK
  <2>2. UNCHANGED <<conf, container, created, schema, wanted, act, serial>> /\ h \in batch
    BY <1>8 DEF HostFails, TypeOK
  <2>3. CASE EndPlay("failed")
    BY <2>1, <2>2, <2>3, EndTypes DEF TypeOK, Between
  <2>4. CASE ~EndPlay("failed")
    <3>1. /\ batch' = batch \ {h} /\ left' = left \ {h} /\ notified' = notified \ {h}
          /\ exit' = "failed" /\ UNCHANGED <<task, rest, changed>>
      BY <1>8, <2>4 DEF HostFails
    <3>2. /\ rest' \subseteq Hosts /\ batch' \subseteq Hosts \ rest'
          /\ left' \subseteq batch' /\ notified' \subseteq batch'
      BY <3>1 DEF TypeOK
    <3> QED BY <2>1, <2>2, <3>1, <3>2 DEF TypeOK, Between
  <2> QED BY <2>3, <2>4
<1>9. CASE PlayFails
  <2>1. faults' \in 0..MaxFaults
    BY <1>9, ServiceRoleAssumption DEF PlayFails, Fault, TypeOK
  <2> QED BY <1>9, <2>1, EndTypes DEF PlayFails, TypeOK, Between
<1>10. ASSUME NEW h \in Hosts, DockerRestarts(h) PROVE TypeOK' /\ Between'
  <2>1. faults' \in 0..MaxFaults
    BY <1>10, ServiceRoleAssumption DEF DockerRestarts, Fault, TypeOK
  <2>2. container' \in [Hosts -> Rev \cup {None}]
    BY <1>10 DEF DockerRestarts, TypeOK
  <2> QED BY <1>10, <2>1, <2>2 DEF DockerRestarts, play, TypeOK, Between
<1>11. CASE Edit
  <2>1. wanted' \in Rev
    BY <1>11, ServiceRoleAssumption DEF Edit, TypeOK, Rev
  <2> QED BY <1>11, <2>1 DEF Edit, TypeOK, Between
<1>12. CASE UNCHANGED vars
  BY <1>12 DEF vars, play, TypeOK, Between
<1> QED
  BY <1>1, <1>2, <1>3, <1>4, <1>5, <1>6, <1>7, <1>8, <1>9, <1>10, <1>11, <1>12 DEF Next, Play

\* Type correctness: a batch is of hosts that were still to come, and the
\* handlers are those of hosts that are still in the play.
THEOREM RoleTypeOK == Spec => []TypeOK
BY InitTypeOK, NextTypeOK, PTL DEF Spec

LEMMA ActionFacts == \A a \in Actions : a # "none"
BY DEF Actions

LEMMA InitIInv == Init => IInv
<1> SUFFICES ASSUME Init PROVE IInv
  OBVIOUS
<1>1. TypeOK /\ Between
  BY InitTypeOK
<1>2. OrderInv
  BY ServiceRoleAssumption DEF Init, OrderInv
<1>3. task = "idle" /\ exit = "none"
  BY DEF Init
<1> QED BY <1>1, <1>2, <1>3 DEF IInv, PlayInv, BatchInv, DoneInv, SuccessMeansCurrent, Moving

\* Nothing runs ahead.
LEMMA NextOrderInv == TypeOK /\ BatchInv /\ OrderInv /\ [Next]_vars => OrderInv'
<1> SUFFICES ASSUME TypeOK, BatchInv, OrderInv, [Next]_vars PROVE OrderInv'
  OBVIOUS
<1> USE DEF hosts, database
<1>0. wanted \in Nat /\ None \notin Nat /\ (\A h \in Hosts : conf[h] \in Nat \cup {None})
  BY RevFacts, ServiceRoleAssumption DEF TypeOK
<1>1. CASE UNCHANGED <<conf, container, schema, wanted>>
  BY <1>1 DEF OrderInv
<1>2. ASSUME NEW h \in Hosts, Config(h) PROVE OrderInv'
  <2>1. conf' = [conf EXCEPT ![h] = wanted] /\ UNCHANGED <<container, schema, wanted>>
    BY <1>2 DEF Config
  <2>2. ASSUME NEW g \in Hosts
        PROVE  /\ conf'[g] \in Nat => conf'[g] <= wanted
               /\ container[g] \in Nat => conf'[g] \in Nat /\ container[g] <= conf'[g]
    <3>1. CASE g = h
      BY <1>0, <2>1, <3>1 DEF OrderInv, TypeOK
    <3>2. CASE g # h
      BY <2>1, <3>2 DEF OrderInv, TypeOK
    <3> QED BY <3>1, <3>2
  <2> QED BY <2>1, <2>2 DEF OrderInv
<1>3. ASSUME NEW h \in Hosts, Restart(h) \/ DockerRestarts(h) PROVE OrderInv'
  <2>1. container' = [container EXCEPT ![h] = conf[h]] /\ UNCHANGED <<conf, schema, wanted>>
    BY <1>3 DEF Restart, DockerRestarts
  <2> QED BY <1>0, <2>1 DEF OrderInv, TypeOK
<1>4. CASE Bootstrap
  BY <1>0, <1>4 DEF Bootstrap, OrderInv
<1>5. CASE Edit
  <2>1. wanted' = wanted + 1 /\ UNCHANGED <<conf, container, schema>>
    BY <1>5 DEF Edit
  <2>2. schema \in Nat => schema <= wanted'
    BY <1>0, <2>1 DEF OrderInv
  <2>3. \A h \in Hosts : conf[h] \in Nat => conf[h] <= wanted'
    BY <1>0, <2>1 DEF OrderInv
  <2> QED BY <2>1, <2>2, <2>3 DEF OrderInv
<1>6. \/ UNCHANGED <<conf, container, schema, wanted>> \/ Bootstrap \/ Edit
      \/ \E h \in Hosts : Config(h) \/ Restart(h) \/ DockerRestarts(h)
  <2>1. CASE \/ NextBatch \/ Finish \/ Configured \/ Checked \/ CreateDatabase \/ CreateUser
             \/ BootstrapFails \/ Flushed \/ PlayFails \/ \E a \in Actions : Start(a)
    BY <2>1 DEF NextBatch, Finish, Configured, Checked, CreateDatabase, CreateUser,
                BootstrapFails, Flushed, PlayFails, Start
  <2>2. CASE \E h \in Hosts : CheckContainer(h) \/ HostFails(h)
    BY <2>2 DEF CheckContainer, HostFails
  <2>3. CASE UNCHANGED vars
    BY <2>3 DEF vars
  <2> QED BY <2>1, <2>2, <2>3 DEF Next, Play
<1> QED BY <1>1, <1>2, <1>3, <1>4, <1>5, <1>6

\* A play that ends without success leaves nothing to establish.
LEMMA FailedPlayInv == ASSUME task' = "idle", exit' # "ok" PROVE PlayInv'
BY DEF PlayInv, BatchInv, DoneInv, SuccessMeansCurrent, Moving

\* The play, its batches and their hosts.
LEMMA BatchPlayInv ==
    ASSUME TypeOK, Between, PlayInv,
           (\E a \in Actions : Start(a)) \/ NextBatch \/ Finish \/ Flushed
    PROVE  PlayInv'
<1> USE DEF hosts, database
<1>1. ASSUME NEW a \in Actions, Start(a) PROVE PlayInv'
  <2>1. task' = "batch" /\ act' # "none" /\ rest' = Hosts
    BY <1>1, ActionFacts DEF Start
  <2> QED BY <2>1 DEF PlayInv, BatchInv, DoneInv, SuccessMeansCurrent, Moving, Done
<1>2. CASE NextBatch
  <2>1. PICK b \in SUBSET rest : batch' = b /\ rest' = rest \ b /\ left' = b
    BY <1>2 DEF NextBatch
  <2>2. UNCHANGED <<conf, container, schema, wanted, act, exit>> /\ task' = "config"
        /\ task = "batch" /\ batch = {}
    BY <1>2 DEF NextBatch, Between
  <2>3. Done' = Done
    BY <2>1, <2>2 DEF Done
  <2> QED
    BY <2>1, <2>2, <2>3 DEF PlayInv, BatchInv, DoneInv, SuccessMeansCurrent, Moving
<1>3. CASE Finish
  <2>1. /\ task = "batch" /\ rest = {} /\ batch = {} /\ task' = "idle" /\ exit' = exit
        /\ UNCHANGED <<conf, container, wanted, act>>
    BY <1>3 DEF Finish, EndPlay, Between
  <2>2. Done = Hosts
    BY <2>1 DEF Done
  <2> QED
    BY <2>1, <2>2 DEF PlayInv, BatchInv, DoneInv, SuccessMeansCurrent, Moving
<1>4. CASE Flushed
  <2>1. /\ task = "flush" /\ left = {} /\ task' = "batch" /\ batch' = {}
        /\ UNCHANGED <<conf, container, schema, wanted, act, exit, rest>>
    BY <1>4 DEF Flushed, Go
  <2>2. act # "none" /\ Done' \subseteq Done \cup batch
    BY <2>1 DEF PlayInv, BatchInv, Done
  <2>3. /\ \A h \in batch : conf[h] = wanted /\ container[h] = wanted
        /\ act = "upgrade" => schema = wanted
    BY <2>1 DEF PlayInv, BatchInv
  <2> QED
    BY <2>1, <2>2, <2>3 DEF PlayInv, BatchInv, DoneInv, SuccessMeansCurrent, Moving
<1> QED BY <1>1, <1>2, <1>3, <1>4

\* Tasks of a host: only of hosts of the batch, which are not done.
LEMMA HostPlayInv ==
    ASSUME TypeOK, Between, PlayInv, NEW h \in Hosts,
           Config(h) \/ CheckContainer(h) \/ Restart(h)
    PROVE  PlayInv'
<1> USE DEF hosts, database
<1>1. h \in batch /\ h \notin Done /\ Done' = Done
  BY DEF Config, CheckContainer, Restart, TypeOK, Done
<1>2. /\ task # "idle" /\ UNCHANGED <<schema, wanted, act, exit, task, batch>>
      /\ left' = left \ {h}
  BY DEF Config, CheckContainer, Restart
<1>3. CASE Config(h)
  <2>1. task = "config" /\ conf' = [conf EXCEPT ![h] = wanted] /\ UNCHANGED container
    BY <1>3 DEF Config
  <2> QED
    BY <1>1, <1>2, <2>1
    DEF PlayInv, BatchInv, DoneInv, SuccessMeansCurrent, Moving, TypeOK, Done
<1>4. CASE CheckContainer(h)
  <2>1. /\ task = "check" /\ UNCHANGED <<conf, container>>
        /\ notified' = IF container[h] # conf[h] THEN notified \cup {h} ELSE notified
    BY <1>4 DEF CheckContainer
  <2>2. conf[h] = wanted
    BY <1>1, <2>1 DEF PlayInv, BatchInv
  <2> QED
    BY <1>1, <1>2, <2>1, <2>2
    DEF PlayInv, BatchInv, DoneInv, SuccessMeansCurrent, Moving
<1>5. CASE Restart(h)
  <2>1. /\ task = "flush" /\ UNCHANGED conf
        /\ container' = [container EXCEPT ![h] = conf[h]]
    BY <1>5 DEF Restart
  <2>2. conf[h] = wanted
    BY <1>1, <2>1 DEF PlayInv, BatchInv
  <2> QED
    BY <1>1, <1>2, <2>1, <2>2
    DEF PlayInv, BatchInv, DoneInv, SuccessMeansCurrent, Moving, TypeOK, Done
<1> QED BY <1>3, <1>4, <1>5

\* Tasks of the whole batch.
LEMMA TaskPlayInv ==
    ASSUME TypeOK, Between, PlayInv,
           Configured \/ Checked \/ CreateDatabase \/ CreateUser \/ Bootstrap
    PROVE  PlayInv'
<1> USE DEF hosts, database
<1>1. CASE Configured
  <2>1. task = "config" /\ left = {} /\ UNCHANGED <<conf, container, schema, wanted, act, exit>>
    BY <1>1 DEF Configured, Go
  <2>2. CASE act = "config"
    <3>1. task' = "batch" /\ act' = "config"
      BY <1>1, <2>1, <2>2 DEF Configured, Go
    <3> QED BY <3>1 DEF PlayInv, BatchInv, DoneInv, SuccessMeansCurrent, Moving
  <2>3. CASE act # "config"
    <3>1. task' = "check" /\ left' = batch /\ UNCHANGED <<batch, rest>>
      BY <1>1, <2>3 DEF Configured, Go
    <3> QED
      BY <2>1, <2>3, <3>1
      DEF PlayInv, BatchInv, DoneInv, SuccessMeansCurrent, Moving, Done
  <2> QED BY <2>2, <2>3
<1>2. CASE Checked \/ CreateDatabase \/ CreateUser \/ Bootstrap
  <2>1. /\ left = {} /\ task \in Moving \cup {"check"} /\ task' \in Moving \cup {"flush"}
        /\ UNCHANGED <<conf, container, wanted, act, exit, batch, rest, notified>>
    BY <1>2 DEF Checked, CreateDatabase, CreateUser, Bootstrap, Go, Moving
  <2>2. /\ task' \in {"database", "user"} => act # "upgrade"
        /\ schema' = wanted \/ (schema' = schema /\ (task' = "flush" => act # "upgrade"))
    BY <1>2 DEF Checked, CreateDatabase, CreateUser, Bootstrap, Go, PlayInv, BatchInv
  <2>3. task' = "flush" => left' = notified
    BY <1>2 DEF Checked, CreateDatabase, CreateUser, Bootstrap, Go
  <2>4. /\ act # "config" /\ act # "none" /\ \A h \in batch : conf[h] = wanted
        /\ \A h \in batch : container[h] = wanted \/ h \in notified
    BY <2>1, ActionFacts DEF PlayInv, BatchInv, Moving
  <2>5. BatchInv'
    BY <2>1, <2>2, <2>3, <2>4 DEF BatchInv, Moving
  <2>6. DoneInv' /\ SuccessMeansCurrent'
    BY <2>1, <2>2 DEF PlayInv, DoneInv, SuccessMeansCurrent, Moving, Done
  <2> QED BY <2>5, <2>6 DEF PlayInv
<1> QED BY <1>1, <1>2

LEMMA FaultPlayInv ==
    ASSUME TypeOK, Between, PlayInv,
           \/ PlayFails \/ BootstrapFails \/ Edit
           \/ \E h \in Hosts : HostFails(h) \/ DockerRestarts(h)
    PROVE  PlayInv'
<1> USE DEF hosts, database
<1>1. CASE PlayFails \/ BootstrapFails \/ Edit
  <2>1. task' = "idle" /\ exit' # "ok"
    BY <1>1 DEF PlayFails, BootstrapFails, Edit, EndPlay
  <2> QED BY <2>1, FailedPlayInv
<1>2. ASSUME NEW h \in Hosts, HostFails(h) PROVE PlayInv'
  <2>1. CASE EndPlay("failed")
    BY <2>1, FailedPlayInv DEF EndPlay
  <2>2. CASE ~EndPlay("failed")
    <3>1. /\ batch' = batch \ {h} /\ left' = left \ {h} /\ notified' = notified \ {h}
          /\ exit' = "failed" /\ UNCHANGED <<task, conf, container, schema, wanted, act>>
      BY <1>2, <2>2 DEF HostFails
    <3> QED BY <3>1 DEF PlayInv, BatchInv, DoneInv, SuccessMeansCurrent, Moving
  <2> QED BY <2>1, <2>2
<1>3. ASSUME NEW h \in Hosts, DockerRestarts(h) PROVE PlayInv'
  <2>1. /\ container' = [container EXCEPT ![h] = conf[h]] /\ container[h] # conf[h]
        /\ UNCHANGED <<conf, schema, wanted, task, act, rest, batch, left, notified, exit>>
    BY <1>3 DEF DockerRestarts, play
  <2>2. \A g \in Hosts : conf[g] = wanted /\ container[g] = wanted => container'[g] = wanted
    BY <2>1 DEF TypeOK
  <2>3. \A g \in Hosts : conf[g] = wanted =>
            (container[g] = wanted => container'[g] = wanted)
    BY <2>2
  <2>4. batch \subseteq Hosts /\ Done \subseteq Hosts /\ Done' = Done
    BY <2>1 DEF Done, TypeOK
  <2>5. BatchInv'
    BY <2>1, <2>3, <2>4 DEF PlayInv, BatchInv, Moving
  <2>6. DoneInv' /\ SuccessMeansCurrent'
    BY <2>1, <2>3, <2>4 DEF PlayInv, DoneInv, SuccessMeansCurrent
  <2> QED BY <2>5, <2>6 DEF PlayInv
<1> QED BY <1>1, <1>2, <1>3

LEMMA NextIInv == IInv /\ [Next]_vars => IInv'
<1> SUFFICES ASSUME IInv, [Next]_vars PROVE IInv'
  OBVIOUS
<1>1. TypeOK /\ Between /\ OrderInv /\ PlayInv /\ BatchInv
  BY DEF IInv, PlayInv
<1>2. TypeOK' /\ Between' /\ OrderInv'
  BY <1>1, NextTypeOK, NextOrderInv
<1>3. ASSUME UNCHANGED vars PROVE PlayInv'
  BY <1>1, <1>3
  DEF vars, hosts, database, play, PlayInv, BatchInv, DoneInv, SuccessMeansCurrent, Moving, Done
<1>4. ASSUME Next PROVE PlayInv'
  BY <1>1, <1>4, BatchPlayInv, HostPlayInv, TaskPlayInv, FaultPlayInv DEF Next, Play
<1>5. PlayInv'
  BY <1>3, <1>4
<1> QED BY <1>2, <1>5 DEF IInv

LEMMA SpecIInv == Spec => []IInv
BY InitIInv, NextIInv, PTL DEF Spec

\* A play that reports success leaves every container with the wanted files
\* and image, whatever the size of its batches, and also when an earlier play
\* lost its notifications (check-containers.yml:2-17, deploy.yml:10-15).
THEOREM RoleCurrent == Spec => []SuccessMeansCurrent
<1>1. IInv => SuccessMeansCurrent
  BY DEF IInv, PlayInv
<1> QED BY <1>1, SpecIInv, PTL

\* An upgrade starts no container on tables of another revision, in any batch
\* (upgrade.yml:6-9).
THEOREM RoleTablesFirst == Spec => UpgradesTablesFirst
<1>1. IInv /\ [Next]_vars =>
        [act = "upgrade" /\ task = "flush" /\ faults' = faults =>
           \A h \in Hosts : container'[h] # container[h] => schema = container'[h]]_vars
  <2> SUFFICES ASSUME IInv, Next, act = "upgrade", task = "flush", faults' = faults,
                      NEW g \in Hosts, container'[g] # container[g]
               PROVE  schema = container'[g]
    BY DEF vars, hosts
  <2> USE DEF hosts, database
  <2>1. TypeOK /\ BatchInv
    BY DEF IInv, PlayInv
  <2>2. ASSUME NEW h \in Hosts, Restart(h) PROVE schema = container'[g]
    <3>1. container' = [container EXCEPT ![h] = conf[h]] /\ h \in batch
      BY <2>1, <2>2 DEF Restart, TypeOK
    <3>2. g = h /\ container'[g] = conf[g]
      BY <2>1, <3>1 DEF TypeOK
    <3> QED BY <2>1, <3>1, <3>2 DEF BatchInv
  <2>3. CASE Flushed \/ PlayFails \/ \E h \in Hosts : HostFails(h)
    BY <2>3 DEF Flushed, PlayFails, HostFails
  <2>4. ASSUME NEW h \in Hosts, DockerRestarts(h) PROVE FALSE
    <3>1. faults' = faults + 1 /\ faults \in Nat
      BY <2>1, <2>4, ServiceRoleAssumption DEF DockerRestarts, Fault, TypeOK
    <3> QED BY <3>1
  <2>5. \/ Flushed \/ PlayFails
        \/ \E h \in Hosts : Restart(h) \/ HostFails(h) \/ DockerRestarts(h)
    BY DEF Next, Play, Start, NextBatch, Finish, Configured, Checked, CreateDatabase,
           CreateUser, Bootstrap, BootstrapFails, Edit, Config, CheckContainer, Go
  <2> QED BY <2>2, <2>3, <2>4, <2>5
<1> QED BY <1>1, SpecIInv, PTL DEF Spec, UpgradesTablesFirst

(***************************************************************************)
(* Step simulation of Rollout.  rep and upg stand for the abstract report  *)
(* and upgrading.                                                          *)
(***************************************************************************)
rep == IF task = "idle" /\ act # "config" THEN exit ELSE "none"
upg == act = "upgrade" /\ task # "idle"

LEMMA AbstractInit == Init => Abstract!Init
BY DEF Init, Abstract!Init

\* A play ends: with its result, or without one if it was a genconfig.
LEMMA AbstractEnd ==
    ASSUME task' = "idle", exit' \in {"none", "ok", "failed"},
           UNCHANGED <<container, schema, wanted, act>>,
           exit' = "ok" /\ act # "config" => \A h \in Hosts : container[h] = wanted,
           exit' = "ok" /\ upg => schema = wanted
    PROVE  Abstract!Next
<1> DEFINE how == IF act # "config" THEN exit' ELSE "none"
<1>1. how \in {"none", "ok", "failed"}
  OBVIOUS
<1>2. Abstract!End(how)
  BY DEF Abstract!End, upg
<1> HIDE DEF how
<1> QED BY <1>1, <1>2 DEF Abstract!Next

\* A container that is restarted moves to the files of its host, or stays.
LEMMA AbstractMove ==
    ASSUME TypeOK, OrderInv, NEW h \in Hosts, conf[h] # None,
           container' = [container EXCEPT ![h] = conf[h]], container' # container,
           UNCHANGED <<schema, wanted, act, task, exit>>
    PROVE  Abstract!Next
<1>1. /\ conf[h] \in 0..MaxRev /\ conf[h] \in Nat
      /\ container[h] \in Nat \cup {None}
  BY RevFacts DEF TypeOK, Rev
<1>2. conf[h] <= wanted /\ (container[h] \in Nat => container[h] <= conf[h])
  BY <1>1 DEF OrderInv
<1>3. container[h] # conf[h]
  BY DEF TypeOK
<1>4. Abstract!Behind(container[h], conf[h])
  BY <1>1, <1>2, <1>3 DEF Abstract!Behind
<1>5. Abstract!Move(h, conf[h])
  BY <1>2, <1>4 DEF Abstract!Move
<1> QED BY <1>1, <1>5 DEF Abstract!Next

\* Every step of the role is one of the promise, or changes nothing of it.
LEMMA AbstractNext == IInv /\ [Next]_vars => [Abstract!Next]_(Abstract!vars)
<1> SUFFICES ASSUME IInv, [Next]_vars, ~UNCHANGED <<container, schema, wanted, upg, rep>>
             PROVE  Abstract!Next
  BY DEF Abstract!vars, upg, rep
<1> USE DEF hosts, database
<1>1. TypeOK /\ Between /\ OrderInv /\ BatchInv /\ DoneInv
  BY DEF IInv, PlayInv
<1>2. ~(task # "idle" /\ task' # "idle" /\ UNCHANGED <<container, schema, wanted, act>>)
  BY DEF upg, rep
<1>3. ~(NextBatch \/ Configured \/ Checked \/ CreateDatabase \/ CreateUser \/ Flushed)
  BY <1>2
  DEF NextBatch, Configured, Checked, CreateDatabase, CreateUser, Flushed, Go
<1>4. ASSUME NEW h \in Hosts PROVE ~(Config(h) \/ CheckContainer(h))
  BY <1>2 DEF Config, CheckContainer
<1>5. ASSUME NEW a \in Actions, Start(a) PROVE Abstract!Next
  <2>1. UNCHANGED <<container, schema, wanted>> /\ task' = "batch"
    BY <1>5 DEF Start
  <2>2. Abstract!Begin
    BY <2>1 DEF Abstract!Begin
  <2> QED BY <2>2 DEF Abstract!Next
<1>6. CASE Finish
  <2>1. /\ task = "batch" /\ rest = {} /\ batch = {} /\ task' = "idle" /\ exit' = exit
        /\ UNCHANGED <<container, schema, wanted, act>>
    BY <1>1, <1>6 DEF Finish, EndPlay, Between
  <2>2. Done = Hosts /\ Hosts # {}
    BY <2>1, ServiceRoleAssumption DEF Done
  <2>3. exit \in {"none", "ok", "failed"}
    BY <1>1 DEF TypeOK
  <2> QED BY <1>1, <2>1, <2>2, <2>3, AbstractEnd DEF DoneInv, upg
<1>7. CASE PlayFails \/ BootstrapFails \/ \E h \in Hosts : HostFails(h) /\ EndPlay("failed")
  <2>1. task' = "idle" /\ exit' = "failed" /\ UNCHANGED <<container, schema, wanted, act>>
    BY <1>7 DEF PlayFails, BootstrapFails, HostFails, EndPlay
  <2> QED BY <2>1, AbstractEnd
<1>8. ASSUME NEW h \in Hosts, HostFails(h), ~EndPlay("failed") PROVE FALSE
  <2>1. h \in batch /\ UNCHANGED <<task, container, schema, wanted, act>>
    BY <1>1, <1>8 DEF HostFails, TypeOK
  <2> QED BY <1>1, <1>2, <2>1 DEF Between
<1>9. CASE Bootstrap
  <2>1. /\ schema' = wanted /\ UNCHANGED <<container, wanted, act, exit>>
        /\ task = "bootstrap" /\ task' = "flush"
    BY <1>9 DEF Bootstrap, Go
  <2>2. wanted # None /\ wanted \in Nat /\ schema \in Nat \cup {None}
    BY <1>1, RevFacts DEF TypeOK
  <2>3. schema # wanted
    BY <1>2, <2>1
  <2>4. Abstract!Behind(schema, wanted)
    BY <1>1, <2>2, <2>3 DEF Abstract!Behind, OrderInv
  <2>5. Abstract!Migrate
    BY <2>1, <2>4 DEF Abstract!Migrate
  <2> QED BY <2>5 DEF Abstract!Next
<1>10. ASSUME NEW h \in Hosts, Restart(h) PROVE Abstract!Next
  <2>1. /\ container' = [container EXCEPT ![h] = conf[h]] /\ h \in batch /\ task = "flush"
        /\ UNCHANGED <<schema, wanted, act, task, exit>>
    BY <1>1, <1>10 DEF Restart, TypeOK
  <2>2. conf[h] # None
    BY <1>1, <2>1, RevFacts DEF BatchInv, TypeOK
  <2>3. container' # container
    BY <1>2, <2>1
  <2> QED BY <1>1, <2>1, <2>2, <2>3, AbstractMove
<1>11. ASSUME NEW h \in Hosts, DockerRestarts(h) PROVE Abstract!Next
  <2>1. /\ container' = [container EXCEPT ![h] = conf[h]] /\ container[h] # None
        /\ UNCHANGED <<schema, wanted, act, task, exit>>
    BY <1>11 DEF DockerRestarts, play
  <2>2. container[h] \in Nat
    BY <1>1, <2>1, RevFacts DEF TypeOK
  <2>3. conf[h] # None
    BY <1>1, <2>2, ServiceRoleAssumption DEF OrderInv
  <2>4. container' # container
    BY <2>1 DEF upg, rep
  <2> QED BY <1>1, <2>1, <2>3, <2>4, AbstractMove
<1>12. CASE Edit
  <2>1. /\ task = "idle" /\ task' = "idle" /\ wanted < MaxRev /\ wanted' = wanted + 1
        /\ exit' = "none" /\ UNCHANGED <<container, schema, act>>
    BY <1>12 DEF Edit
  <2>2. Abstract!Edit
    BY <2>1 DEF Abstract!Edit
  <2> QED BY <2>2 DEF Abstract!Next
<1>13. ~UNCHANGED vars
  BY DEF vars, play, upg, rep
<1> QED
  BY <1>3, <1>4, <1>5, <1>6, <1>7, <1>8, <1>9, <1>10, <1>11, <1>12, <1>13 DEF Next, Play

\* The role is a rollout, for any number of hosts and any batches: nothing
\* moves back, and success is reported only when all hosts, and in an upgrade
\* the tables, have moved (check-containers.yml:2-17, upgrade.yml:2-9).
THEOREM RoleRefines == Spec => RefinesRollout
<1>1. Init => Abstract!Init
  BY AbstractInit
<1>2. IInv /\ [Next]_vars => [Abstract!Next]_(Abstract!vars)
  BY AbstractNext
<1> QED BY <1>1, <1>2, SpecIInv, PTL DEF Spec, RefinesRollout, Abstract!Spec
=============================================================================
