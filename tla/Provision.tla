----------------------------- MODULE Provision ------------------------------
(***************************************************************************)
(* From an enrolled node to a deployed one: `maine-ansible bifrost-inspect`*)
(* (inspector.py), `bifrost-provide` (provide.py) and                      *)
(* `bifrost-deploy-servers` (generate_servers.py, then bifrost's           *)
(* deploy-dynamic playbook).  Every command lists first and acts on the    *)
(* listing; meanwhile the ironic conductor and the inspector move nodes.   *)
(***************************************************************************)
EXTENDS Naturals, FiniteSets

CONSTANTS Uuids,
          Hostnamings,  \* functions from Uuids to lower-case hostnames
          MaxTroubles,  \* bound: failed inspections, cleanings, deployments
          MaxCrashes,   \* bound: commands that die or lose a call
          None

ASSUME ProvisionAssumption ==
    /\ \A f \in Hostnamings : DOMAIN f = Uuids
    /\ MaxTroubles \in Nat /\ MaxCrashes \in Nat
    /\ None \notin Uuids \cup [uuid : Uuids, whole : BOOLEAN]

VARIABLES hostname,            \* extra['hostname'], in lower case
          state, maintenance,  \* ironic: provision_state, maintenance flag
          status, data,        \* inspector: list_statuses(), get_data()
          extra,               \* nodes whose `extra` enroll.py has filled
          cmd,                 \* the running command and its stage
          seen,                \* node_state_in_ironic / the listing used
          todo,                \* nodes the loop has not reached
          fixing,              \* the `clean failed` node provide.py works on
          errors,              \* has_error of provide.py
          servers,             \* output_data, then servers.yml
          exit, troubles, crashes

conductor == <<state, maintenance>>
inspector == <<status, data>>
local == <<cmd, seen, todo, fixing, errors, servers, exit>>
moving == <<conductor, inspector, extra, local, troubles, crashes>>
vars == <<hostname, moving>>

States == {"manageable", "inspect failed", "cleaning", "clean failed",
           "available", "deploying", "deploy failed", "active"}
Names == {f[u] : f \in Hostnamings, u \in Uuids}

TypeOK ==
    /\ hostname \in Hostnamings
    /\ state \in [Uuids -> States] /\ maintenance \in [Uuids -> BOOLEAN]
    /\ status \in [Uuids -> {"none", "running", "finished", "error"}]
    /\ data \in [Uuids -> {"none", "partial", "full"}]
    /\ extra \subseteq Uuids
    /\ cmd \in {"idle", "inspect", "snapshot", "provide", "generate", "deploy"}
    /\ seen \in [Uuids -> States \cup {None}] /\ todo \subseteq Uuids
    /\ fixing \in Uuids \cup {None} /\ errors \in BOOLEAN
    /\ servers \in [Names -> {None} \cup [uuid : Uuids, whole : BOOLEAN]]
    /\ exit \in {"none", "ok", "failed", "refused", "crashed"}
    /\ troubles \in 0..MaxTroubles /\ crashes \in 0..MaxCrashes

NoServers == [n \in Names |-> None]
NothingSeen == [u \in Uuids |-> None]

Init ==
    /\ hostname \in Hostnamings
    /\ state = [u \in Uuids |-> "manageable"]
    /\ maintenance = [u \in Uuids |-> FALSE]
    /\ status = [u \in Uuids |-> "none"] /\ data = [u \in Uuids |-> "none"]
    /\ extra \in SUBSET Uuids
    /\ cmd = "idle" /\ seen = NothingSeen /\ todo = {} /\ fixing = None
    /\ errors = FALSE /\ servers = NoServers /\ exit = "none"
    /\ troubles = 0 /\ crashes = 0

Trouble == troubles < MaxTroubles /\ troubles' = troubles + 1

(***************************************************************************)
(* Commands: helpers                                                       *)
(***************************************************************************)
\* The listing dies with the command; servers.yml stays on disk, but the next
\* deployment writes it anew before it reads it.
Quit(how) ==
    /\ cmd' = "idle" /\ exit' = how
    /\ todo' = {} /\ fixing' = None /\ errors' = FALSE
    /\ seen' = NothingSeen /\ servers' = NoServers

\* set_provision_state: ironic refuses the verb in another state, and refuses
\* to clean or deploy a node in maintenance; the script dies of the refusal.
Accepts(u, from) == state[u] \in from
Refusal == Quit("refused") /\ UNCHANGED conductor

(***************************************************************************)
(* inspector.py                                                            *)
(***************************************************************************)
\* provide.py asks for another inspection of nodes that failed; a needless one
\* counts as a trouble.
StartInspect ==
    /\ cmd = "idle" /\ cmd' = "inspect" /\ seen' = state
    /\ \/ (\E u \in Uuids : status[u] \in {"none", "error"}) /\ UNCHANGED troubles
       \/ Trouble
    /\ todo' = {u \in Uuids : state[u] \in {"manageable", "inspect failed"}}
    /\ UNCHANGED <<conductor, inspector, extra, fixing, errors, servers, exit, crashes>>

Introspect(u) ==
    /\ cmd = "inspect" /\ u \in todo
    /\ \/ /\ Accepts(u, {"manageable", "inspect failed"})
          /\ status' = [status EXCEPT ![u] = "running"]
          /\ todo' = todo \ {u}
          /\ UNCHANGED <<conductor, cmd, seen, fixing, errors, servers, exit>>
       \/ /\ ~Accepts(u, {"manageable", "inspect failed"})
          /\ Refusal /\ UNCHANGED status
    /\ UNCHANGED <<data, extra, troubles, crashes>>

EndInspect ==
    /\ cmd = "inspect" /\ todo = {}
    /\ Quit("ok")
    /\ UNCHANGED <<conductor, inspector, extra, troubles, crashes>>

(***************************************************************************)
(* provide.py: the states are read at import, the statuses in main().      *)
(***************************************************************************)
StartProvide ==
    /\ cmd = "idle" /\ cmd' = "snapshot" /\ seen' = state
    /\ UNCHANGED <<conductor, inspector, extra, todo, fixing, errors, servers, exit, troubles, crashes>>

\* Mutant: only failed inspections are left out.
ListNotFailed ==
    /\ cmd = "snapshot" /\ cmd' = "provide"
    /\ todo' = {u \in Uuids : status[u] \in {"running", "finished"}}
    /\ errors' = (\E u \in Uuids : status[u] \in {"running", "error"})
    /\ UNCHANGED <<conductor, inspector, extra, seen, fixing, servers, exit, troubles, crashes>>

ListStatuses ==
    /\ cmd = "snapshot" /\ cmd' = "provide"
    /\ todo' = {u \in Uuids : status[u] = "finished"}
    /\ errors' = (\E u \in Uuids : status[u] \in {"running", "error"})
    /\ UNCHANGED <<conductor, inspector, extra, seen, fixing, servers, exit, troubles, crashes>>

Provide(u) ==
    \/ /\ Accepts(u, {"manageable"}) /\ ~maintenance[u]
       /\ state' = [state EXCEPT ![u] = "cleaning"]
       /\ todo' = todo \ {u} /\ fixing' = None
       /\ UNCHANGED <<maintenance, cmd, seen, errors, servers, exit>>
    \/ /\ ~Accepts(u, {"manageable"}) \/ maintenance[u]
       /\ Refusal

ProvideManageable(u) ==
    /\ cmd = "provide" /\ fixing = None /\ u \in todo /\ seen[u] = "manageable"
    /\ Provide(u)
    /\ UNCHANGED <<inspector, extra, troubles, crashes>>

\* Mutant: the verb is stored instead of the state it leads to.
ManageCleanFailedVerb(u) ==
    /\ cmd = "provide" /\ fixing = None /\ u \in todo /\ seen[u] = "clean failed"
    /\ Accepts(u, {"clean failed"})
    /\ state' = [state EXCEPT ![u] = "manage"] /\ fixing' = u
    /\ UNCHANGED <<maintenance, cmd, seen, todo, errors, servers, exit, inspector, extra, troubles, crashes>>

ManageCleanFailed(u) ==
    /\ cmd = "provide" /\ fixing = None /\ u \in todo /\ seen[u] = "clean failed"
    /\ \/ /\ Accepts(u, {"clean failed"})
          /\ state' = [state EXCEPT ![u] = "manageable"]
          /\ fixing' = u
          /\ UNCHANGED <<maintenance, cmd, seen, todo, errors, servers, exit>>
       \/ ~Accepts(u, {"clean failed"}) /\ Refusal
    /\ UNCHANGED <<inspector, extra, troubles, crashes>>

UnsetMaintenance ==
    /\ cmd = "provide" /\ fixing # None /\ maintenance[fixing]
    /\ maintenance' = [maintenance EXCEPT ![fixing] = FALSE]
    /\ UNCHANGED <<state, inspector, extra, local, troubles, crashes>>

\* Mutant: the node is provided before its maintenance flag is cleared.
ProvideTooEarly ==
    /\ cmd = "provide" /\ fixing # None
    /\ Provide(fixing)
    /\ UNCHANGED <<inspector, extra, troubles, crashes>>

\* wait_for_provision_state(manageable) holds at once after the two calls.
ProvideRepaired ==
    /\ cmd = "provide" /\ fixing # None /\ ~maintenance[fixing]
    /\ Provide(fixing)
    /\ UNCHANGED <<inspector, extra, troubles, crashes>>

SkipOther(u) ==
    /\ cmd = "provide" /\ fixing = None /\ u \in todo
    /\ seen[u] \notin {"manageable", "clean failed"}
    /\ todo' = todo \ {u}
    /\ UNCHANGED <<conductor, inspector, extra, cmd, seen, fixing, errors, servers, exit, troubles, crashes>>

EndProvide ==
    /\ cmd = "provide" /\ todo = {}
    /\ Quit(IF errors THEN "failed" ELSE "ok")
    /\ UNCHANGED <<conductor, inspector, extra, troubles, crashes>>

(***************************************************************************)
(* generate_servers.py and the deploy-dynamic playbook                     *)
(***************************************************************************)
\* Mutant: nodes whose deployment failed are not tried again.
GenerateAvailable ==
    /\ cmd = "idle"
    /\ \/ extra # Uuids /\ Quit("failed")
       \/ /\ extra = Uuids /\ cmd' = "generate" /\ seen' = state
          /\ todo' = {u \in Uuids : state[u] = "available"}
          /\ UNCHANGED <<fixing, errors, servers, exit>>
    /\ UNCHANGED <<conductor, inspector, extra, troubles, crashes>>

\* One node without extra['ipmi_address'] is a KeyError for the whole site.
StartGenerate ==
    /\ cmd = "idle"
    /\ \/ extra # Uuids /\ Quit("failed")
       \/ /\ extra = Uuids /\ cmd' = "generate" /\ seen' = state
          /\ todo' = {u \in Uuids : state[u] \in {"available", "deploy failed"}}
          /\ UNCHANGED <<fixing, errors, servers, exit>>
    /\ UNCHANGED <<conductor, inspector, extra, troubles, crashes>>

\* Mutant: output_data is emptied again for every node.
EntryAlone(u) ==
    /\ cmd = "generate" /\ u \in todo
    /\ todo' = todo \ {u}
    /\ servers' = IF data[u] = "none" THEN servers
                  ELSE [NoServers EXCEPT ![hostname[u]] =
                           [uuid |-> u, whole |-> data[u] = "full"]]
    /\ UNCHANGED <<conductor, inspector, extra, cmd, seen, fixing, errors, exit, troubles, crashes>>

\* The entry is made as soon as get_data() answers and filled afterwards: an
\* inspection without boot mode or MAC leaves a half of it behind, which is
\* written and handed on like a whole one.
Entry(u) ==
    /\ cmd = "generate" /\ u \in todo
    /\ todo' = todo \ {u}
    /\ servers' = IF data[u] = "none" THEN servers
                  ELSE [servers EXCEPT ![hostname[u]] =
                           [uuid |-> u, whole |-> data[u] = "full"]]
    /\ UNCHANGED <<conductor, inspector, extra, cmd, seen, fixing, errors, exit, troubles, crashes>>

WriteServers ==
    /\ cmd = "generate" /\ todo = {}
    /\ cmd' = "deploy"
    /\ todo' = {servers[n].uuid : n \in {m \in Names : servers[m] # None}}
    /\ UNCHANGED <<conductor, inspector, extra, seen, fixing, errors, servers, exit, troubles, crashes>>

\* External: deploy-dynamic deploys a node it has all the data of, if ironic
\* accepts; what it does with half an entry, which lacks at least the uuid, no
\* line here says: it may deploy the node, fail, or pass it over.
DeployDynamic(u, whole) ==
    LET accepted == ~maintenance[u] /\ Accepts(u, {"available", "deploy failed"}) IN
    \/ accepted /\ state' = [state EXCEPT ![u] = "deploying"] /\ UNCHANGED errors
    \/ (~whole \/ ~accepted) /\ errors' = TRUE /\ UNCHANGED state
    \/ ~whole /\ UNCHANGED <<state, errors>>

DeployNode(u) ==
    /\ cmd = "deploy" /\ u \in todo
    /\ todo' = todo \ {u}
    /\ DeployDynamic(u, servers[hostname[u]].whole)
    /\ UNCHANGED <<maintenance, inspector, extra, cmd, seen, fixing, servers, exit, troubles, crashes>>

EndDeploy ==
    /\ cmd = "deploy" /\ todo = {}
    /\ Quit(IF errors THEN "failed" ELSE "ok")
    /\ UNCHANGED <<conductor, inspector, extra, troubles, crashes>>

\* A command is killed, or one of its calls fails and it dies of that.
Crash ==
    /\ cmd # "idle" /\ crashes < MaxCrashes /\ crashes' = crashes + 1
    /\ Quit("crashed")
    /\ UNCHANGED <<conductor, inspector, extra, troubles>>

(***************************************************************************)
(* The conductor, the inspector and the operator                           *)
(***************************************************************************)
Moves(u, from, to) ==
    /\ state[u] = from /\ state' = [state EXCEPT ![u] = to]
    /\ UNCHANGED <<inspector, extra, local, crashes>>

Cleaned(u) == Moves(u, "cleaning", "available") /\ UNCHANGED <<maintenance, troubles>>
Booted(u) == Moves(u, "deploying", "active") /\ UNCHANGED <<maintenance, troubles>>
DeployFails(u) == Moves(u, "deploying", "deploy failed") /\ Trouble /\ UNCHANGED maintenance
CleanFails(u) == /\ Moves(u, "cleaning", "clean failed") /\ Trouble
                 /\ maintenance' = [maintenance EXCEPT ![u] = TRUE]
\* The operator gives a machine back: ironic cleans it.
Undeploy(u) == /\ cmd = "idle" /\ Moves(u, "active", "cleaning")
               /\ Trouble /\ UNCHANGED maintenance
\* The operator inspects through ironic instead, it fails, and he may undo it.
InspectByHand(u) == /\ cmd = "idle" /\ Moves(u, "manageable", "inspect failed")
                    /\ Trouble /\ UNCHANGED maintenance
ManageByHand(u) == /\ cmd = "idle" /\ Moves(u, "inspect failed", "manageable")
                   /\ UNCHANGED <<maintenance, troubles>>

Inspected(u) ==
    /\ status[u] = "running"
    /\ \/ /\ status' = [status EXCEPT ![u] = "finished"]
          /\ data' = [data EXCEPT ![u] = "full"] /\ UNCHANGED troubles
       \/ /\ status' = [status EXCEPT ![u] = "finished"]
          /\ data' = [data EXCEPT ![u] = "partial"] /\ Trouble
       \/ status' = [status EXCEPT ![u] = "error"] /\ Trouble /\ UNCHANGED data
    /\ UNCHANGED <<conductor, extra, local, crashes>>

\* enroll.py is repeated and fills what an interrupted run left out.
Reenroll ==
    /\ cmd = "idle" /\ extra # Uuids /\ extra' = Uuids
    /\ UNCHANGED <<conductor, inspector, local, troubles, crashes>>

Command ==
    \/ StartInspect \/ EndInspect
    \/ StartProvide \/ ListStatuses \/ UnsetMaintenance \/ ProvideRepaired \/ EndProvide
    \/ StartGenerate \/ WriteServers \/ EndDeploy
    \/ \E u \in Uuids : \/ Introspect(u) \/ ProvideManageable(u) \/ ManageCleanFailed(u)
                        \/ SkipOther(u) \/ Entry(u) \/ DeployNode(u)

Service == \E u \in Uuids : \/ Cleaned(u) \/ Booted(u) \/ Inspected(u)
                            \/ DeployFails(u) \/ CleanFails(u)

Operator == Reenroll \/ \E u \in Uuids : Undeploy(u) \/ InspectByHand(u) \/ ManageByHand(u)

Next == (Command \/ Service \/ Crash \/ Operator) /\ UNCHANGED hostname

Spec == Init /\ [][Next]_vars

\* The operator repeats every command as long as there is something to do, a
\* command goes on, and the services finish what they started.
FairSpec ==
    /\ Spec
    /\ SF_moving(StartInspect) /\ SF_moving(StartProvide) /\ SF_moving(StartGenerate)
    /\ SF_moving(Reenroll)
    /\ WF_moving(cmd # "idle" /\ Command)
    /\ \A u \in Uuids : WF_moving(Cleaned(u)) /\ WF_moving(Booted(u)) /\ WF_moving(Inspected(u))

(***************************************************************************)
(* Properties                                                              *)
(***************************************************************************)
\* A deployment that reports success has handed ironic every machine its
\* listing found available, although what goes wrong with an entry is only
\* logged (generate_servers.py.j2:106-108) and the listing is older than the
\* calls, unless the inspection was half done or another listed machine has
\* the same hostname and with it the entry (:66).
DeployedOnSuccess ==
    [][cmd = "deploy" /\ cmd' = "idle" /\ exit' = "ok" =>
          \A u \in Uuids : seen[u] = "available" =>
             \/ state[u] \in {"deploying", "deploy failed", "active"}
             \/ data[u] = "partial"
             \/ \E v \in Uuids \ {u} : /\ hostname[v] = hostname[u]
                                       /\ seen[v] \in {"available", "deploy failed"}]_vars

\* The inspector and the conductor never drive the power of a machine at the
\* same time (provide.py:54-63, 73-96 acts on statuses it listed earlier).
NeverCleanedWhileInspected ==
    \A u \in Uuids : status[u] = "running" => state[u] \in {"manageable", "inspect failed"}

\* The listings the commands act on stay good enough: ironic refuses a call
\* only for a node that an interrupted repair left manageable and in
\* maintenance, and deploy-dynamic fails only on half an entry
\* (provide.py:75-96; generate_servers.py.j2:56-59).
CallsAccepted ==
    [][/\ exit' = "refused" /\ exit # "refused" =>
            crashes > 0 /\ \E u \in Uuids : state[u] = "manageable" /\ maintenance[u]
       /\ cmd = "deploy" /\ errors' /\ ~errors => \E u \in Uuids : data[u] = "partial"]_vars

\* Repeating the commands deploys every machine whose inspection is complete,
\* past failed cleanings and deployments, as long as no command is cut short
\* and no other machine has the same hostname.
InspectedGetDeployed ==
    \A u \in Uuids :
        <>[](/\ data[u] = "full" /\ state[u] # "inspect failed" /\ crashes = 0
             /\ \A v \in Uuids \ {u} : hostname[v] # hostname[u])
        => <>[](state[u] = "active")
=============================================================================
