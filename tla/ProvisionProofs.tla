--------------------------- MODULE ProvisionProofs ---------------------------
(***************************************************************************)
(* Proofs about Provision, for any set of nodes, also ones that share a    *)
(* hostname, and any number of failures and of commands cut short.         *)
(***************************************************************************)
EXTENDS Provision, TLAPS

\* The nodes a command still has to provide, to list or to deploy are not
\* being inspected, and a node that is being repaired is one of them.
TodoInv ==
    /\ cmd \in {"provide", "generate", "deploy"} => \A u \in todo : status[u] # "running"
    /\ fixing # None => cmd = "provide" /\ fixing \in todo

\* An entry of servers.yml is of a node with that hostname, and no inspection
\* of the node is running.
ServersInv ==
    /\ \A n \in Names : servers[n] # None =>
          /\ cmd \in {"generate", "deploy"}
          /\ hostname[servers[n].uuid] = n
          /\ status[servers[n].uuid] # "running"
    /\ cmd = "deploy" => \A u \in todo : servers[hostname[u]] # None
                                         /\ servers[hostname[u]].uuid = u

\* A node is provided, and leaves the inspector's states, only with data.
DataInv ==
    /\ \A u \in Uuids : status[u] = "finished" => data[u] # "none"
    /\ cmd = "provide" => \A u \in todo : data[u] # "none"
    /\ \A u \in Uuids : state[u] \notin {"manageable", "inspect failed"} => data[u] # "none"

SafeInv == TodoInv /\ ServersInv /\ DataInv /\ NeverCleanedWhileInspected

LEMMA NameFacts == ASSUME TypeOK PROVE \A u \in Uuids : hostname[u] \in Names
BY DEF TypeOK, Names

LEMMA QuitTypes ==
    ASSUME NEW how \in {"ok", "failed", "refused", "crashed"}, Quit(how)
    PROVE  /\ cmd' = "idle" /\ exit' \in {"ok", "failed", "refused", "crashed"}
           /\ todo' = {} /\ fixing' = None /\ errors' \in BOOLEAN
           /\ seen' \in [Uuids -> States \cup {None}]
           /\ servers' \in [Names -> {None} \cup [uuid : Uuids, whole : BOOLEAN]]
           /\ \A n \in Names : servers'[n] = None
<1>1. errors' \in BOOLEAN
  BY DEF Quit
<1>2. /\ servers' \in [Names -> {None} \cup [uuid : Uuids, whole : BOOLEAN]]
      /\ \A n \in Names : servers'[n] = None
  BY DEF Quit, NoServers
<1> QED BY <1>1, <1>2 DEF Quit, NothingSeen

LEMMA InitTypeOK == Init => TypeOK
<1> SUFFICES ASSUME Init PROVE TypeOK
  OBVIOUS
<1>1. errors \in BOOLEAN /\ maintenance \in [Uuids -> BOOLEAN]
  BY DEF Init
<1>2. servers \in [Names -> {None} \cup [uuid : Uuids, whole : BOOLEAN]]
  BY DEF Init, NoServers
<1>3. troubles \in 0..MaxTroubles /\ crashes \in 0..MaxCrashes
  BY ProvisionAssumption DEF Init
<1> QED BY <1>1, <1>2, <1>3 DEF Init, TypeOK, States, NothingSeen

LEMMA NextTypeOK == TypeOK /\ [Next]_vars => TypeOK'
<1> SUFFICES ASSUME TypeOK, [Next]_vars PROVE TypeOK'
  OBVIOUS
<1> USE DEF conductor, inspector
<1>0. UNCHANGED hostname
  BY DEF Next, vars
<1>1. ASSUME Trouble PROVE troubles' \in 0..MaxTroubles
  BY <1>1, ProvisionAssumption DEF Trouble, TypeOK
<1>2. CASE StartInspect
  <2>1. troubles' \in 0..MaxTroubles
    BY <1>1, <1>2 DEF StartInspect, TypeOK
  <2>2. seen' \in [Uuids -> States \cup {None}]
    BY <1>2 DEF StartInspect, TypeOK
  <2> QED BY <1>0, <1>2, <2>1, <2>2 DEF StartInspect, TypeOK
<1>3. ASSUME NEW u \in Uuids, Introspect(u) PROVE TypeOK'
  <2>1. CASE Quit("refused")
    <3>1. UNCHANGED <<state, maintenance, status, data, extra, troubles, crashes>>
      BY <1>3, <2>1 DEF Introspect, Refusal, Quit
    <3> QED BY <1>0, <2>1, <3>1, QuitTypes DEF TypeOK
  <2>2. CASE ~Quit("refused")
    BY <1>0, <1>3, <2>2 DEF Introspect, Refusal, TypeOK
  <2> QED BY <2>1, <2>2
<1>4. CASE EndInspect \/ EndProvide \/ EndDeploy \/ Crash
  <2>1. PICK how \in {"ok", "failed", "crashed"} : Quit(how)
    <3> DEFINE h == IF errors THEN "failed" ELSE "ok"
    <3>1. h \in {"ok", "failed", "crashed"}
      OBVIOUS
    <3>2. CASE EndProvide \/ EndDeploy
      <4>1. Quit(h)
        BY <3>2 DEF EndProvide, EndDeploy
      <4> QED BY <3>1, <4>1
    <3>3. CASE EndInspect \/ Crash
      BY <3>3 DEF EndInspect, Crash
    <3> QED BY <1>4, <3>2, <3>3
  <2>2. crashes' \in 0..MaxCrashes
    BY <1>4, ProvisionAssumption DEF EndInspect, EndProvide, EndDeploy, Crash, TypeOK
  <2>3. UNCHANGED <<state, maintenance, status, data, extra, troubles>>
    BY <1>4 DEF EndInspect, EndProvide, EndDeploy, Crash
  <2> QED BY <1>0, <2>1, <2>2, <2>3, QuitTypes DEF TypeOK
<1>5. CASE StartProvide
  <2>1. seen' \in [Uuids -> States \cup {None}]
    BY <1>5 DEF StartProvide, TypeOK
  <2> QED BY <1>0, <1>5, <2>1 DEF StartProvide, TypeOK
<1>6. CASE ListStatuses
  <2>1. errors' \in BOOLEAN
    BY <1>6 DEF ListStatuses
  <2> QED BY <1>0, <1>6, <2>1 DEF ListStatuses, TypeOK
<1>7. CASE UnsetMaintenance
  BY <1>0, <1>7 DEF UnsetMaintenance, local, TypeOK
<1>8. ASSUME NEW u \in Uuids, Provide(u), UNCHANGED <<inspector, extra, troubles, crashes>>
      PROVE  TypeOK'
  <2>1. CASE Refusal
    <3>1. UNCHANGED <<state, maintenance>> /\ Quit("refused")
      BY <2>1 DEF Refusal
    <3> QED BY <1>0, <1>8, <3>1, QuitTypes DEF TypeOK
  <2>2. CASE ~Refusal
    BY <1>0, <1>8, <2>2 DEF Provide, TypeOK, States
  <2> QED BY <2>1, <2>2
<1>9. ASSUME NEW u \in Uuids, ManageCleanFailed(u) PROVE TypeOK'
  <2>1. CASE Quit("refused")
    <3>1. UNCHANGED <<state, maintenance>>
      BY <1>9, <2>1 DEF ManageCleanFailed, Refusal, Quit
    <3>2. UNCHANGED <<status, data, extra, troubles, crashes>>
      BY <1>9 DEF ManageCleanFailed
    <3> QED BY <1>0, <2>1, <3>1, <3>2, QuitTypes DEF TypeOK
  <2>2. CASE ~Quit("refused")
    BY <1>0, <1>9, <2>2 DEF ManageCleanFailed, Refusal, TypeOK, States
  <2> QED BY <2>1, <2>2
<1>10. CASE ProvideRepaired
  <2>1. fixing \in Uuids
    BY <1>10 DEF ProvideRepaired, TypeOK
  <2> QED BY <1>8, <1>10, <2>1 DEF ProvideRepaired
<1>11. ASSUME NEW u \in Uuids, SkipOther(u) PROVE TypeOK'
  BY <1>0, <1>11 DEF SkipOther, TypeOK
<1>12. CASE StartGenerate
  <2>1. CASE Quit("failed")
    <3>1. UNCHANGED <<state, maintenance, status, data, extra, troubles, crashes>>
      BY <1>12 DEF StartGenerate
    <3> QED BY <1>0, <2>1, <3>1, QuitTypes DEF TypeOK
  <2>2. CASE ~Quit("failed")
    <3>1. seen' \in [Uuids -> States \cup {None}]
      BY <1>12, <2>2 DEF StartGenerate, TypeOK
    <3> QED BY <1>0, <1>12, <2>2, <3>1 DEF StartGenerate, TypeOK
  <2> QED BY <2>1, <2>2
<1>13. ASSUME NEW u \in Uuids, Entry(u) PROVE TypeOK'
  <2>1. servers' \in [Names -> {None} \cup [uuid : Uuids, whole : BOOLEAN]]
    <3> DEFINE e == [uuid |-> u, whole |-> data[u] = "full"]
    <3>1. e \in [uuid : Uuids, whole : BOOLEAN]
      OBVIOUS
    <3>2. servers' = servers \/ servers' = [servers EXCEPT ![hostname[u]] = e]
      BY <1>13 DEF Entry
    <3> HIDE DEF e
    <3> QED BY <3>1, <3>2 DEF TypeOK
  <2> QED BY <1>0, <1>13, <2>1 DEF Entry, TypeOK
<1>14. CASE WriteServers
  <2>1. todo' \subseteq Uuids
    <3>1. \A n \in Names : servers[n] # None => servers[n].uuid \in Uuids
      BY DEF TypeOK
    <3> QED BY <1>14, <3>1 DEF WriteServers
  <2> QED BY <1>0, <1>14, <2>1 DEF WriteServers, TypeOK
<1>15. ASSUME NEW u \in Uuids, DeployNode(u) PROVE TypeOK'
  <2>1. errors' \in BOOLEAN /\ state' \in [Uuids -> States]
    BY <1>15 DEF DeployNode, DeployDynamic, TypeOK, States
  <2> QED BY <1>0, <1>15, <2>1 DEF DeployNode, TypeOK
<1>16. CASE Service \/ (\E u \in Uuids : Undeploy(u) \/ InspectByHand(u) \/ ManageByHand(u))
  <2>1. UNCHANGED <<local, extra, crashes>>
    BY <1>16 DEF Service, Cleaned, Booted, DeployFails, CleanFails, Undeploy, InspectByHand,
                 ManageByHand, Moves, Inspected
  <2>2. troubles' \in 0..MaxTroubles
    BY <1>1, <1>16 DEF Service, Cleaned, Booted, DeployFails, CleanFails, Undeploy,
                       InspectByHand, ManageByHand, Inspected, TypeOK
  <2>3. state' \in [Uuids -> States]
    BY <1>16 DEF Service, Cleaned, Booted, DeployFails, CleanFails, Undeploy, InspectByHand,
                 ManageByHand, Moves, Inspected, TypeOK, States
  <2>4. maintenance' \in [Uuids -> BOOLEAN]
    <3>1. maintenance' = maintenance
          \/ \E u \in Uuids : maintenance' = [maintenance EXCEPT ![u] = TRUE]
      BY <1>16 DEF Service, Cleaned, Booted, DeployFails, CleanFails, Undeploy, InspectByHand,
                   ManageByHand, Inspected
    <3> QED BY <3>1 DEF TypeOK
  <2>5. /\ status' \in [Uuids -> {"none", "running", "finished", "error"}]
        /\ data' \in [Uuids -> {"none", "partial", "full"}]
    <3>1. CASE UNCHANGED <<status, data>>
      BY <3>1 DEF TypeOK
    <3>2. ASSUME NEW u \in Uuids, Inspected(u)
          PROVE  /\ status' \in [Uuids -> {"none", "running", "finished", "error"}]
                 /\ data' \in [Uuids -> {"none", "partial", "full"}]
      BY <3>2 DEF Inspected, TypeOK
    <3>3. UNCHANGED <<status, data>> \/ \E u \in Uuids : Inspected(u)
      BY <1>16 DEF Service, Cleaned, Booted, DeployFails, CleanFails, Undeploy, InspectByHand,
                   ManageByHand, Moves
    <3> QED BY <3>1, <3>2, <3>3
  <2> QED BY <1>0, <2>1, <2>2, <2>3, <2>4, <2>5 DEF local, TypeOK
<1>17. CASE Reenroll
  BY <1>0, <1>17 DEF Reenroll, local, TypeOK
<1>18. CASE UNCHANGED vars
  BY <1>18 DEF vars, moving, local, TypeOK
<1>19. ASSUME NEW u \in Uuids, ProvideManageable(u) PROVE TypeOK'
  BY <1>8, <1>19 DEF ProvideManageable
<1> QED
  BY <1>2, <1>3, <1>4, <1>5, <1>6, <1>7, <1>9, <1>10, <1>11, <1>12, <1>13, <1>14, <1>15,
     <1>16, <1>17, <1>18, <1>19 DEF Next, Command, Operator

\* Type correctness: what is listed, repaired or entered is a node of the site.
THEOREM ProvisionTypeOK == Spec => []TypeOK
BY InitTypeOK, NextTypeOK, PTL DEF Spec

LEMMA InitSafeInv == Init => SafeInv
<1> SUFFICES ASSUME Init PROVE SafeInv
  OBVIOUS
<1>1. \A n \in Names : servers[n] = None
  BY DEF Init, NoServers
<1>2. \A u \in Uuids : state[u] = "manageable"
  BY DEF Init
<1> QED
  BY <1>1, <1>2 DEF Init, SafeInv, TodoInv, ServersInv, NeverCleanedWhileInspected,
     DataInv

\* A command that ends forgets its lists.
LEMMA QuitSafeInv ==
    ASSUME SafeInv, NEW how \in {"ok", "failed", "refused", "crashed"}, Quit(how),
           UNCHANGED <<state, status, data>>
    PROVE  SafeInv'
<1>1. cmd' = "idle" /\ fixing' = None /\ \A n \in Names : servers'[n] = None
  BY QuitTypes
<1> QED
  BY <1>1 DEF SafeInv, TodoInv, ServersInv, NeverCleanedWhileInspected,
     DataInv

LEMMA FrameSafeInv ==
    ASSUME SafeInv, UNCHANGED <<hostname, state, status, data, cmd, todo, fixing, servers>>
    PROVE  SafeInv'
BY DEF SafeInv, TodoInv, ServersInv, NeverCleanedWhileInspected, DataInv

LEMMA InspectSafeInv ==
    ASSUME TypeOK, SafeInv, UNCHANGED hostname,
           StartInspect \/ EndInspect \/ \E u \in Uuids : Introspect(u)
    PROVE  SafeInv'
<1> USE DEF conductor, inspector
<1>1. CASE StartInspect
  <2>1. /\ cmd = "idle" /\ cmd' = "inspect" /\ fixing' = fixing
        /\ UNCHANGED <<state, status, data, servers>>
    BY <1>1 DEF StartInspect
  <2> QED
    BY <2>1 DEF SafeInv, TodoInv, ServersInv, NeverCleanedWhileInspected,
       DataInv
<1>2. CASE EndInspect
  BY <1>2, QuitSafeInv DEF EndInspect
<1>3. ASSUME NEW u \in Uuids, Introspect(u) PROVE SafeInv'
  <2>1. CASE Refusal /\ UNCHANGED status
    BY <1>3, <2>1, QuitSafeInv DEF Introspect, Refusal
  <2>2. CASE ~(Refusal /\ UNCHANGED status)
    <3>1. /\ cmd = "inspect" /\ state[u] \in {"manageable", "inspect failed"}
          /\ status' = [status EXCEPT ![u] = "running"]
          /\ UNCHANGED <<state, data, cmd, fixing, servers>>
      BY <1>3, <2>2 DEF Introspect, Accepts
    <3> QED
      BY <3>1 DEF TypeOK, SafeInv, TodoInv, ServersInv, NeverCleanedWhileInspected,
         DataInv
  <2> QED BY <2>1, <2>2
<1> QED BY <1>1, <1>2, <1>3

\* A node is only ever cleaned after its inspection was seen to be finished.
LEMMA CleanSafeInv ==
    ASSUME TypeOK, SafeInv, UNCHANGED hostname, NEW u \in todo, cmd = "provide", Provide(u),
           UNCHANGED <<status, data>>
    PROVE  SafeInv'
<1> USE DEF conductor
<1>1. CASE Refusal
  BY <1>1, QuitSafeInv DEF Refusal
<1>2. CASE ~Refusal
  <2>1. /\ state' = [state EXCEPT ![u] = "cleaning"] /\ todo' = todo \ {u} /\ fixing' = None
        /\ UNCHANGED <<cmd, servers>>
    BY <1>2 DEF Provide
  <2>2. u \in Uuids /\ status[u] # "running"
    BY DEF TypeOK, SafeInv, TodoInv
  <2> QED
    BY <2>1, <2>2 DEF TypeOK, SafeInv, TodoInv, ServersInv, NeverCleanedWhileInspected,
       DataInv
<1> QED BY <1>1, <1>2

LEMMA ProvideSafeInv ==
    ASSUME TypeOK, SafeInv, UNCHANGED hostname,
           \/ StartProvide \/ ListStatuses \/ UnsetMaintenance \/ ProvideRepaired \/ EndProvide
           \/ \E u \in Uuids : ProvideManageable(u) \/ ManageCleanFailed(u) \/ SkipOther(u)
    PROVE  SafeInv'
<1> USE DEF conductor, inspector
<1>1. CASE StartProvide \/ ListStatuses
  <2>1. /\ cmd \in {"idle", "snapshot"} /\ cmd' \in {"snapshot", "provide"} /\ fixing' = fixing
        /\ cmd' = "provide" => todo' = {u \in Uuids : status[u] = "finished"}
        /\ UNCHANGED <<state, status, data, servers>>
    BY <1>1 DEF StartProvide, ListStatuses
  <2> QED
    BY <2>1 DEF SafeInv, TodoInv, ServersInv, NeverCleanedWhileInspected,
       DataInv
<1>2. CASE UnsetMaintenance
  BY <1>2, FrameSafeInv DEF UnsetMaintenance, local
<1>3. CASE ProvideRepaired
  <2>1. fixing \in todo /\ cmd = "provide" /\ Provide(fixing) /\ UNCHANGED <<status, data>>
    BY <1>3 DEF ProvideRepaired, SafeInv, TodoInv
  <2> QED BY <2>1, CleanSafeInv
<1>4. CASE EndProvide
  <2>1. Quit(IF errors THEN "failed" ELSE "ok") /\ UNCHANGED <<state, status, data>>
    BY <1>4 DEF EndProvide
  <2> QED BY <2>1, QuitSafeInv
<1>5. ASSUME NEW u \in Uuids, ProvideManageable(u) PROVE SafeInv'
  BY <1>5, CleanSafeInv DEF ProvideManageable
<1>6. ASSUME NEW u \in Uuids, ManageCleanFailed(u) PROVE SafeInv'
  <2>1. CASE Refusal
    BY <1>6, <2>1, QuitSafeInv DEF ManageCleanFailed, Refusal
  <2>2. CASE ~Refusal
    <3>1. /\ cmd = "provide" /\ u \in todo /\ state' = [state EXCEPT ![u] = "manageable"]
          /\ fixing' = u /\ UNCHANGED <<status, data, cmd, todo, servers>>
      BY <1>6, <2>2 DEF ManageCleanFailed
    <3> QED
      BY <3>1 DEF TypeOK, SafeInv, TodoInv, ServersInv, NeverCleanedWhileInspected,
         DataInv
  <2> QED BY <2>1, <2>2
<1>7. ASSUME NEW u \in Uuids, SkipOther(u) PROVE SafeInv'
  <2>1. /\ fixing = None /\ fixing' = None /\ todo' = todo \ {u} /\ cmd = "provide"
        /\ UNCHANGED <<state, status, data, cmd, servers>>
    BY <1>7 DEF SkipOther
  <2> QED
    BY <2>1 DEF SafeInv, TodoInv, ServersInv, NeverCleanedWhileInspected,
       DataInv
<1> QED BY <1>1, <1>2, <1>3, <1>4, <1>5, <1>6, <1>7

LEMMA DeploySafeInv ==
    ASSUME TypeOK, SafeInv, UNCHANGED hostname,
           \/ StartGenerate \/ WriteServers \/ EndDeploy
           \/ \E u \in Uuids : Entry(u) \/ DeployNode(u)
    PROVE  SafeInv'
<1> USE DEF conductor, inspector
<1>1. CASE StartGenerate
  <2>1. CASE Quit("failed")
    BY <1>1, <2>1, QuitSafeInv DEF StartGenerate
  <2>2. CASE ~Quit("failed")
    <3>1. /\ cmd = "idle" /\ cmd' = "generate" /\ fixing' = fixing
          /\ todo' = {u \in Uuids : state[u] \in {"available", "deploy failed"}}
          /\ UNCHANGED <<state, status, data, servers>>
      BY <1>1, <2>2 DEF StartGenerate
    <3> QED
      BY <3>1 DEF SafeInv, TodoInv, ServersInv, NeverCleanedWhileInspected,
         DataInv
  <2> QED BY <2>1, <2>2
<1>2. ASSUME NEW u \in Uuids, Entry(u) PROVE SafeInv'
  <2> DEFINE e == [uuid |-> u, whole |-> data[u] = "full"]
  <2>1. /\ cmd = "generate" /\ cmd' = "generate" /\ fixing' = fixing /\ todo' = todo \ {u}
        /\ servers' = servers \/ servers' = [servers EXCEPT ![hostname[u]] = e]
        /\ UNCHANGED <<state, status, data>>
    BY <1>2 DEF Entry
  <2>2. status[u] # "running" /\ hostname[u] \in Names
    BY <1>2, NameFacts DEF Entry, SafeInv, TodoInv
  <2>3. e.uuid = u
    OBVIOUS
  <2> HIDE DEF e
  <2>4. \A n \in Names : servers'[n] = servers[n] \/ (n = hostname[u] /\ servers'[n] = e)
    BY <2>1 DEF TypeOK
  <2>5. ServersInv'
    BY <2>1, <2>2, <2>3, <2>4 DEF SafeInv, ServersInv
  <2> QED
    BY <2>1, <2>5 DEF SafeInv, TodoInv, NeverCleanedWhileInspected, DataInv
<1>3. CASE WriteServers
  <2>1. /\ cmd = "generate" /\ cmd' = "deploy" /\ fixing' = fixing
        /\ todo' = {servers[n].uuid : n \in {m \in Names : servers[m] # None}}
        /\ UNCHANGED <<state, status, data, servers>>
    BY <1>3 DEF WriteServers
  <2>2. ASSUME NEW u \in todo'
        PROVE  status[u] # "running" /\ servers[hostname[u]] # None /\ servers[hostname[u]].uuid = u
    <3>1. PICK n \in Names : servers[n] # None /\ u = servers[n].uuid
      BY <2>1
    <3>2. hostname[u] = n /\ status[u] # "running"
      BY <3>1 DEF SafeInv, ServersInv
    <3> QED BY <3>1, <3>2
  <2>3. ServersInv'
    BY <2>1, <2>2 DEF SafeInv, ServersInv
  <2>4. TodoInv'
    BY <2>1, <2>2 DEF SafeInv, TodoInv
  <2> QED
    BY <2>1, <2>3, <2>4 DEF SafeInv, NeverCleanedWhileInspected, DataInv
<1>4. ASSUME NEW u \in Uuids, DeployNode(u) PROVE SafeInv'
  <2>1. /\ cmd = "deploy" /\ u \in todo /\ todo' = todo \ {u}
        /\ UNCHANGED <<status, data, cmd, fixing, servers>>
    BY <1>4 DEF DeployNode
  <2>2. UNCHANGED state \/ state' = [state EXCEPT ![u] = "deploying"]
    BY <1>4 DEF DeployNode, DeployDynamic
  <2>3. status[u] # "running"
    BY <2>1 DEF SafeInv, TodoInv
  <2>4. data[u] # "none" \/ UNCHANGED state
    BY <1>4 DEF DeployNode, DeployDynamic, Accepts, SafeInv, DataInv
  <2>5. TodoInv' /\ ServersInv'
    BY <2>1 DEF SafeInv, TodoInv, ServersInv
  <2>6. NeverCleanedWhileInspected' /\ DataInv'
    BY <2>1, <2>2, <2>3, <2>4 DEF TypeOK, SafeInv, NeverCleanedWhileInspected, DataInv
  <2> QED BY <2>5, <2>6 DEF SafeInv
<1>5. CASE EndDeploy
  <2>1. Quit(IF errors THEN "failed" ELSE "ok") /\ UNCHANGED <<state, status, data>>
    BY <1>5 DEF EndDeploy
  <2> QED BY <2>1, QuitSafeInv
<1> QED BY <1>1, <1>2, <1>3, <1>4, <1>5

\* The conductor moves only nodes that are not inspected, and an inspection
\* that ends replaces the data of a node that no list names.
LEMMA ServiceSafeInv ==
    ASSUME TypeOK, SafeInv, UNCHANGED hostname, Service \/ Operator
    PROVE  SafeInv'
<1> USE DEF conductor, inspector, local
<1>1. ASSUME NEW u \in Uuids, NEW from \in States, NEW to \in States, Moves(u, from, to),
             <<from, to>> \in {<<"cleaning", "available">>, <<"cleaning", "clean failed">>,
                <<"deploying", "active">>, <<"deploying", "deploy failed">>,
                <<"active", "cleaning">>, <<"manageable", "inspect failed">>,
                <<"inspect failed", "manageable">>}
      PROVE  SafeInv'
  <2>1. /\ state[u] = from /\ state' = [state EXCEPT ![u] = to]
        /\ UNCHANGED <<status, data, cmd, todo, fixing, servers>>
    BY <1>1 DEF Moves
  <2>2. TodoInv' /\ ServersInv'
    BY <2>1 DEF SafeInv, TodoInv, ServersInv
  <2>3. NeverCleanedWhileInspected'
    BY <1>1, <2>1 DEF TypeOK, SafeInv, NeverCleanedWhileInspected
  <2>4. DataInv'
    BY <1>1, <2>1 DEF TypeOK, SafeInv, DataInv
  <2> QED BY <2>2, <2>3, <2>4 DEF SafeInv
<1>2. ASSUME NEW u \in Uuids, Cleaned(u) \/ Booted(u) \/ DeployFails(u) PROVE SafeInv'
  BY <1>1, <1>2 DEF Cleaned, Booted, DeployFails, States
<1>3. ASSUME NEW u \in Uuids, CleanFails(u) \/ Undeploy(u) \/ InspectByHand(u) \/ ManageByHand(u)
      PROVE  SafeInv'
  BY <1>1, <1>3 DEF CleanFails, Undeploy, InspectByHand, ManageByHand, States
<1>4. ASSUME NEW u \in Uuids, Inspected(u) PROVE SafeInv'
  <2>1. /\ status[u] = "running" /\ UNCHANGED <<state, cmd, todo, fixing, servers>>
        /\ \E to \in {"finished", "error"} : status' = [status EXCEPT ![u] = to]
        /\ \A v \in Uuids \ {u} : data'[v] = data[v]
    BY <1>4 DEF Inspected, TypeOK
  <2>2. state[u] \in {"manageable", "inspect failed"}
    BY <2>1 DEF SafeInv, NeverCleanedWhileInspected
  <2>3. \A v \in Uuids : status[v] # "running" => status'[v] # "running" /\ data'[v] = data[v]
    BY <2>1 DEF TypeOK
  <2>4. \A n \in Names : servers[n] # None => servers[n].uuid \in Uuids
    BY DEF TypeOK
  <2>5. TodoInv' /\ ServersInv'
    BY <2>1, <2>3, <2>4 DEF TypeOK, SafeInv, TodoInv, ServersInv
  <2>6. NeverCleanedWhileInspected'
    BY <2>1, <2>3 DEF SafeInv, NeverCleanedWhileInspected
  <2>7. DataInv'
    <3>1. /\ data'[u] # "none" \/ (status'[u] = "error" /\ data'[u] = data[u])
          /\ \A v \in Uuids \ {u} : status'[v] = status[v]
      BY <1>4 DEF Inspected, TypeOK
    <3>2. cmd = "provide" => u \notin todo
      BY <2>1 DEF SafeInv, TodoInv
    <3> QED BY <2>1, <2>2, <3>1, <3>2 DEF TypeOK, SafeInv, DataInv
  <2> QED BY <2>5, <2>6, <2>7 DEF SafeInv
<1>5. CASE Reenroll
  BY <1>5, FrameSafeInv DEF Reenroll
<1> QED BY <1>2, <1>3, <1>4, <1>5 DEF Service, Operator

LEMMA NextSafeInv == TypeOK /\ SafeInv /\ [Next]_vars => SafeInv'
<1> SUFFICES ASSUME TypeOK, SafeInv, [Next]_vars PROVE SafeInv'
  OBVIOUS
<1>1. UNCHANGED hostname
  BY DEF Next, vars
<1>2. CASE Command
  BY <1>1, <1>2, InspectSafeInv, ProvideSafeInv, DeploySafeInv DEF Command
<1>3. CASE Service \/ Operator
  BY <1>1, <1>3, ServiceSafeInv
<1>4. CASE Crash
  BY <1>4, QuitSafeInv DEF Crash, conductor, inspector
<1>5. CASE UNCHANGED vars
  BY <1>5, FrameSafeInv DEF vars, moving, conductor, inspector, local
<1> QED BY <1>2, <1>3, <1>4, <1>5 DEF Next

LEMMA SpecSafeInv == Spec => []SafeInv
<1>1. Init => SafeInv
  BY InitSafeInv
<1>2. TypeOK /\ SafeInv /\ [Next]_vars => SafeInv'
  BY NextSafeInv
<1> QED BY <1>1, <1>2, ProvisionTypeOK, PTL DEF Spec

\* The inspector and the conductor never drive the power of one machine at the
\* same time (provide.py:54-63, 73-96).
THEOREM ProvisionOneDriver == Spec => []NeverCleanedWhileInspected
<1>1. SafeInv => NeverCleanedWhileInspected
  BY DEF SafeInv
<1> QED BY <1>1, SpecSafeInv, PTL

(***************************************************************************)
(* The listings stay good enough.                                          *)
(***************************************************************************)
\* A node that a command still has to do is in the state it was listed in,
\* and the node under repair is manageable.
SeenInv ==
    /\ cmd = "inspect" => \A u \in todo : state[u] \in {"manageable", "inspect failed"}
    /\ cmd \in {"snapshot", "provide"} => \A u \in Uuids :
          seen[u] \in {"manageable", "clean failed"} /\ fixing # u
            /\ (cmd = "provide" => u \in todo)
          => state[u] = seen[u]
    /\ fixing # None => state[fixing] = "manageable"

\* What is listed or entered for a deployment can be deployed, and an entry is
\* half only of half an inspection.
DeployableInv ==
    /\ cmd \in {"generate", "deploy"} => \A u \in todo : state[u] \in {"available", "deploy failed"}
    /\ \A n \in Names : servers[n] # None =>
          /\ cmd = "generate" => state[servers[n].uuid] \in {"available", "deploy failed"}
          /\ servers[n].whole \/ data[servers[n].uuid] = "partial"

\* A node in maintenance failed to be cleaned, and then only the command that
\* repairs it, or was cut short, has made it manageable.
MaintenanceInv ==
    \A u \in Uuids : maintenance[u] =>
        /\ state[u] \in {"clean failed", "manageable", "inspect failed"}
        /\ state[u] = "clean failed" \/ fixing = u \/ crashes > 0

AcceptInv == SeenInv /\ DeployableInv /\ MaintenanceInv

\* What a step may do to a call or to an entry.
CallOK ==
    /\ exit' = "refused" /\ exit # "refused" =>
         crashes > 0 /\ \E u \in Uuids : state[u] = "manageable" /\ maintenance[u]
    /\ cmd = "deploy" /\ errors' /\ ~errors => \E u \in Uuids : data[u] = "partial"

\* A command that ends between two repairs.
LEMMA QuitAcceptInv ==
    ASSUME TypeOK, AcceptInv, NEW how \in {"ok", "failed", "refused", "crashed"}, Quit(how),
           UNCHANGED <<state, maintenance>>, crashes' = crashes \/ crashes' > 0,
           fixing = None \/ ~maintenance[fixing] \/ crashes' > 0
    PROVE  AcceptInv' /\ ~errors'
<1>1. /\ cmd' = "idle" /\ fixing' = None /\ errors' = FALSE
      /\ \A n \in Names : servers'[n] = None
  BY QuitTypes DEF Quit
<1>2. None \notin Uuids
  BY ProvisionAssumption
<1>3. ASSUME NEW u \in Uuids, maintenance[u], state[u] # "clean failed" PROVE crashes' > 0
  <2>1. fixing = u \/ crashes > 0
    BY <1>3 DEF AcceptInv, MaintenanceInv
  <2> QED BY <1>2, <1>3, <2>1
<1> QED BY <1>1, <1>3 DEF AcceptInv, SeenInv, DeployableInv, MaintenanceInv

LEMMA FrameAcceptInv ==
    ASSUME AcceptInv,
           UNCHANGED <<hostname, state, maintenance, data, cmd, seen, todo, fixing, servers,
                       crashes, exit, errors>>
    PROVE  AcceptInv' /\ CallOK
BY DEF AcceptInv, SeenInv, DeployableInv, MaintenanceInv, CallOK

LEMMA InspectAccepted ==
    ASSUME TypeOK, SafeInv, AcceptInv,
           StartInspect \/ EndInspect \/ \E u \in Uuids : Introspect(u)
    PROVE  AcceptInv' /\ CallOK
<1> USE DEF conductor, inspector
<1>1. CASE StartInspect
  <2>1. /\ cmd = "idle" /\ cmd' = "inspect"
        /\ todo' = {u \in Uuids : state[u] \in {"manageable", "inspect failed"}}
        /\ UNCHANGED <<state, maintenance, data, fixing, errors, servers, exit, crashes>>
    BY <1>1 DEF StartInspect
  <2> QED
    BY <2>1 DEF AcceptInv, SeenInv, DeployableInv, MaintenanceInv, CallOK
<1>2. CASE EndInspect
  <2>1. cmd = "inspect" /\ fixing = None
    BY <1>2 DEF EndInspect, SafeInv, TodoInv
  <2>2. Quit("ok") /\ UNCHANGED <<state, maintenance, crashes>>
    BY <1>2 DEF EndInspect, TypeOK
  <2>3. AcceptInv' /\ ~errors'
    BY <2>1, <2>2, QuitAcceptInv
  <2> QED BY <2>2, <2>3 DEF CallOK, Quit
<1>3. ASSUME NEW u \in Uuids, Introspect(u) PROVE AcceptInv' /\ CallOK
  <2>1. /\ cmd = "inspect" /\ todo' = todo \ {u}
        /\ UNCHANGED <<state, maintenance, data, cmd, seen, fixing, errors, servers, exit,
                       crashes>>
    BY <1>3 DEF Introspect, Accepts, AcceptInv, SeenInv
  <2> QED
    BY <2>1 DEF AcceptInv, SeenInv, DeployableInv, MaintenanceInv, CallOK
<1> QED BY <1>1, <1>2, <1>3

\* The only node that is refused is one in maintenance.
LEMMA ProvideAccepted ==
    ASSUME TypeOK, SafeInv, AcceptInv, NEW u \in todo, cmd = "provide", Provide(u),
           state[u] = "manageable", UNCHANGED <<data, crashes>>,
           \/ fixing = None
           \/ fixing = u /\ ~maintenance[u]
    PROVE  AcceptInv' /\ CallOK
<1> USE DEF conductor
<1>1. u \in Uuids /\ None \notin Uuids /\ crashes \in Nat
  BY ProvisionAssumption DEF TypeOK
<1>2. CASE maintenance[u]
  <2>1. Quit("refused") /\ UNCHANGED <<state, maintenance>> /\ fixing = None
    BY <1>2 DEF Provide, Refusal
  <2>2. crashes > 0
    BY <1>1, <1>2, <2>1 DEF AcceptInv, MaintenanceInv
  <2>3. AcceptInv' /\ ~errors'
    BY <1>1, <2>1, QuitAcceptInv
  <2> QED BY <1>1, <1>2, <2>2, <2>3 DEF CallOK
<1>3. CASE ~maintenance[u]
  <2>1. /\ state' = [state EXCEPT ![u] = "cleaning"] /\ todo' = todo \ {u} /\ fixing' = None
        /\ UNCHANGED <<maintenance, cmd, seen, errors, servers, exit>>
    BY <1>3 DEF Provide, Accepts
  <2>2. /\ state'[u] = "cleaning" /\ \A v \in Uuids : v # u => state'[v] = state[v]
    BY <1>1, <2>1 DEF TypeOK
  <2>3. SeenInv'
    BY <1>1, <2>1, <2>2 DEF AcceptInv, SeenInv
  <2>4. DeployableInv'
    BY <2>1 DEF AcceptInv, DeployableInv
  <2>5. MaintenanceInv'
    BY <1>1, <1>3, <2>1, <2>2 DEF AcceptInv, MaintenanceInv
  <2> QED BY <2>1, <2>3, <2>4, <2>5 DEF AcceptInv, CallOK
<1> QED BY <1>2, <1>3

LEMMA RepairAccepted ==
    ASSUME TypeOK, SafeInv, AcceptInv,
           \/ StartProvide \/ ListStatuses \/ UnsetMaintenance \/ ProvideRepaired \/ EndProvide
           \/ \E u \in Uuids : ProvideManageable(u) \/ ManageCleanFailed(u) \/ SkipOther(u)
    PROVE  AcceptInv' /\ CallOK
<1> USE DEF conductor, inspector
<1>0. None \notin Uuids
  BY ProvisionAssumption
<1>1. CASE StartProvide \/ ListStatuses
  <2>1. /\ cmd = "idle" => seen' = state
        /\ cmd = "snapshot" => seen' = seen
        /\ cmd \in {"idle", "snapshot"} /\ cmd' \in {"snapshot", "provide"}
        /\ cmd = "idle" => cmd' = "snapshot"
        /\ UNCHANGED <<state, maintenance, data, fixing, servers, exit, crashes>>
    BY <1>1 DEF StartProvide, ListStatuses
  <2> QED
    BY <2>1 DEF AcceptInv, SeenInv, DeployableInv, MaintenanceInv, CallOK
<1>2. CASE UnsetMaintenance
  <2>1. /\ cmd = "provide" /\ fixing \in Uuids
        /\ maintenance' = [maintenance EXCEPT ![fixing] = FALSE]
        /\ UNCHANGED <<state, data, cmd, seen, todo, fixing, errors, servers, exit, crashes>>
    BY <1>2 DEF UnsetMaintenance, local, TypeOK
  <2>2. \A u \in Uuids : maintenance'[u] => maintenance[u]
    BY <2>1 DEF TypeOK
  <2> QED
    BY <2>1, <2>2 DEF AcceptInv, SeenInv, DeployableInv, MaintenanceInv, CallOK
<1>3. CASE ProvideRepaired
  <2>1. /\ fixing \in todo /\ cmd = "provide" /\ Provide(fixing) /\ ~maintenance[fixing]
        /\ state[fixing] = "manageable" /\ UNCHANGED <<data, crashes>>
    BY <1>3 DEF ProvideRepaired, SafeInv, TodoInv, AcceptInv, SeenInv
  <2> QED BY <2>1, ProvideAccepted
<1>4. CASE EndProvide
  <2> DEFINE how == IF errors THEN "failed" ELSE "ok"
  <2>1. how \in {"failed", "ok"}
    OBVIOUS
  <2>2. /\ cmd = "provide" /\ fixing = None
        /\ Quit(how) /\ UNCHANGED <<state, maintenance, crashes>>
    BY <1>4 DEF EndProvide, SafeInv, TodoInv, TypeOK
  <2> HIDE DEF how
  <2>3. AcceptInv' /\ ~errors'
    BY <2>1, <2>2, QuitAcceptInv
  <2> QED BY <2>1, <2>2, <2>3 DEF CallOK, Quit
<1>5. ASSUME NEW u \in Uuids, ProvideManageable(u) PROVE AcceptInv' /\ CallOK
  <2>1. /\ u \in todo /\ cmd = "provide" /\ Provide(u) /\ fixing = None
        /\ state[u] = "manageable" /\ UNCHANGED <<data, crashes>>
    BY <1>0, <1>5 DEF ProvideManageable, AcceptInv, SeenInv
  <2> QED BY <2>1, ProvideAccepted
<1>6. ASSUME NEW u \in Uuids, ManageCleanFailed(u) PROVE AcceptInv' /\ CallOK
  <2>1. /\ cmd = "provide" /\ fixing = None /\ u \in todo
        /\ state' = [state EXCEPT ![u] = "manageable"] /\ fixing' = u
        /\ UNCHANGED <<maintenance, data, cmd, seen, todo, errors, servers, exit, crashes>>
    BY <1>0, <1>6 DEF ManageCleanFailed, Accepts, AcceptInv, SeenInv
  <2>2. /\ state'[u] = "manageable" /\ \A v \in Uuids : v # u => state'[v] = state[v]
    BY <2>1 DEF TypeOK
  <2>3. SeenInv'
    BY <1>0, <2>1, <2>2 DEF AcceptInv, SeenInv
  <2>4. DeployableInv'
    BY <2>1 DEF AcceptInv, DeployableInv
  <2>5. MaintenanceInv'
    BY <1>0, <2>1, <2>2 DEF AcceptInv, MaintenanceInv
  <2> QED BY <2>1, <2>3, <2>4, <2>5 DEF AcceptInv, CallOK
<1>7. ASSUME NEW u \in Uuids, SkipOther(u) PROVE AcceptInv' /\ CallOK
  <2>1. /\ cmd = "provide" /\ todo' = todo \ {u}
        /\ UNCHANGED <<state, maintenance, data, cmd, seen, fixing, errors, servers, exit,
                       crashes>>
    BY <1>7 DEF SkipOther
  <2> QED
    BY <2>1 DEF AcceptInv, SeenInv, DeployableInv, MaintenanceInv, CallOK
<1> QED BY <1>1, <1>2, <1>3, <1>4, <1>5, <1>6, <1>7

LEMMA DeployAccepted ==
    ASSUME TypeOK, SafeInv, AcceptInv, UNCHANGED hostname,
           \/ StartGenerate \/ WriteServers \/ EndDeploy
           \/ \E u \in Uuids : Entry(u) \/ DeployNode(u)
    PROVE  AcceptInv' /\ CallOK
<1> USE DEF conductor, inspector
<1>1. CASE StartGenerate
  <2>1. /\ cmd = "idle" /\ fixing = None
        /\ UNCHANGED <<state, maintenance, data, crashes>>
    BY <1>1 DEF StartGenerate, SafeInv, TodoInv, TypeOK
  <2>2. CASE Quit("failed")
    BY <2>1, <2>2, QuitAcceptInv DEF CallOK, Quit
  <2>3. CASE ~Quit("failed")
    <3>1. /\ cmd' = "generate" /\ UNCHANGED <<fixing, errors, servers, exit>>
          /\ todo' = {u \in Uuids : state[u] \in {"available", "deploy failed"}}
      BY <1>1, <2>3 DEF StartGenerate
    <3>2. \A n \in Names : servers[n] = None
      BY <2>1 DEF SafeInv, ServersInv
    <3> QED
      BY <2>1, <3>1, <3>2 DEF AcceptInv, SeenInv, DeployableInv, MaintenanceInv, CallOK
  <2> QED BY <2>2, <2>3
<1>2. ASSUME NEW u \in Uuids, Entry(u) PROVE AcceptInv' /\ CallOK
  <2> DEFINE e == [uuid |-> u, whole |-> data[u] = "full"]
  <2>1. /\ cmd = "generate" /\ u \in todo /\ todo' = todo \ {u}
        /\ \/ servers' = servers
           \/ servers' = [servers EXCEPT ![hostname[u]] = e] /\ data[u] # "none"
        /\ UNCHANGED <<state, maintenance, data, cmd, seen, fixing, errors, exit, crashes>>
    BY <1>2 DEF Entry
  <2>2. e.uuid = u /\ (data[u] # "none" => e.whole \/ data[u] = "partial")
    BY DEF TypeOK
  <2> HIDE DEF e
  <2>3. \A n \in Names : servers'[n] = servers[n] \/ (servers'[n] = e /\ data[u] # "none")
    BY <2>1 DEF TypeOK
  <2>4. state[u] \in {"available", "deploy failed"}
    BY <2>1 DEF AcceptInv, DeployableInv
  <2>5. DeployableInv'
    BY <2>1, <2>2, <2>3, <2>4 DEF AcceptInv, DeployableInv
  <2> QED
    BY <2>1, <2>5 DEF AcceptInv, SeenInv, MaintenanceInv, CallOK
<1>3. CASE WriteServers
  <2>1. /\ cmd = "generate" /\ cmd' = "deploy"
        /\ todo' = {servers[n].uuid : n \in {m \in Names : servers[m] # None}}
        /\ UNCHANGED <<state, maintenance, data, seen, fixing, errors, servers, exit, crashes>>
    BY <1>3 DEF WriteServers
  <2>2. \A u \in todo' : state[u] \in {"available", "deploy failed"}
    BY <2>1 DEF AcceptInv, DeployableInv
  <2> QED
    BY <2>1, <2>2 DEF AcceptInv, SeenInv, DeployableInv, MaintenanceInv, CallOK
<1>4. ASSUME NEW u \in Uuids, DeployNode(u) PROVE AcceptInv' /\ CallOK
  <2>1. /\ cmd = "deploy" /\ u \in todo /\ todo' = todo \ {u} /\ fixing = None
        /\ UNCHANGED <<maintenance, data, cmd, seen, fixing, servers, exit, crashes>>
    BY <1>4 DEF DeployNode, SafeInv, TodoInv
  <2>2. state[u] \in {"available", "deploy failed"} /\ ~maintenance[u]
    BY <2>1 DEF AcceptInv, DeployableInv, MaintenanceInv
  <2>3. servers[hostname[u]].whole \/ data[u] = "partial"
    <3>1. /\ servers[hostname[u]] # None /\ servers[hostname[u]].uuid = u
          /\ hostname[u] \in Names
      BY <2>1, NameFacts DEF SafeInv, ServersInv
    <3> QED BY <3>1 DEF AcceptInv, DeployableInv
  <2>4. \/ state' = [state EXCEPT ![u] = "deploying"] /\ UNCHANGED errors
        \/ UNCHANGED state /\ data[u] = "partial"
    BY <1>4, <2>2, <2>3 DEF DeployNode, DeployDynamic, Accepts
  <2>5. \A v \in Uuids : v # u => state'[v] = state[v]
    BY <2>4 DEF TypeOK
  <2>6. SeenInv' /\ DeployableInv'
    BY <2>1, <2>5 DEF AcceptInv, SeenInv, DeployableInv, TypeOK
  <2>7. MaintenanceInv'
    BY <2>1, <2>2, <2>5 DEF AcceptInv, MaintenanceInv
  <2>8. CallOK
    BY <2>1, <2>4 DEF CallOK
  <2> QED BY <2>6, <2>7, <2>8 DEF AcceptInv
<1>5. CASE EndDeploy
  <2> DEFINE how == IF errors THEN "failed" ELSE "ok"
  <2>1. how \in {"failed", "ok"}
    OBVIOUS
  <2>2. /\ cmd = "deploy" /\ fixing = None
        /\ Quit(how) /\ UNCHANGED <<state, maintenance, crashes>>
    BY <1>5 DEF EndDeploy, SafeInv, TodoInv, TypeOK
  <2> HIDE DEF how
  <2>3. AcceptInv' /\ ~errors'
    BY <2>1, <2>2, QuitAcceptInv
  <2> QED BY <2>1, <2>2, <2>3 DEF CallOK, Quit
<1> QED BY <1>1, <1>2, <1>3, <1>4, <1>5

\* The services leave manageable nodes, nodes that failed to be cleaned and
\* nodes that can be deployed alone, and the operator keeps his hands off
\* during a command.
LEMMA ServiceAccepted ==
    ASSUME TypeOK, SafeInv, AcceptInv, UNCHANGED hostname, Service \/ Operator
    PROVE  AcceptInv' /\ CallOK
<1> USE DEF conductor, inspector, local
<1>1. ASSUME NEW u \in Uuids, NEW from \in States, NEW to \in States, Moves(u, from, to),
             \/ <<from, to>> \in {<<"cleaning", "available">>, <<"cleaning", "clean failed">>,
                   <<"deploying", "active">>, <<"deploying", "deploy failed">>}
             \/ cmd = "idle" /\ <<from, to>> \in {<<"active", "cleaning">>,
                   <<"manageable", "inspect failed">>, <<"inspect failed", "manageable">>},
             \/ UNCHANGED maintenance
             \/ to = "clean failed" /\ maintenance' = [maintenance EXCEPT ![u] = TRUE]
      PROVE  AcceptInv' /\ CallOK
  <2>1. /\ state[u] = from /\ state' = [state EXCEPT ![u] = to]
        /\ UNCHANGED <<data, cmd, seen, todo, fixing, errors, servers, exit, crashes>>
    BY <1>1 DEF Moves
  <2>2. /\ state'[u] = to
        /\ \A v \in Uuids : v # u => state'[v] = state[v] /\ maintenance'[v] = maintenance[v]
        /\ to # "clean failed" => maintenance'[u] = maintenance[u]
    BY <1>1, <2>1 DEF TypeOK
  <2>3. \A v \in todo : v \in Uuids
    BY DEF TypeOK
  <2>4. \A n \in Names : servers[n] # None => servers[n].uuid \in Uuids
    BY DEF TypeOK
  <2>5. cmd = "idle" => fixing = None
    BY DEF SafeInv, TodoInv
  <2>6. SeenInv'
    <3>1. cmd = "inspect" => \A v \in todo : state'[v] \in {"manageable", "inspect failed"}
      BY <1>1, <2>1, <2>2, <2>3 DEF AcceptInv, SeenInv
    <3>2. ASSUME cmd \in {"snapshot", "provide"}, NEW v \in Uuids,
                 seen[v] \in {"manageable", "clean failed"}, state[v] = seen[v]
          PROVE  state'[v] = seen[v]
      BY <1>1, <2>1, <2>2, <3>2
    <3>3. ASSUME fixing # None PROVE state'[fixing] = "manageable"
      <4>1. fixing \in Uuids /\ state[fixing] = "manageable" /\ cmd # "idle"
        BY <2>5, <3>3 DEF AcceptInv, SeenInv, TypeOK
      <4> QED BY <1>1, <2>1, <2>2, <4>1
    <3> QED BY <2>1, <3>1, <3>2, <3>3 DEF AcceptInv, SeenInv
  <2>7. DeployableInv'
    BY <1>1, <2>1, <2>2, <2>3, <2>4 DEF AcceptInv, DeployableInv
  <2>8. MaintenanceInv'
    BY <1>1, <2>1, <2>2 DEF AcceptInv, MaintenanceInv
  <2> QED BY <2>1, <2>6, <2>7, <2>8 DEF AcceptInv, CallOK
<1>2. ASSUME NEW u \in Uuids, Cleaned(u) \/ Booted(u) \/ DeployFails(u)
      PROVE  AcceptInv' /\ CallOK
  BY <1>1, <1>2 DEF Cleaned, Booted, DeployFails, States
<1>3. ASSUME NEW u \in Uuids, CleanFails(u) \/ Undeploy(u) \/ InspectByHand(u) \/ ManageByHand(u)
      PROVE  AcceptInv' /\ CallOK
  BY <1>1, <1>3 DEF CleanFails, Undeploy, InspectByHand, ManageByHand, States
<1>4. ASSUME NEW u \in Uuids, Inspected(u) PROVE AcceptInv' /\ CallOK
  <2>1. /\ status[u] = "running" /\ \A v \in Uuids \ {u} : data'[v] = data[v]
        /\ UNCHANGED <<state, maintenance, cmd, seen, todo, fixing, errors, servers, exit,
                       crashes>>
    BY <1>4 DEF Inspected, TypeOK
  <2>2. \A n \in Names : servers[n] # None =>
           servers[n].uuid \in Uuids /\ status[servers[n].uuid] # "running"
    BY DEF TypeOK, SafeInv, ServersInv
  <2>3. DeployableInv'
    BY <2>1, <2>2 DEF AcceptInv, DeployableInv
  <2> QED BY <2>1, <2>3 DEF AcceptInv, SeenInv, MaintenanceInv, CallOK
<1>5. CASE Reenroll
  BY <1>5, FrameAcceptInv DEF Reenroll
<1> QED BY <1>2, <1>3, <1>4, <1>5 DEF Service, Operator

LEMMA NextAcceptInv ==
    ASSUME TypeOK, SafeInv, AcceptInv, [Next]_vars
    PROVE  AcceptInv' /\ CallOK
<1>1. UNCHANGED hostname
  BY DEF Next, vars
<1>2. CASE Command
  BY <1>1, <1>2, InspectAccepted, RepairAccepted, DeployAccepted DEF Command
<1>3. CASE Service \/ Operator
  BY <1>1, <1>3, ServiceAccepted
<1>4. CASE Crash
  <2>1. /\ Quit("crashed") /\ UNCHANGED <<state, maintenance>>
        /\ crashes' = crashes + 1 /\ crashes \in Nat
    BY <1>4, ProvisionAssumption DEF Crash, conductor, TypeOK
  <2>2. crashes' > 0
    BY <2>1
  <2>3. AcceptInv' /\ ~errors'
    BY <2>1, <2>2, QuitAcceptInv
  <2> QED BY <2>1, <2>3 DEF CallOK, Quit
<1>5. CASE UNCHANGED vars
  BY <1>5, FrameAcceptInv DEF vars, moving, conductor, inspector, local
<1> QED BY <1>2, <1>3, <1>4, <1>5 DEF Next

\* A call is refused only for a node that an interrupted repair left
\* manageable and in maintenance, and an entry is passed over only when its
\* inspection was half done, for any site and any failures.
THEOREM ProvisionCallsAccepted == Spec => CallsAccepted
<1>1. Init => AcceptInv
  <2> SUFFICES ASSUME Init PROVE AcceptInv
    OBVIOUS
  <2>1. cmd = "idle" /\ fixing = None /\ \A n \in Names : servers[n] = None
    BY DEF Init, NoServers
  <2>2. \A u \in Uuids : maintenance[u] = FALSE
    BY DEF Init
  <2> QED BY <2>1, <2>2 DEF AcceptInv, SeenInv, DeployableInv, MaintenanceInv
<1>2. TypeOK /\ SafeInv /\ AcceptInv /\ [Next]_vars => AcceptInv' /\ [CallOK]_vars
  BY NextAcceptInv
<1> QED BY <1>1, <1>2, ProvisionTypeOK, SpecSafeInv, PTL DEF Spec, CallsAccepted, CallOK

(***************************************************************************)
(* A deployment that reports success leaves no listed machine behind.      *)
(***************************************************************************)
Listed(u) == seen[u] \in {"available", "deploy failed"}
Handed(u) == state[u] \in {"deploying", "deploy failed", "active"}
Shared(u) == \E v \in Uuids \ {u} : hostname[v] = hostname[u] /\ Listed(v)
Excused(u) == data[u] = "partial" \/ Shared(u)

\* Where a node the listing found available is: still to be entered, entered,
\* or overwritten by its namesake; then still to be deployed, or handed over.
DoneInv ==
    /\ cmd \in {"generate", "deploy"} =>
          /\ \A n \in Names : servers[n] # None => Listed(servers[n].uuid)
          /\ \A u \in Uuids : seen[u] = "available" => state[u] = "available" \/ Handed(u)
    /\ cmd = "generate" =>
          /\ \A u \in todo : Listed(u)
          /\ \A u \in Uuids : seen[u] = "available" =>
                u \in todo \/ servers[hostname[u]] # None
    /\ cmd = "deploy" => \A u \in Uuids : seen[u] = "available" =>
          u \in todo \/ Handed(u) \/ errors \/ Excused(u)

DoneOK ==
    cmd = "deploy" /\ cmd' = "idle" /\ exit' = "ok" =>
        \A u \in Uuids : seen[u] = "available" => Handed(u) \/ Excused(u)

\* Outside a deployment there is nothing to keep.
LEMMA OtherDone ==
    ASSUME cmd \notin {"generate", "deploy"} \/ exit' # "ok",
           cmd' \notin {"generate", "deploy"}
    PROVE  DoneInv' /\ DoneOK
BY DEF DoneInv, DoneOK

LEMMA FrameDone ==
    ASSUME DoneInv,
           UNCHANGED <<hostname, state, data, cmd, seen, todo, errors, servers>>
    PROVE  DoneInv' /\ DoneOK
BY DEF DoneInv, DoneOK, Listed, Handed, Shared, Excused

LEMMA DeployDone ==
    ASSUME TypeOK, SafeInv, AcceptInv, DoneInv, UNCHANGED hostname,
           \/ StartGenerate \/ WriteServers \/ EndDeploy
           \/ \E u \in Uuids : Entry(u) \/ DeployNode(u)
    PROVE  DoneInv' /\ DoneOK
<1> USE DEF conductor, inspector
<1>1. CASE StartGenerate
  <2>1. CASE Quit("failed")
    BY <2>1, OtherDone DEF Quit
  <2>2. CASE ~Quit("failed")
    <3>1. /\ cmd = "idle" /\ cmd' = "generate" /\ seen' = state
          /\ todo' = {u \in Uuids : state[u] \in {"available", "deploy failed"}}
          /\ UNCHANGED <<state, servers>>
      BY <1>1, <2>2 DEF StartGenerate
    <3>2. \A n \in Names : servers[n] = None
      BY <3>1 DEF SafeInv, ServersInv
    <3> QED BY <3>1, <3>2 DEF DoneInv, DoneOK, Listed
  <2> QED BY <2>1, <2>2
<1>2. ASSUME NEW u \in Uuids, Entry(u) PROVE DoneInv' /\ DoneOK
  <2> DEFINE e == [uuid |-> u, whole |-> data[u] = "full"]
  <2>1. /\ cmd = "generate" /\ u \in todo /\ todo' = todo \ {u}
        /\ servers' = IF data[u] = "none" THEN servers
                      ELSE [servers EXCEPT ![hostname[u]] = e]
        /\ UNCHANGED <<state, data, cmd, seen, errors>>
    BY <1>2 DEF Entry
  <2>2. data[u] # "none"
    BY <2>1 DEF SafeInv, DataInv, AcceptInv, DeployableInv
  <2>3. e.uuid = u /\ e # None
    <3>1. e \in [uuid : Uuids, whole : BOOLEAN]
      OBVIOUS
    <3>2. e.uuid = u
      OBVIOUS
    <3> HIDE DEF e
    <3> QED BY <3>1, <3>2, ProvisionAssumption
  <2>4. hostname[u] \in Names /\ \A v \in Uuids : hostname[v] \in Names
    BY NameFacts
  <2> HIDE DEF e
  <2>5. /\ servers'[hostname[u]] = e
        /\ \A n \in Names : servers'[n] = servers[n] \/ servers'[n] = e
    BY <2>1, <2>2, <2>4 DEF TypeOK
  <2>6. ASSUME NEW v \in Uuids, seen[v] = "available"
        PROVE  v \in todo' \/ servers'[hostname[v]] # None
    BY <2>1, <2>3, <2>4, <2>5, <2>6 DEF DoneInv
  <2>7. Listed(u)
    BY <2>1 DEF DoneInv
  <2>8. \A n \in Names : servers'[n] # None => Listed(servers'[n].uuid)
    BY <2>1, <2>3, <2>5, <2>7 DEF DoneInv
  <2> QED BY <2>1, <2>6, <2>8 DEF DoneInv, DoneOK, Listed, Handed
<1>3. CASE WriteServers
  <2>1. /\ cmd = "generate" /\ cmd' = "deploy"
        /\ todo' = {servers[n].uuid : n \in {m \in Names : servers[m] # None}}
        /\ UNCHANGED <<state, data, seen, errors, servers>>
    BY <1>3 DEF WriteServers
  <2>2. ASSUME NEW u \in Uuids, seen[u] = "available" PROVE u \in todo' \/ Excused(u)
    <3>1. hostname[u] \in Names /\ servers[hostname[u]] # None
      BY <1>3, <2>1, <2>2, NameFacts DEF WriteServers, DoneInv
    <3> DEFINE v == servers[hostname[u]].uuid
    <3>2. v \in todo' /\ v \in Uuids /\ hostname[v] = hostname[u] /\ Listed(v)
      BY <2>1, <3>1 DEF TypeOK, SafeInv, ServersInv, DoneInv
    <3> QED BY <3>2 DEF Excused, Shared
  <2> QED BY <2>1, <2>2 DEF DoneInv, DoneOK, Listed, Handed, Shared, Excused
<1>4. ASSUME NEW u \in Uuids, DeployNode(u) PROVE DoneInv' /\ DoneOK
  <2>1. /\ cmd = "deploy" /\ u \in todo /\ todo' = todo \ {u}
        /\ UNCHANGED <<data, cmd, seen, servers>>
    BY <1>4 DEF DeployNode
  <2>2. /\ servers[hostname[u]].whole \/ data[u] = "partial"
        /\ state[u] \in {"available", "deploy failed"} /\ ~maintenance[u]
    <3>1. /\ servers[hostname[u]] # None /\ servers[hostname[u]].uuid = u
          /\ hostname[u] \in Names
      BY <2>1, NameFacts DEF SafeInv, ServersInv
    <3> QED BY <2>1, <3>1 DEF AcceptInv, DeployableInv, MaintenanceInv
  <2>3. \/ state' = [state EXCEPT ![u] = "deploying"] /\ UNCHANGED errors
        \/ /\ UNCHANGED state /\ data[u] = "partial"
           /\ errors => errors'
    BY <1>4, <2>2 DEF DeployNode, DeployDynamic, Accepts
  <2>4. /\ \A v \in Uuids : v # u => state'[v] = state[v]
        /\ state'[u] = "deploying" \/ (state'[u] = state[u] /\ data[u] = "partial")
        /\ errors => errors'
    BY <2>3 DEF TypeOK
  <2>5. ASSUME NEW v \in Uuids, seen[v] = "available"
        PROVE  /\ state'[v] = "available" \/ Handed(v)'
               /\ v \in todo' \/ Handed(v)' \/ errors' \/ Excused(v)
    BY <2>1, <2>4, <2>5 DEF DoneInv, Handed, Excused
  <2>6. \A v \in Uuids : Excused(v) => Excused(v)'
    BY <2>1 DEF Excused, Shared, Listed
  <2> QED BY <2>1, <2>5, <2>6 DEF DoneInv, DoneOK, Listed
<1>5. CASE EndDeploy
  <2>1. /\ cmd = "deploy" /\ todo = {} /\ cmd' = "idle"
        /\ exit' = IF errors THEN "failed" ELSE "ok"
    BY <1>5 DEF EndDeploy, Quit
  <2> QED BY <2>1 DEF DoneInv, DoneOK
<1> QED BY <1>1, <1>2, <1>3, <1>4, <1>5

\* The conductor moves a machine that was handed over only between the states
\* of a deployment, and no inspection of a listed one is running.
LEMMA ServiceDone ==
    ASSUME TypeOK, SafeInv, DoneInv, UNCHANGED hostname, Service \/ Operator
    PROVE  DoneInv' /\ DoneOK
<1> USE DEF conductor, inspector, local
<1>1. UNCHANGED <<cmd, seen, todo, errors, servers>>
  BY DEF Service, Operator, Cleaned, Booted, DeployFails, CleanFails, Undeploy, InspectByHand,
         ManageByHand, Moves, Inspected, Reenroll
<1>2. CASE cmd \notin {"generate", "deploy"}
  BY <1>1, <1>2, OtherDone
<1>3. CASE cmd \in {"generate", "deploy"}
  <2>1. ASSUME NEW v \in Uuids, seen[v] = "available"
        PROVE  /\ state'[v] = "available" \/ Handed(v)'
               /\ Handed(v) => Handed(v)'
               /\ data'[v] = data[v]
    <3>1. state[v] = "available" \/ Handed(v)
      BY <1>3, <2>1 DEF DoneInv
    <3>2. status[v] # "running"
      BY <3>1 DEF Handed, SafeInv, NeverCleanedWhileInspected
    <3>3. /\ state'[v] = state[v] \/ (state[v] = "deploying" /\ state'[v] \in {"active", "deploy failed"})
             \/ state[v] = "cleaning"
          /\ data'[v] = data[v]
      BY <1>3, <3>2 DEF Service, Operator, Cleaned, Booted, DeployFails, CleanFails, Undeploy,
         InspectByHand, ManageByHand, Moves, Inspected, Reenroll, TypeOK
    <3> QED BY <3>1, <3>3 DEF Handed
  <2>2. ASSUME NEW v \in Uuids, seen[v] = "available", Excused(v) PROVE Excused(v)'
    BY <1>1, <2>1, <2>2 DEF Excused, Shared, Listed
  <2> QED BY <1>1, <1>3, <2>1, <2>2 DEF DoneInv, DoneOK, Listed
<1> QED BY <1>2, <1>3

LEMMA NextDone ==
    ASSUME TypeOK, SafeInv, AcceptInv, DoneInv, [Next]_vars
    PROVE  DoneInv' /\ DoneOK
<1>1. UNCHANGED hostname
  BY DEF Next, vars
<1>2. CASE \/ StartGenerate \/ WriteServers \/ EndDeploy
           \/ \E u \in Uuids : Entry(u) \/ DeployNode(u)
  BY <1>1, <1>2, DeployDone
<1>3. CASE \/ StartInspect \/ EndInspect \/ \E u \in Uuids : Introspect(u)
           \/ StartProvide \/ ListStatuses \/ UnsetMaintenance \/ ProvideRepaired \/ EndProvide
           \/ \E u \in Uuids : ProvideManageable(u) \/ ManageCleanFailed(u) \/ SkipOther(u)
  <2>1. cmd \notin {"generate", "deploy"} /\ cmd' \notin {"generate", "deploy"}
    BY <1>3 DEF StartInspect, EndInspect, Introspect, StartProvide, ListStatuses,
       UnsetMaintenance, ProvideRepaired, EndProvide, ProvideManageable, ManageCleanFailed,
       SkipOther, Provide, Refusal, Quit, local
  <2> QED BY <2>1, OtherDone
<1>4. CASE Service \/ Operator
  BY <1>1, <1>4, ServiceDone
<1>5. CASE Crash
  BY <1>5, OtherDone DEF Crash, Quit
<1>6. CASE UNCHANGED vars
  BY <1>6, FrameDone DEF vars, moving, conductor, inspector, local
<1> QED BY <1>2, <1>3, <1>4, <1>5, <1>6 DEF Next, Command

\* A deployment that reports success has handed ironic every machine it listed
\* as available, but for half inspections and shared hostnames, for any site,
\* any failures and any commands cut short before it.
THEOREM ProvisionDeployedOnSuccess == Spec => DeployedOnSuccess
<1>1. Init => AcceptInv /\ DoneInv
  <2> SUFFICES ASSUME Init PROVE AcceptInv /\ DoneInv
    OBVIOUS
  <2>1. cmd = "idle" /\ fixing = None /\ \A n \in Names : servers[n] = None
    BY DEF Init, NoServers
  <2>2. \A u \in Uuids : maintenance[u] = FALSE
    BY DEF Init
  <2> QED BY <2>1, <2>2 DEF AcceptInv, SeenInv, DeployableInv, MaintenanceInv, DoneInv
<1>2. TypeOK /\ SafeInv /\ AcceptInv /\ DoneInv /\ [Next]_vars
        => AcceptInv' /\ DoneInv' /\ [DoneOK]_vars
  BY NextAcceptInv, NextDone
<1>3. [DoneOK]_vars => [cmd = "deploy" /\ cmd' = "idle" /\ exit' = "ok" =>
          \A u \in Uuids : seen[u] = "available" =>
             \/ state[u] \in {"deploying", "deploy failed", "active"}
             \/ data[u] = "partial"
             \/ \E v \in Uuids \ {u} : /\ hostname[v] = hostname[u]
                                       /\ seen[v] \in {"available", "deploy failed"}]_vars
  BY DEF DoneOK, Handed, Excused, Shared, Listed
<1> QED BY <1>1, <1>2, <1>3, ProvisionTypeOK, SpecSafeInv, PTL DEF Spec, DeployedOnSuccess
=============================================================================
