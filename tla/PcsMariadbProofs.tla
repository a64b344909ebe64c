-------------------------- MODULE PcsMariadbProofs ---------------------------
(***************************************************************************)
(* Proofs about PcsMariadb, for any set of hosts and any number of edits,  *)
(* of dropped or reinstalled hosts and of plays cut short.                 *)
(***************************************************************************)
EXTENDS PcsMariadb, TLAPS

\* Only stop disables, only a play that has ended has a result, and a bundle is
\* created where there was none, and disabled.
PlayInv ==
    /\ task # "idle" => exit = "none" /\ act # "none"
    /\ task \in {"disable", "disable check"} => act = "stop"
    /\ act = "stop" => task \in {"disable", "disable check", "finish", "idle"}
    /\ task = "bundle" => (existed <=> bundle # None)
    /\ task = "primitive" /\ ~existed => bundle # None /\ bundle.on = FALSE

\* What the tasks of a rebuild have established when the next one runs: the
\* bundles that are there were created by this play.
RebuildInv ==
    /\ task = "query" => bundle = None
    /\ task = "bundle" => ~existed
    /\ task \in {"primitive", "delete check", "query check", "create check",
                 "volume", "bootstrap", "enable check", "wait", "register",
                 "upgrade", "finish"} => bundle # None /\ bundle.rev = wanted
    /\ task = "query check" => check = None
    /\ task = "create check" => check = None /\ ~existed
    /\ task \in {"volume", "bootstrap", "enable check", "wait", "register",
                 "upgrade", "finish"} => check = None \/ check.rev = wanted
    /\ task \in {"wait", "register", "upgrade", "finish"} => check # None
    /\ task = "finish" /\ act = "upgrade" => schema = wanted

\* What the last tasks of any play but stop have seen of the cluster.
ServeInv ==
    /\ task \in {"wait", "register", "upgrade", "finish"} => check # None /\ check.on
    /\ task \in {"register", "upgrade", "finish"} => Running
    /\ task \in {"upgrade", "finish"} => HasData /\ registered

IInv == /\ PlayInv
        /\ Rebuilding => RebuildInv
        /\ act # "stop" => ServeInv
        /\ RebuiltMeansCurrent /\ SuccessMeansServing

LEMMA BundleFacts ==
    /\ None \notin Bundle
    /\ \A b \in Bundle : b.rev \in Rev /\ b.on \in BOOLEAN
    /\ \A b \in Bundle, to \in BOOLEAN :
          LET c == [b EXCEPT !.on = to]
          IN  c \in Bundle /\ c # None /\ c.rev = b.rev /\ c.on = to
    /\ \A r \in Rev, to \in BOOLEAN :
          LET c == [rev |-> r, on |-> to]
          IN  c \in Bundle /\ c # None /\ c.rev = r /\ c.on = to
<1>1. Bundle \subseteq [rev : Nat, on : BOOLEAN]
  BY PcsMariadbAssumption DEF Bundle, Rev
<1>2. None \notin Bundle
  BY <1>1, PcsMariadbAssumption
<1> QED BY <1>2 DEF Bundle

\* A play that has ended, and one that goes on, is well typed.
LEMMA CloseTypes ==
    ASSUME NEW how \in {"ok", "failed"}, Close(how)
    PROVE  /\ task' \in Tasks /\ play' \subseteq Hosts /\ left' \subseteq play'
           /\ existed' \in BOOLEAN /\ had' \subseteq Hosts
           /\ exit' \in {"none", "ok", "failed"}
<1>1. existed' \in BOOLEAN
  BY DEF Close
<1> QED BY <1>1 DEF Close, Tasks

LEMMA ThenTypes ==
    ASSUME TypeOK, NEW t \in Tasks, Then(t)
    PROVE  /\ task' \in Tasks /\ play' \subseteq Hosts /\ left' \subseteq play'
           /\ had' \subseteq Hosts /\ exit' \in {"none", "ok", "failed"}
           /\ act' \in {"none", "deploy", "reconfigure", "upgrade", "stop"}
BY DEF Then, TypeOK

LEMMA InitTypeOK == Init => TypeOK
<1> SUFFICES ASSUME Init PROVE TypeOK
  OBVIOUS
<1>1. existed \in BOOLEAN /\ registered \in BOOLEAN
  BY DEF Init
<1>2. wanted \in Rev /\ schema \in Rev /\ faults \in 0..MaxFaults
  BY PcsMariadbAssumption DEF Init, Rev
<1>3. volumes \subseteq Hosts /\ data \in [Hosts -> {"none", "boot", "live"}]
  BY DEF Init
<1> QED BY <1>1, <1>2, <1>3 DEF Init, TypeOK, Tasks

LEMMA NextTypeOK == TypeOK /\ [Next]_vars => TypeOK'
<1> SUFFICES ASSUME TypeOK, [Next]_vars PROVE TypeOK'
  OBVIOUS
<1> USE DEF pacemaker, storage, database
<1>1. ASSUME NEW a \in Actions, NEW hs \in SUBSET Hosts, Start(a, hs) PROVE TypeOK'
  <2>1. faults' \in 0..MaxFaults
    BY <1>1, PcsMariadbAssumption DEF Start, TypeOK
  <2>2. act' \in {"none", "deploy", "reconfigure", "upgrade", "stop"} /\ task' \in Tasks
    BY <1>1 DEF Start, Actions, Tasks
  <2>3. play' \subseteq Hosts /\ left' \subseteq play' /\ exit' = "none"
    BY <1>1 DEF Start
  <2>4. UNCHANGED <<bundle, primitive, check, volumes, data, schema, registered>>
        /\ UNCHANGED <<wanted, existed, had>>
    BY <1>1 DEF Start
  <2> QED BY <2>1, <2>2, <2>3, <2>4 DEF TypeOK
<1>2. CASE Delete \/ DeleteCheck \/ CreatePrimitive
  <2>1. CASE Delete
    BY <2>1 DEF Delete, Then, TypeOK, Tasks
  <2>2. CASE DeleteCheck
    BY <2>2 DEF DeleteCheck, Then, TypeOK, Tasks
  <2>3. CASE CreatePrimitive
    BY <2>3 DEF CreatePrimitive, Then, TypeOK, Tasks
  <2> QED BY <1>2, <2>1, <2>2, <2>3
<1>18. CASE Query \/ QueryCheck
  <2>1. existed' \in BOOLEAN
    BY <1>18 DEF Query, QueryCheck
  <2> QED BY <1>18, <2>1 DEF Query, QueryCheck, Then, TypeOK, Tasks
<1>3. CASE CreateBundle
  <2>1. bundle' \in Bundle \cup {None}
    BY <1>3, BundleFacts DEF CreateBundle, TypeOK
  <2> QED BY <1>3, <2>1 DEF CreateBundle, Then, TypeOK, Tasks
<1>4. CASE CreateCheck
  <2>1. check' \in Bundle \cup {None}
    BY <1>4, BundleFacts DEF CreateCheck, TypeOK
  <2> QED BY <1>4, <2>1 DEF CreateCheck, TypeOK, Tasks
<1>5. ASSUME NEW h \in Hosts, CreateVolume(h) \/ Bootstrap(h) PROVE TypeOK'
  <2>1. data' \in [Hosts -> {"none", "boot", "live"}]
    BY <1>5 DEF CreateVolume, Bootstrap, TypeOK
  <2> QED BY <1>5, <2>1 DEF CreateVolume, Bootstrap, TypeOK
<1>6. CASE Divide
  <2>1. existed' \in BOOLEAN
    BY <1>6 DEF Divide
  <2> QED BY <1>6, <2>1 DEF Divide, TypeOK, Tasks
<1>7. CASE EnableBundle \/ DisableBundle
  <2>1. bundle' \in Bundle \cup {None}
    <3>1. CASE Fail
      BY <3>1 DEF Fail, TypeOK
    <3>2. CASE bundle # None /\ \E to \in BOOLEAN : bundle' = [bundle EXCEPT !.on = to]
      BY <3>2, BundleFacts DEF TypeOK
    <3> QED BY <1>7, <3>1, <3>2 DEF EnableBundle, DisableBundle
  <2>2. primitive' \in {"absent", "off", "on"}
    BY <1>7 DEF EnableBundle, DisableBundle, Fail, TypeOK
  <2>3. /\ UNCHANGED <<check, volumes, data, schema, registered>>
        /\ UNCHANGED <<wanted, act, faults>>
    BY <1>7 DEF EnableBundle, DisableBundle, Fail, Then
  <2>4. Close("failed") \/ (\E t \in Tasks : Then(t) /\ UNCHANGED existed)
    BY <1>7 DEF EnableBundle, DisableBundle, Fail, Tasks
  <2> QED BY <2>1, <2>2, <2>3, <2>4, CloseTypes, ThenTypes DEF TypeOK
<1>8. CASE EnableCheck \/ DisableCheck
  <2>1. check' \in Bundle \cup {None}
    <3>1. CASE Fail
      BY <3>1 DEF Fail, TypeOK
    <3>2. CASE check # None /\ \E to \in BOOLEAN : check' = [check EXCEPT !.on = to]
      BY <3>2, BundleFacts DEF TypeOK
    <3> QED BY <1>8, <3>1, <3>2 DEF EnableCheck, DisableCheck
  <2>2. primitive' \in {"absent", "off", "on"}
    BY <1>8 DEF EnableCheck, DisableCheck, Fail, TypeOK
  <2>3. /\ UNCHANGED <<bundle, volumes, data, schema, registered>>
        /\ UNCHANGED <<wanted, act, faults>>
    BY <1>8 DEF EnableCheck, DisableCheck, Fail, Then
  <2>4. Close("failed") \/ (\E t \in Tasks : Then(t) /\ UNCHANGED existed)
    BY <1>8 DEF EnableCheck, DisableCheck, Fail, Tasks
  <2> QED BY <2>1, <2>2, <2>3, <2>4, CloseTypes, ThenTypes DEF TypeOK
<1>9. CASE Wait \/ UpgradeDatabase
  BY <1>9 DEF Wait, UpgradeDatabase, Fail, Then, Close, TypeOK, Tasks
<1>10. CASE Register
  <2>1. registered' \in BOOLEAN
    BY <1>10 DEF Register, Fail, TypeOK
  <2> QED BY <1>10, <2>1 DEF Register, Fail, Then, Close, TypeOK, Tasks
<1>11. CASE Finish
  BY <1>11 DEF Finish, Close, TypeOK, Tasks
<1>12. CASE EndPlay
  <2>1. faults' \in 0..MaxFaults
    BY <1>12, PcsMariadbAssumption DEF EndPlay, Fault, TypeOK
  <2>2. Close("failed")
    BY <1>12 DEF EndPlay
  <2>3. /\ UNCHANGED <<bundle, primitive, check, volumes, data, schema, registered>>
        /\ UNCHANGED <<wanted, act>>
    BY <1>12 DEF EndPlay
  <2> QED BY <2>1, <2>2, <2>3, CloseTypes DEF TypeOK
<1>13. CASE Sync
  BY <1>13 DEF Sync, ansible, TypeOK
<1>14. CASE Edit
  BY <1>14, PcsMariadbAssumption DEF Edit, TypeOK, Rev
<1>15. ASSUME NEW h \in Hosts, DropHost(h) PROVE TypeOK'
  <2>1. faults' \in 0..MaxFaults
    BY <1>15, PcsMariadbAssumption DEF DropHost, Fault, TypeOK
  <2>2. /\ UNCHANGED <<bundle, primitive, check, volumes, data, schema, registered>>
        /\ UNCHANGED <<wanted, act>>
    BY <1>15 DEF DropHost
  <2>3. CASE Close("failed")
    BY <2>1, <2>2, <2>3, CloseTypes DEF TypeOK
  <2>4. CASE play' = play \ {h} /\ left' = left \ {h} /\ UNCHANGED <<task, had, existed, exit>>
    BY <2>1, <2>2, <2>4 DEF TypeOK
  <2> QED BY <1>15, <2>3, <2>4 DEF DropHost
<1>16. ASSUME NEW h \in Hosts, Reinstall(h) PROVE TypeOK'
  <2>1. data' \in [Hosts -> {"none", "boot", "live"}] /\ faults' \in 0..MaxFaults
    BY <1>16, PcsMariadbAssumption DEF Reinstall, Fault, TypeOK
  <2> QED BY <1>16, <2>1 DEF Reinstall, TypeOK
<1>17. CASE UNCHANGED vars
  BY <1>17 DEF vars, ansible, TypeOK
<1> QED
  BY <1>1, <1>2, <1>3, <1>4, <1>5, <1>6, <1>7, <1>8, <1>9, <1>10, <1>11, <1>12,
     <1>13, <1>14, <1>15, <1>16, <1>17, <1>18 DEF Next, Play

\* Type correctness: in particular a play never touches a host it lost.
THEOREM MariadbTypeOK == Spec => []TypeOK
BY InitTypeOK, NextTypeOK, PTL DEF Spec

\* A play that ends without success leaves nothing to establish, and a step
\* that leaves the database and the play where they are disturbs nothing.
LEMMA EndedIInv ==
    ASSUME task' = "idle", exit' # "ok"
    PROVE  IInv'
BY DEF IInv, PlayInv, RebuildInv, ServeInv, RebuiltMeansCurrent, SuccessMeansServing

LEMMA FrameIInv ==
    ASSUME IInv, UNCHANGED <<bundle, primitive, check>>,
           UNCHANGED <<data, schema, registered, wanted>>,
           UNCHANGED <<act, task, existed, exit>>
    PROVE  IInv'
BY DEF IInv, PlayInv, RebuildInv, ServeInv, RebuiltMeansCurrent, SuccessMeansServing,
       Rebuilding, Running, HasData

\* During a play there is no result to speak of.
LEMMA PlayingIInv ==
    ASSUME task' # "idle", exit' = "none", PlayInv',
           Rebuilding' => RebuildInv', act' # "stop" => ServeInv'
    PROVE  IInv'
BY DEF IInv, RebuiltMeansCurrent, SuccessMeansServing

LEMMA InitIInv == Init => IInv
<1> SUFFICES ASSUME Init PROVE IInv
  OBVIOUS
<1>1. task = "idle" /\ exit = "none" /\ act = "none"
  BY DEF Init
<1> QED
  BY <1>1 DEF IInv, PlayInv, RebuildInv, ServeInv, RebuiltMeansCurrent, SuccessMeansServing

\* The tasks up to the volumes build the bundles.
LEMMA BuildIInv ==
    ASSUME TypeOK, IInv,
           Delete \/ Query \/ CreateBundle \/ CreatePrimitive
           \/ DeleteCheck \/ QueryCheck \/ CreateCheck
    PROVE  IInv'
<1> USE DEF pacemaker, storage, database
<1> DEFINE b == [rev |-> wanted, on |-> FALSE]
<1>0. b # None /\ b.rev = wanted /\ b.on = FALSE
  BY BundleFacts DEF TypeOK
<1> HIDE DEF b
<1>1. PlayInv /\ (Rebuilding => RebuildInv)
  BY DEF IInv
<1>2. /\ task \notin {"idle", "disable", "disable check", "finish"}
      /\ task' # "idle" /\ UNCHANGED <<act, exit, wanted, schema>>
      /\ task' \in {"query", "bundle", "primitive", "delete check", "query check",
                    "create check", "volume"}
  BY DEF Delete, Query, CreateBundle, CreatePrimitive, DeleteCheck, QueryCheck, CreateCheck, Then
<1>3. exit' = "none" /\ PlayInv' /\ ServeInv'
  <2>1. exit' = "none" /\ ServeInv' /\ act # "stop" /\ act # "none"
    BY <1>1, <1>2 DEF PlayInv, ServeInv
  <2>2. CASE Query
    <3>1. task' = "bundle" /\ bundle' = bundle /\ existed' = (bundle # None)
      BY <2>2 DEF Query, Then
    <3> QED BY <1>2, <2>1, <3>1 DEF PlayInv
  <2>3. CASE CreateBundle
    <3>1. existed \/ bundle' = b
      BY <2>3 DEF CreateBundle, b
    <3>2. task' = "primitive" /\ existed' = existed
      BY <2>3 DEF CreateBundle, Then
    <3> QED BY <1>0, <1>2, <2>1, <3>1, <3>2 DEF PlayInv
  <2>4. CASE ~Query /\ ~CreateBundle
    <3>1. task' \notin {"bundle", "primitive", "disable", "disable check", "idle"}
      BY <2>4 DEF Delete, CreatePrimitive, DeleteCheck, QueryCheck, CreateCheck, Then
    <3> QED BY <1>2, <2>1, <3>1 DEF PlayInv
  <2> QED BY <2>2, <2>3, <2>4
<1>4. ASSUME Rebuilding PROVE RebuildInv'
  <2>1. CASE Delete \/ Query
    BY <1>1, <1>4, <2>1 DEF Delete, Query, Then, RebuildInv, Rebuilding
  <2>2. CASE CreateBundle
    <3>1. bundle' = b
      BY <1>1, <1>4, <2>2 DEF CreateBundle, RebuildInv, b
    <3>2. task' = "primitive" /\ bundle' # None /\ bundle'.rev = wanted'
      BY <1>0, <1>2, <2>2, <3>1 DEF CreateBundle, Then
    <3> QED BY <3>2 DEF RebuildInv
  <2>3. CASE CreatePrimitive \/ DeleteCheck \/ QueryCheck
    <3>1. /\ task \in {"primitive", "delete check", "query check"}
          /\ task' \in {"delete check", "query check", "create check"}
          /\ bundle' = bundle
      BY <2>3 DEF CreatePrimitive, DeleteCheck, QueryCheck, Then
    <3>2. bundle' # None /\ bundle'.rev = wanted'
      BY <1>1, <1>2, <1>4, <3>1 DEF RebuildInv
    <3>3. task' = "query check" => check' = None
      BY <1>4, <2>3 DEF CreatePrimitive, DeleteCheck, QueryCheck, Then
    <3>4. task' = "create check" => check' = None /\ ~existed'
      <4>1. CASE QueryCheck
        <5>1. check = None /\ existed' = (check # None)
          BY <1>1, <1>4, <4>1 DEF QueryCheck, RebuildInv
        <5>2. check' = check
          BY <4>1 DEF QueryCheck
        <5> QED BY <5>1, <5>2
      <4> QED BY <2>3, <4>1 DEF CreatePrimitive, DeleteCheck, Then
    <3> QED BY <3>1, <3>2, <3>3, <3>4 DEF RebuildInv
  <2>4. CASE CreateCheck
    <3>1. task = "create check" /\ ~existed
      BY <1>1, <1>4, <2>4 DEF CreateCheck, RebuildInv
    <3>2. check' = None \/ check' = b
      <4>1. check' = IF ~EnableClustercheck THEN check ELSE b
        BY <2>4, <3>1 DEF CreateCheck, b
      <4>2. check = None
        BY <1>1, <1>4, <3>1 DEF RebuildInv
      <4> QED BY <4>1, <4>2
    <3>3. /\ task' = "volume" /\ (check' = None \/ check'.rev = wanted')
          /\ bundle' # None /\ bundle'.rev = wanted'
      BY <1>0, <1>1, <1>2, <1>4, <2>4, <3>2 DEF CreateCheck, RebuildInv
    <3> QED BY <3>3 DEF RebuildInv
  <2> QED BY <2>1, <2>2, <2>3, <2>4
<1>5. Rebuilding' <=> Rebuilding
  BY <1>2 DEF Rebuilding
<1> QED BY <1>2, <1>3, <1>4, <1>5, PlayingIInv

\* The other tasks make volumes and databases, switch on and see.
LEMMA SwitchIInv ==
    ASSUME TypeOK, IInv, EnableBundle \/ EnableCheck \/ DisableBundle \/ DisableCheck
    PROVE  IInv'
<1> USE DEF pacemaker, storage, database
<1>1. CASE Fail
  BY <1>1, EndedIInv DEF Fail, Close
<1>2. PlayInv /\ (Rebuilding => RebuildInv) /\ (act # "stop" => ServeInv)
  BY DEF IInv
<1>3. ASSUME ~Fail PROVE IInv'
  <2>1. /\ task # "idle" /\ UNCHANGED <<act, exit, wanted, schema>>
        /\ task' \in {"enable check", "wait", "disable check", "finish"}
    BY <1>3 DEF EnableBundle, EnableCheck, DisableBundle, DisableCheck, Then
  <2>2. (Rebuilding' <=> Rebuilding) /\ exit' = "none"
    BY <1>2, <2>1 DEF Rebuilding, PlayInv
  <2>3. CASE EnableBundle
    <3>1. /\ task = "bootstrap" /\ task' = "enable check" /\ UNCHANGED check
          /\ bundle # None /\ bundle' = [bundle EXCEPT !.on = TRUE]
      BY <1>3, <2>3 DEF EnableBundle, Then
    <3>2. bundle' # None /\ bundle'.rev = bundle.rev
      BY <3>1, BundleFacts DEF TypeOK
    <3>3. PlayInv' /\ ServeInv'
      BY <1>2, <2>1, <3>1 DEF PlayInv, ServeInv
    <3>4. Rebuilding => RebuildInv'
      <4>1. Rebuilding => bundle.rev = wanted /\ (check = None \/ check.rev = wanted)
        BY <1>2, <3>1 DEF RebuildInv
      <4> QED BY <2>1, <3>1, <3>2, <4>1 DEF RebuildInv
    <3> QED BY <2>1, <2>2, <3>3, <3>4, PlayingIInv
  <2>4. CASE EnableCheck
    <3>1. /\ task = "enable check" /\ task' = "wait" /\ UNCHANGED bundle
          /\ check # None /\ check' = [check EXCEPT !.on = TRUE]
      BY <1>3, <2>4 DEF EnableCheck, Then
    <3>2. check' # None /\ check'.rev = check.rev /\ check'.on
      BY <3>1, BundleFacts DEF TypeOK
    <3>3. PlayInv' /\ ServeInv'
      BY <1>2, <2>1, <3>1, <3>2 DEF PlayInv, ServeInv
    <3>4. Rebuilding => RebuildInv'
      <4>1. Rebuilding => bundle # None /\ bundle.rev = wanted /\ check.rev = wanted
        BY <1>2, <3>1 DEF RebuildInv
      <4> QED BY <2>1, <3>1, <3>2, <4>1 DEF RebuildInv
    <3> QED BY <2>1, <2>2, <3>3, <3>4, PlayingIInv
  <2>5. CASE DisableBundle \/ DisableCheck
    <3>1. act' = "stop" /\ task' \in {"disable check", "finish"}
      BY <1>2, <1>3, <2>1, <2>5 DEF DisableBundle, DisableCheck, PlayInv, Then
    <3> QED BY <2>1, <2>2, <3>1, PlayingIInv DEF PlayInv, Rebuilding
  <2> QED BY <2>3, <2>4, <2>5
<1> QED BY <1>1, <1>3

LEMMA VolumeIInv ==
    ASSUME TypeOK, IInv, NEW h \in Hosts, CreateVolume(h) \/ Bootstrap(h) \/ Divide
    PROVE  IInv'
<1> USE DEF pacemaker, storage, database
<1>1. CASE CreateVolume(h)
  BY <1>1, FrameIInv DEF CreateVolume
<1>2. PlayInv /\ (Rebuilding => RebuildInv) /\ (act # "stop" => ServeInv)
  BY DEF IInv
<1>3. CASE Bootstrap(h) \/ Divide
  <2>1. /\ task \in {"volume", "bootstrap"} /\ task' = "bootstrap"
        /\ UNCHANGED <<bundle, primitive, check, act, exit, wanted, schema>>
    BY <1>3 DEF Bootstrap, Divide
  <2>2. (Rebuilding' <=> Rebuilding) /\ exit' = "none" /\ PlayInv' /\ ServeInv'
    BY <1>2, <2>1 DEF Rebuilding, PlayInv, ServeInv
  <2>3. Rebuilding => RebuildInv'
    BY <1>2, <2>1 DEF RebuildInv
  <2> QED BY <2>1, <2>2, <2>3, PlayingIInv
<1> QED BY <1>1, <1>3

LEMMA SeeIInv ==
    ASSUME TypeOK, IInv, Wait \/ Register \/ UpgradeDatabase \/ Finish
    PROVE  IInv'
<1> USE DEF pacemaker, storage, database
<1>1. CASE Fail
  BY <1>1, EndedIInv DEF Fail, Close
<1>2. PlayInv /\ (Rebuilding => RebuildInv) /\ (act # "stop" => ServeInv)
  BY DEF IInv
<1>3. ASSUME ~Fail, Wait PROVE IInv'
  <2>1. /\ task = "wait" /\ task' = "register" /\ Running
        /\ UNCHANGED <<bundle, primitive, check, act, exit, wanted>>
    BY <1>3 DEF Wait, Then
  <2>2. exit' = "none" /\ PlayInv' /\ (act' # "stop" => ServeInv')
    BY <1>2, <2>1 DEF PlayInv, ServeInv, Running
  <2>3. Rebuilding' => RebuildInv'
    BY <1>2, <2>1 DEF RebuildInv, Rebuilding
  <2> QED BY <2>1, <2>2, <2>3, PlayingIInv
<1>4. ASSUME ~Fail, Register PROVE IInv'
  <2>1. /\ task = "register" /\ task' \in {"upgrade", "finish"}
        /\ act = "upgrade" => task' = "upgrade"
        /\ Running /\ HasData /\ registered'
        /\ UNCHANGED <<bundle, primitive, check, data, act, exit, wanted>>
    BY <1>4 DEF Register, Then
  <2>2. exit' = "none" /\ PlayInv' /\ (act' # "stop" => ServeInv')
    BY <1>2, <2>1 DEF PlayInv, ServeInv, Running, HasData
  <2>3. Rebuilding' => RebuildInv'
    BY <1>2, <2>1 DEF RebuildInv, Rebuilding
  <2> QED BY <2>1, <2>2, <2>3, PlayingIInv
<1>5. CASE UpgradeDatabase
  <2>1. /\ task = "upgrade" /\ task' = "finish" /\ schema' = wanted'
        /\ UNCHANGED <<bundle, primitive, check, data, act, exit, wanted, registered>>
    BY <1>5 DEF UpgradeDatabase, Then
  <2>2. exit' = "none" /\ PlayInv' /\ (act' # "stop" => ServeInv')
    BY <1>2, <2>1 DEF PlayInv, ServeInv, Running, HasData
  <2>3. Rebuilding' => RebuildInv'
    BY <1>2, <2>1 DEF RebuildInv, Rebuilding
  <2> QED BY <2>1, <2>2, <2>3, PlayingIInv
<1>6. CASE Finish
  <2>1. /\ task = "finish" /\ task' = "idle" /\ exit' \in {"ok", "failed"}
        /\ UNCHANGED <<bundle, primitive, check, data, act, wanted, registered, schema>>
    BY <1>6 DEF Finish, Close
  <2>2. PlayInv' /\ RebuildInv' /\ ServeInv'
    BY <2>1 DEF PlayInv, RebuildInv, ServeInv
  <2>3. RebuiltMeansCurrent'
    BY <1>2, <2>1 DEF RebuiltMeansCurrent, RebuildInv, Rebuilding
  <2>4. SuccessMeansServing'
    BY <1>2, <2>1 DEF SuccessMeansServing, ServeInv, Running, HasData
  <2> QED BY <2>2, <2>3, <2>4 DEF IInv
<1> QED BY <1>1, <1>3, <1>4, <1>5, <1>6

LEMMA NextIInv == TypeOK /\ IInv /\ [Next]_vars => IInv'
<1> SUFFICES ASSUME TypeOK, IInv, [Next]_vars PROVE IInv'
  OBVIOUS
<1>1. ASSUME NEW a \in Actions, NEW hs \in SUBSET Hosts, Start(a, hs) PROVE IInv'
  <2>1. /\ exit' = "none" /\ act' = a /\ a # "none"
        /\ task' = IF a = "stop" THEN "disable" ELSE "delete"
    BY <1>1 DEF Start, Actions
  <2>2. PlayInv' /\ (RebuildInv' \/ act' = "stop")
    BY <2>1 DEF PlayInv, RebuildInv
  <2>3. PlayInv' /\ ServeInv'
    BY <2>1 DEF PlayInv, ServeInv
  <2> QED BY <2>1, <2>2, <2>3, PlayingIInv DEF Rebuilding
<1>2. CASE Play
  BY <1>2, BuildIInv, SwitchIInv, VolumeIInv, SeeIInv, PcsMariadbAssumption DEF Play
<1>3. CASE EndPlay
  BY <1>3, EndedIInv DEF EndPlay, Close
<1>4. CASE Sync
  <2>1. /\ UNCHANGED <<bundle, primitive, check, schema, registered, wanted>>
        /\ UNCHANGED <<act, task, exit, existed>> /\ HasData
        /\ data' = [h \in Hosts |-> "live"]
    BY <1>4 DEF Sync, pacemaker, database, ansible
  <2>2. HasData'
    BY <2>1 DEF HasData
  <2> QED
    BY <2>1, <2>2 DEF IInv, PlayInv, RebuildInv, ServeInv, RebuiltMeansCurrent,
       SuccessMeansServing, Rebuilding, Running
<1>5. CASE Edit \/ \E h \in Hosts : Reinstall(h)
  <2>1. task' = "idle" /\ exit' = "none"
    BY <1>5 DEF Edit, Reinstall
  <2> QED BY <2>1, EndedIInv
<1>6. ASSUME NEW h \in Hosts, DropHost(h) PROVE IInv'
  <2>1. CASE Close("failed")
    BY <2>1, EndedIInv DEF Close
  <2>2. CASE ~Close("failed")
    BY <1>6, <2>2, FrameIInv DEF DropHost, pacemaker, storage, database
  <2> QED BY <2>1, <2>2
<1>7. CASE UNCHANGED vars
  BY <1>7, FrameIInv DEF vars, pacemaker, storage, database, ansible
<1> QED BY <1>1, <1>2, <1>3, <1>4, <1>5, <1>6, <1>7 DEF Next

LEMMA SpecIInv == Spec => []IInv
<1>1. Spec => []TypeOK
  BY MariadbTypeOK
<1>2. Init => IInv
  BY InitIInv
<1>3. TypeOK /\ IInv /\ [Next]_vars => IInv'
  BY NextIInv
<1> QED BY <1>1, <1>2, <1>3, PTL DEF Spec

\* A successful reconfigure or upgrade leaves no bundle and no schema of an
\* old revision (reconfigure.yml:2-6, upgrade.yml).
THEOREM MariadbRebuilt == Spec => []RebuiltMeansCurrent
<1>1. IInv => RebuiltMeansCurrent
  BY DEF IInv
<1> QED BY <1>1, SpecIInv, PTL

\* Whatever was cut short before, success means a database that serves
\* (deploy.yml:2-10).
THEOREM MariadbServing == Spec => []SuccessMeansServing
<1>1. IInv => SuccessMeansServing
  BY DEF IInv
<1> QED BY <1>1, SpecIInv, PTL

(***************************************************************************)
(* Bootstrapping.  A play of all hosts that finds no volume finds no data; *)
(* while it bootstraps, the servers may meanwhile have copied the first    *)
(* database everywhere, and then there is no host left to bootstrap.       *)
(***************************************************************************)
DataInv ==
    /\ \A h \in Hosts : data[h] # "none" => h \in volumes
    /\ task = "volume" => play \ left \subseteq volumes
    /\ task = "volume" /\ play = Hosts /\ HasData => had # {} \/ left \cap volumes # {}
    /\ task = "bootstrap" => left \subseteq volumes
    /\ task = "bootstrap" /\ play = Hosts /\ left # {} =>
          \/ \A h \in Hosts : data[h] # "live"
          \/ \A h \in Hosts : data[h] # "none"

LEMMA InitDataInv == Init => DataInv
BY DEF Init, DataInv

\* Tasks that touch neither volumes nor data.
LEMMA OtherDataInv ==
    ASSUME DataInv, UNCHANGED <<volumes, data>>,
           task' \notin {"volume", "bootstrap"} \/ UNCHANGED <<task, play, left, had>>
    PROVE  DataInv'
BY DEF DataInv, HasData

LEMMA NextDataInv == TypeOK /\ DataInv /\ [Next]_vars => DataInv'
<1> SUFFICES ASSUME TypeOK, DataInv, [Next]_vars PROVE DataInv'
  OBVIOUS
<1> USE DEF storage
<1>1. CASE CreateCheck
  <2>1. UNCHANGED <<volumes, data, play>> /\ task' = "volume" /\ left' = play
    BY <1>1 DEF CreateCheck
  <2>2. play = Hosts /\ HasData => left' \cap volumes' # {}
    BY <2>1 DEF DataInv, HasData
  <2> QED BY <2>1, <2>2 DEF DataInv, HasData
<1>2. ASSUME NEW h \in Hosts, CreateVolume(h) PROVE DataInv'
  <2>1. /\ task' = "volume" /\ task = "volume" /\ UNCHANGED <<data, play>> /\ h \in left
        /\ left' = left \ {h} /\ volumes' = volumes \cup {h}
        /\ had' = IF h \in volumes THEN had \cup {h} ELSE had
    BY <1>2 DEF CreateVolume
  <2>2. ASSUME play = Hosts, HasData PROVE had' # {} \/ left' \cap volumes' # {}
    <3>1. CASE had # {}
      BY <2>1, <3>1
    <3>2. ASSUME NEW g \in left \cap volumes PROVE had' # {} \/ left' \cap volumes' # {}
      <4>1. CASE g = h
        BY <2>1, <3>2, <4>1
      <4>2. CASE g # h
        BY <2>1, <3>2, <4>2
      <4> QED BY <4>1, <4>2
    <3> QED BY <2>1, <2>2, <3>1, <3>2 DEF DataInv
  <2> QED BY <2>1, <2>2 DEF DataInv, HasData
<1>3. CASE Divide
  <2>1. /\ task = "volume" /\ left = {} /\ task' = "bootstrap"
        /\ UNCHANGED <<volumes, data, play>>
        /\ left' = IF had = {} THEN play ELSE {}
    BY <1>3 DEF Divide
  <2>2. left' # {} /\ play = Hosts => \A h \in Hosts : data[h] # "live"
    BY <2>1 DEF DataInv, HasData
  <2> QED BY <2>1, <2>2 DEF DataInv
<1>4. ASSUME NEW h \in Hosts, Bootstrap(h) PROVE DataInv'
  <2>1. /\ task = "bootstrap" /\ task' = "bootstrap" /\ UNCHANGED <<volumes, play>>
        /\ h \in left /\ left' = left \ {h}
    BY <1>4 DEF Bootstrap
  <2>2. CASE data[h] = "none"
    <3>1. data' = [data EXCEPT ![h] = "boot"]
      BY <1>4, <2>2 DEF Bootstrap
    <3>2. h \in volumes
      BY <2>1 DEF DataInv
    <3> QED BY <2>1, <2>2, <3>1, <3>2 DEF DataInv, TypeOK
  <2>3. CASE data[h] # "none"
    <3>1. data' = data
      BY <1>4, <2>3 DEF Bootstrap
    <3> QED BY <2>1, <3>1 DEF DataInv
  <2> QED BY <2>2, <2>3
<1>5. ASSUME NEW h \in Hosts, DropHost(h) PROVE DataInv'
  <2>1. UNCHANGED <<volumes, data>> /\ task \in {"volume", "bootstrap"} /\ h \in play
    BY <1>5 DEF DropHost, TypeOK
  <2>2. CASE Close("failed")
    BY <2>1, <2>2, OtherDataInv DEF Close
  <2>3. CASE ~Close("failed")
    <3>1. play' = play \ {h} /\ left' = left \ {h} /\ UNCHANGED task
      BY <1>5, <2>3 DEF DropHost
    <3>2. play' # Hosts
      BY <3>1
    <3> QED BY <2>1, <3>1, <3>2 DEF DataInv
  <2> QED BY <2>2, <2>3
<1>6. CASE Sync
  <2>1. /\ HasData /\ volumes' = Hosts /\ data' = [h \in Hosts |-> "live"]
        /\ UNCHANGED <<task, play, left, had>>
    BY <1>6 DEF Sync, ansible
  <2>2. play \subseteq Hosts /\ left \subseteq play
    BY DEF TypeOK
  <2>3. task = "volume" /\ play = Hosts => had # {} \/ left \cap volumes' # {}
    BY <2>1, <2>2 DEF DataInv
  <2> QED BY <2>1, <2>2, <2>3 DEF DataInv
<1>7. ASSUME NEW h \in Hosts, Reinstall(h) PROVE DataInv'
  <2>1. /\ task' = "idle" /\ volumes' = volumes \ {h}
        /\ data' = [data EXCEPT ![h] = "none"]
    BY <1>7 DEF Reinstall
  <2>2. \A g \in Hosts : data'[g] # "none" => g \in volumes'
    BY <2>1 DEF DataInv, TypeOK
  <2> QED BY <2>1, <2>2 DEF DataInv
<1>8. CASE \/ Delete \/ Query \/ CreateBundle \/ CreatePrimitive
           \/ DeleteCheck \/ QueryCheck
  BY <1>8, OtherDataInv
  DEF Delete, Query, CreateBundle, CreatePrimitive, DeleteCheck, QueryCheck, Then
<1>9. CASE EnableBundle \/ EnableCheck \/ DisableBundle \/ DisableCheck
  BY <1>9, OtherDataInv
  DEF EnableBundle, EnableCheck, DisableBundle, DisableCheck, Fail, Close, Then
<1>10. CASE Wait \/ Register \/ UpgradeDatabase \/ Finish \/ EndPlay
  BY <1>10, OtherDataInv DEF Wait, Register, UpgradeDatabase, Finish, EndPlay, Fail, Close, Then
<1>11. CASE Edit
  BY <1>11, OtherDataInv DEF Edit
<1>12. ASSUME NEW a \in Actions, NEW hs \in SUBSET Hosts, Start(a, hs) PROVE DataInv'
  BY <1>12, OtherDataInv DEF Start
<1>13. CASE UNCHANGED vars
  BY <1>13, OtherDataInv DEF vars, ansible
<1> QED
  BY <1>1, <1>2, <1>3, <1>4, <1>5, <1>6, <1>7, <1>8, <1>9, <1>10, <1>11, <1>12,
     <1>13 DEF Next, Play

\* A play that still has all hosts never bootstraps a host beside another that
\* has clients' data (bootstrap.yml:2-41).
THEOREM MariadbBootstrapsAlone == Spec => WholePlayBootstrapsAlone
<1>1. TypeOK /\ DataInv /\ [Next]_vars => [play = Hosts => ~Beside]_vars
  <2> SUFFICES ASSUME TypeOK, DataInv, [Next]_vars, play = Hosts, Beside,
                      NEW g \in Hosts, data'[g] = "boot", data[g] # "boot"
               PROVE  FALSE
    BY DEF Beside
  <2> USE DEF storage
  <2>1. data' # data
    OBVIOUS
  <2>2. ~Sync /\ ~UNCHANGED vars
    BY <2>1 DEF Sync, vars
  <2>3. ASSUME NEW h \in Hosts, Reinstall(h) PROVE FALSE
    <3>1. data' = [data EXCEPT ![h] = "none"]
      BY <2>3 DEF Reinstall
    <3> QED BY <3>1 DEF TypeOK
  <2>4. ASSUME NEW h \in Hosts, Bootstrap(h) PROVE FALSE
    <3>1. data[h] = "none" /\ task = "bootstrap" /\ left # {}
      BY <2>1, <2>4 DEF Bootstrap
    <3>2. \E k \in Hosts : data[k] = "live"
      BY DEF Beside
    <3> QED BY <3>1, <3>2 DEF DataInv
  <2>5. \E h \in Hosts : Reinstall(h) \/ Bootstrap(h)
    <3>1. ~Delete /\ ~Query /\ ~CreateBundle /\ ~CreatePrimitive /\ ~DeleteCheck
          /\ ~QueryCheck /\ ~CreateCheck /\ ~Divide
      BY <2>1 DEF Delete, Query, CreateBundle, CreatePrimitive, DeleteCheck, QueryCheck,
                  CreateCheck, Divide
    <3>2. ~EnableBundle /\ ~EnableCheck /\ ~DisableBundle /\ ~DisableCheck
          /\ ~Wait /\ ~Register /\ ~UpgradeDatabase /\ ~Finish /\ ~EndPlay /\ ~Edit
      BY <2>1 DEF EnableBundle, EnableCheck, DisableBundle, DisableCheck, Wait, Register,
                  UpgradeDatabase, Finish, EndPlay, Edit
    <3>3. \A h \in Hosts : ~CreateVolume(h) /\ ~DropHost(h)
      BY <2>1 DEF CreateVolume, DropHost
    <3>4. \A a \in Actions, hs \in SUBSET Hosts : ~Start(a, hs)
      BY <2>1 DEF Start
    <3> QED BY <2>2, <3>1, <3>2, <3>3, <3>4 DEF Next, Play
  <2> QED BY <2>3, <2>4, <2>5
<1>2. TypeOK /\ DataInv /\ [Next]_vars => DataInv'
  BY NextDataInv
<1> QED
  BY <1>1, <1>2, InitDataInv, MariadbTypeOK, PTL DEF Spec, WholePlayBootstrapsAlone

(***************************************************************************)
(* Step simulation of Rebuildable.  svc, dng and exit stand for the        *)
(* abstract service, doing and report.                                     *)
(***************************************************************************)
svc == IF bundle = None THEN None ELSE [rev |-> bundle.rev, up |-> Running]
dng == IF task = "idle" /\ exit = "none" THEN "none" ELSE act
InPlay == dng # "none" /\ exit = "none"
Switched == svc # None /\ svc' = [rev |-> svc.rev, up |-> dng # "stop"]

LEMMA AbstractInit == Init => Abstract!Init
BY DEF Init, Abstract!Init

LEMMA ServiceThere == ASSUME TypeOK, bundle # None PROVE svc # None /\ svc.rev = bundle.rev
<1>1. bundle.rev \in Nat
  BY PcsMariadbAssumption DEF TypeOK, Bundle, Rev
<1>2. Running \in BOOLEAN
  BY BundleFacts DEF TypeOK, Running
<1>3. svc = [rev |-> bundle.rev, up |-> Running]
  BY DEF svc
<1>4. svc \in [rev : Nat, up : BOOLEAN]
  BY <1>1, <1>2, <1>3
<1>5. None \notin [rev : Nat, up : BOOLEAN]
  BY PcsMariadbAssumption
<1> QED BY <1>3, <1>4, <1>5

\* A play begins, works, ends; between plays the site changes.
LEMMA AbstractBegin ==
    ASSUME NEW a \in Actions, exit' = "none", dng' = a, ~InPlay,
           UNCHANGED <<svc, wanted>>
    PROVE  Abstract!Next
<1>1. Abstract!Begin(a)
  BY DEF Abstract!Begin, Abstract!InPlay, svc, dng, InPlay
<1>2. a \in Abstract!Plays
  BY DEF Actions, Abstract!Plays, Abstract!Rebuilds
<1> QED BY <1>1, <1>2 DEF Abstract!Next

LEMMA AbstractEdit ==
    ASSUME wanted' \in {wanted, wanted + 1}, wanted' <= MaxRev, exit' = "none",
           dng' = "none", ~InPlay, UNCHANGED svc
    PROVE  Abstract!Next
<1>1. Abstract!Edit
  BY DEF Abstract!Edit, Abstract!InPlay, svc, dng, InPlay
<1> QED BY <1>1 DEF Abstract!Next

LEMMA AbstractWork ==
    ASSUME InPlay, dng = act, UNCHANGED <<wanted, dng, exit>>,
           \/ Rebuilding /\ svc' = None
           \/ dng # "stop" /\ svc = None /\ svc' = [rev |-> wanted, up |-> FALSE]
           \/ Switched
    PROVE  Abstract!Next
<1>1. Abstract!InPlay
  BY DEF Abstract!InPlay, InPlay, dng
<1>2. Abstract!TakeAway \/ Abstract!Make \/ Abstract!Switch
  BY DEF Abstract!TakeAway, Abstract!Make, Abstract!Switch, Abstract!Rebuilds, Rebuilding,
         Switched, svc, dng
<1>3. Abstract!Work
  BY <1>1, <1>2 DEF Abstract!Work, svc, dng
<1> QED BY <1>3 DEF Abstract!Next

LEMMA AbstractEnd ==
    ASSUME NEW how \in {"ok", "failed"}, InPlay, exit' = how, dng = act,
           UNCHANGED <<wanted, dng, svc>>,
           how = "ok" /\ Rebuilding => svc' = [rev |-> wanted, up |-> TRUE]
    PROVE  Abstract!Next
<1>1. Abstract!InPlay
  BY DEF Abstract!InPlay, InPlay, dng
<1>2. Abstract!End(how)
  BY <1>1 DEF Abstract!End, Abstract!Rebuilds, Rebuilding, svc, dng
<1> QED BY <1>2 DEF Abstract!Next

\* Switching the bundle on or off is the abstract Switch, or changes nothing
\* when the bundle has no resource to run.
LEMMA SwitchedService ==
    ASSUME TypeOK, bundle # None, bundle' # None, bundle'.rev = bundle.rev,
           primitive = "absent" => primitive' = "absent",
           primitive # "absent" => Running' = (dng # "stop")
    PROVE  Switched \/ UNCHANGED svc
<1>1. CASE primitive = "absent"
  BY <1>1 DEF svc, Running
<1>2. CASE primitive # "absent"
  <2>1. svc' = [rev |-> bundle.rev, up |-> dng # "stop"]
    BY <1>2 DEF svc
  <2> QED BY <2>1, ServiceThere DEF Switched
<1> QED BY <1>1, <1>2

\* Every step of the role is one of the promise, or changes nothing of it.
LEMMA AbstractNext == TypeOK /\ IInv /\ [Next]_vars => [Abstract!Next]_(Abstract!vars)
<1> SUFFICES ASSUME TypeOK, IInv, [Next]_vars, ~UNCHANGED <<svc, wanted, dng, exit>>
             PROVE  Abstract!Next
  BY DEF Abstract!vars, svc, dng
<1> USE DEF pacemaker, storage, database
<1>0. PlayInv
  BY DEF IInv
<1>1. task # "idle" => InPlay /\ dng = act
  BY <1>0 DEF PlayInv, InPlay, dng
<1>2. task = "idle" => ~InPlay
  BY DEF InPlay, dng
<1>3. ASSUME NEW t \in Tasks \ {"idle"}, task # "idle", Then(t)
      PROVE  UNCHANGED <<dng, exit>>
  BY <1>3 DEF Then, dng
<1>4. ASSUME NEW how \in {"ok", "failed"}, task # "idle", Close(how), UNCHANGED act
      PROVE  UNCHANGED dng /\ exit' = how
  BY <1>4 DEF Close, dng
<1>5. UNCHANGED <<bundle, primitive>> => UNCHANGED svc
  BY DEF svc, Running
<1>6. ASSUME task # "idle", Close("failed"), UNCHANGED <<bundle, primitive, act, wanted>>
      PROVE  Abstract!Next
  BY <1>1, <1>4, <1>5, <1>6, AbstractEnd
<1>7. CASE Delete
  <2>1. UNCHANGED <<dng, exit, wanted>> /\ task # "idle"
    BY <1>3, <1>7 DEF Delete, Tasks
  <2>2. Rebuilding /\ bundle' = None
    BY <1>5, <1>7, <2>1 DEF Delete
  <2> QED BY <1>1, <2>1, <2>2, AbstractWork DEF svc
<1>8. CASE CreateBundle
  <2>1. UNCHANGED <<dng, exit, wanted>> /\ task = "bundle"
    BY <1>3, <1>8 DEF CreateBundle, Tasks
  <2>2. ~existed
    BY <1>5, <1>8, <2>1 DEF CreateBundle
  <2>3. svc = None /\ dng # "stop"
    BY <1>0, <1>1, <2>1, <2>2 DEF PlayInv, svc
  <2>4. svc' = [rev |-> wanted, up |-> FALSE]
    <3> DEFINE b == [rev |-> wanted, on |-> FALSE]
    <3>1. bundle' = b /\ b # None /\ b.rev = wanted /\ b.on = FALSE
      BY <1>8, <2>2, BundleFacts DEF CreateBundle, TypeOK
    <3> HIDE DEF b
    <3>2. Running' = FALSE
      BY <3>1 DEF Running
    <3> QED BY <3>1, <3>2 DEF svc
  <2> QED BY <1>1, <2>1, <2>3, <2>4, AbstractWork
<1>9. CASE CreatePrimitive
  <2>1. UNCHANGED <<dng, exit, wanted, bundle>> /\ task = "primitive"
    BY <1>3, <1>9 DEF CreatePrimitive, Tasks
  <2>2. ~existed => bundle.on = FALSE
    BY <1>0, <2>1 DEF PlayInv
  <2>3. Running' = Running
    <3>1. CASE existed
      BY <1>9, <2>1, <3>1 DEF CreatePrimitive, Running
    <3>2. CASE ~existed
      BY <2>1, <2>2, <3>2 DEF Running
    <3> QED BY <3>1, <3>2
  <2> QED BY <2>1, <2>3 DEF svc
<1>10. CASE Query \/ QueryCheck \/ DeleteCheck
  BY <1>3, <1>5, <1>10 DEF Query, QueryCheck, DeleteCheck, Tasks
<1>11. CASE CreateCheck \/ Divide \/ \E h \in Hosts : CreateVolume(h) \/ Bootstrap(h)
  <2>1. task # "idle" /\ task' # "idle" /\ UNCHANGED <<act, exit, wanted, bundle, primitive>>
    BY <1>11 DEF CreateCheck, Divide, CreateVolume, Bootstrap
  <2> QED BY <1>5, <2>1 DEF dng
<1>12. CASE EnableBundle
  <2>1. CASE bundle = None
    BY <1>6, <1>12, <2>1 DEF EnableBundle, Fail
  <2>2. CASE bundle # None
    <3>1. UNCHANGED <<dng, exit, wanted>> /\ dng # "stop" /\ InPlay /\ dng = act
      BY <1>0, <1>1, <1>3, <1>12, <2>2 DEF EnableBundle, Tasks, PlayInv
    <3>2. /\ bundle' = [bundle EXCEPT !.on = TRUE]
          /\ primitive' = IF primitive = "absent" THEN "absent" ELSE "on"
      BY <1>12, <2>2 DEF EnableBundle
    <3>3. bundle' # None /\ bundle'.rev = bundle.rev /\ bundle'.on = TRUE
      BY <2>2, <3>2, BundleFacts DEF TypeOK
    <3>4. primitive # "absent" => Running' = (dng # "stop")
      BY <3>1, <3>2, <3>3 DEF Running
    <3>5. Switched \/ UNCHANGED svc
      BY <2>2, <3>2, <3>3, <3>4, SwitchedService
    <3> QED BY <3>1, <3>5, AbstractWork
  <2> QED BY <2>1, <2>2
<1>13. CASE DisableBundle
  <2>1. CASE bundle = None
    BY <1>6, <1>13, <2>1 DEF DisableBundle, Fail
  <2>2. CASE bundle # None
    <3>1. UNCHANGED <<dng, exit, wanted>> /\ dng = "stop" /\ InPlay /\ dng = act
      BY <1>0, <1>1, <1>3, <1>13, <2>2 DEF DisableBundle, Tasks, PlayInv
    <3>2. /\ bundle' = [bundle EXCEPT !.on = FALSE]
          /\ primitive' = IF primitive = "absent" THEN "absent" ELSE "off"
      BY <1>13, <2>2 DEF DisableBundle
    <3>3. bundle' # None /\ bundle'.rev = bundle.rev /\ bundle'.on = FALSE
      BY <2>2, <3>2, BundleFacts DEF TypeOK
    <3>4. primitive # "absent" => Running' = (dng # "stop")
      BY <3>1, <3>2, <3>3 DEF Running
    <3>5. Switched \/ UNCHANGED svc
      BY <2>2, <3>2, <3>3, <3>4, SwitchedService
    <3> QED BY <3>1, <3>5, AbstractWork
  <2> QED BY <2>1, <2>2
<1>14. CASE EnableCheck \/ DisableCheck
  <2>1. CASE check = None
    BY <1>6, <1>14, <2>1 DEF EnableCheck, DisableCheck, Fail
  <2>2. CASE check # None
    BY <1>3, <1>5, <1>14, <2>2 DEF EnableCheck, DisableCheck, Tasks
  <2> QED BY <2>1, <2>2
<1>15. CASE Wait \/ Register \/ UpgradeDatabase
  <2>1. CASE Fail
    BY <1>6, <1>15, <2>1 DEF Wait, Register, UpgradeDatabase, Fail
  <2>2. CASE ~Fail
    BY <1>3, <1>5, <1>15, <2>2 DEF Wait, Register, UpgradeDatabase, Tasks
  <2> QED BY <2>1, <2>2
<1>16. CASE Finish
  <2>1. PICK how \in {"ok", "failed"} : Close(how)
    <3> DEFINE h == IF play = Hosts THEN "ok" ELSE "failed"
    <3>1. Close(h) /\ h \in {"ok", "failed"}
      BY <1>16 DEF Finish
    <3> QED BY <3>1
  <2>2. /\ task = "finish" /\ UNCHANGED <<act, wanted>> /\ UNCHANGED svc
        /\ UNCHANGED dng /\ exit' = how
    BY <1>4, <1>5, <1>16, <2>1 DEF Finish
  <2>3. Rebuilding => svc' = [rev |-> wanted, up |-> TRUE]
    <3>1. Rebuilding => bundle # None /\ bundle.rev = wanted /\ Running
      BY <2>2 DEF IInv, RebuildInv, ServeInv, Rebuilding
    <3>2. Running \in BOOLEAN
      BY BundleFacts DEF TypeOK, Running
    <3> QED BY <2>2, <3>1, <3>2 DEF svc
  <2> QED BY <1>1, <2>2, <2>3, AbstractEnd
<1>17. CASE EndPlay
  BY <1>6, <1>17 DEF EndPlay
<1>18. ASSUME NEW h \in Hosts, DropHost(h) PROVE Abstract!Next
  <2>1. CASE Close("failed")
    BY <1>6, <1>18, <2>1 DEF DropHost
  <2>2. CASE ~Close("failed")
    BY <1>5, <1>18, <2>2 DEF DropHost, dng
  <2> QED BY <2>1, <2>2
<1>19. CASE Edit \/ \E h \in Hosts : Reinstall(h)
  <2>1. /\ task = "idle" /\ task' = "idle" /\ exit' = "none"
        /\ UNCHANGED <<bundle, primitive>> /\ wanted' \in {wanted, wanted + 1}
    BY <1>19 DEF Edit, Reinstall
  <2>2. wanted' <= MaxRev
    BY <1>19, PcsMariadbAssumption DEF Edit, Reinstall, TypeOK, Rev
  <2>3. UNCHANGED svc /\ dng' = "none"
    BY <1>5, <2>1 DEF dng
  <2> QED BY <1>2, <2>1, <2>2, <2>3, AbstractEdit
<1>20. ASSUME NEW a \in Actions, NEW hs \in SUBSET Hosts, Start(a, hs) PROVE Abstract!Next
  <2>1. task = "idle" /\ exit' = "none" /\ dng' = a /\ UNCHANGED <<svc, wanted>>
    BY <1>5, <1>20 DEF Start, dng
  <2> QED BY <1>2, <2>1, AbstractBegin
<1>21. CASE Sync \/ UNCHANGED vars
  BY <1>5, <1>21 DEF Sync, vars, ansible, dng
<1> QED
  BY <1>7, <1>8, <1>9, <1>10, <1>11, <1>12, <1>13, <1>14, <1>15, <1>16, <1>17,
     <1>18, <1>19, <1>20, <1>21 DEF Next, Play

\* The role keeps the promise of Rebuildable: whatever is cut short and however
\* many hosts are lost, only force_update takes the bundle away
\* (config-pacemaker-resource.yml:10-11), and a rebuild that succeeds leaves it
\* up and current.
THEOREM MariadbRefines == Spec => RefinesRebuildable
<1>1. Init => Abstract!Init
  BY AbstractInit
<1>2. TypeOK /\ IInv /\ [Next]_vars => [Abstract!Next]_(Abstract!vars)
  BY AbstractNext
<1> QED BY <1>1, <1>2, MariadbTypeOK, SpecIInv, PTL DEF Spec, RefinesRebuildable, Abstract!Spec
=============================================================================
