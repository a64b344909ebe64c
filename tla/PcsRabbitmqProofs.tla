-------------------------- MODULE PcsRabbitmqProofs --------------------------
(***************************************************************************)
(* Proofs about PcsRabbitmq, for any number of edits and of failed plays.  *)
(***************************************************************************)
EXTENDS PcsRabbitmq, TLAPS

\* What the tasks of a rebuild have established when the next one runs.  The
\* result of a play is only there between plays, and only stop disables.
RebuildInv ==
    /\ task # "idle" => exit = "none" /\ act # "none"
    /\ task # "idle" => (task = "disable" <=> act = "stop")
    /\ task = "bundle" => (existed <=> bundle # None)
    /\ task = "primitive" /\ ~existed => bundle # None /\ ~bundle.on
    /\ Rebuilding /\ task = "query" => bundle = None
    /\ Rebuilding /\ task = "bundle" => ~existed
    /\ Rebuilding /\ task = "primitive" =>
          ~existed /\ bundle.rev = wanted
    /\ Rebuilding /\ task \in {"bootstrap", "enable"} =>
          primitive # "absent" /\ bundle # None /\ bundle.rev = wanted

IInv == TypeOK /\ RebuildInv /\ RebuiltMeansCurrent

LEMMA BundleFacts ==
    /\ None \notin Bundle
    /\ \A r \in 0..MaxRev, to \in BOOLEAN :
          LET b == [rev |-> r, on |-> to]
          IN  b \in Bundle /\ b # None /\ b.rev = r /\ b.on = to
    /\ \A b \in Bundle : b.rev \in 0..MaxRev /\ b.on \in BOOLEAN
<1>1. Bundle \subseteq [rev : Nat, on : BOOLEAN]
  BY PcsRabbitmqAssumption DEF Bundle
<1>2. None \notin Bundle
  BY <1>1, PcsRabbitmqAssumption
<1> QED BY <1>2 DEF Bundle

LEMMA InitIInv == Init => IInv
<1> SUFFICES ASSUME Init PROVE IInv
  OBVIOUS
<1>1. TypeOK
  <2>1. existed \in BOOLEAN
    BY DEF Init
  <2>2. wanted \in 0..MaxRev /\ faults \in 0..MaxFaults
    BY PcsRabbitmqAssumption DEF Init
  <2> QED BY <2>1, <2>2 DEF Init, TypeOK
<1>2. ~Rebuilding
  <2>1. act = "none"
    BY DEF Init
  <2> QED BY <2>1 DEF Rebuilding
<1> QED BY <1>1, <1>2 DEF Init, IInv, RebuildInv, RebuiltMeansCurrent

LEMMA NextIInv == IInv /\ [Next]_vars => IInv'
<1> SUFFICES ASSUME IInv, [Next]_vars PROVE IInv'
  OBVIOUS
<1> USE PcsRabbitmqAssumption DEF pacemaker
<1>0. TypeOK /\ RebuildInv /\ RebuiltMeansCurrent
  BY DEF IInv
<1>1. CASE Delete
  <2>1. CASE Rebuilding
    <3>1. /\ bundle' = None /\ primitive' = "absent" /\ UNCHANGED existed
          /\ task = "delete" /\ Then("query")
      BY <1>1, <2>1 DEF Delete
    <3>2. TypeOK'
      BY <1>0, <3>1 DEF Then, TypeOK
    <3> QED
      BY <1>0, <3>1, <3>2 DEF Then, IInv, RebuildInv, RebuiltMeansCurrent
  <2>2. CASE ~Rebuilding
    BY <1>0, <1>1, <2>2 DEF Delete, Then, IInv, TypeOK, RebuildInv, RebuiltMeansCurrent, Rebuilding
  <2> QED BY <2>1, <2>2
<1>2. CASE Query
  BY <1>0, <1>2 DEF Query, Then, IInv, TypeOK, RebuildInv, RebuiltMeansCurrent, Rebuilding
<1>3. CASE CreateBundle
  <2> DEFINE b == [rev |-> wanted, on |-> FALSE]
  <2>1. b \in Bundle /\ b.rev = wanted /\ b.on = FALSE
    BY <1>0, BundleFacts DEF TypeOK
  <2>2. b # None
    BY <1>0, BundleFacts DEF TypeOK
  <2>3. bundle' = IF existed THEN bundle ELSE b
    BY <1>3 DEF CreateBundle
  <2> HIDE DEF b
  <2>4. TypeOK'
    <3>1. bundle' \in Bundle \cup {None} /\ (bundle # None => bundle' # None)
      BY <1>0, <2>1, <2>2, <2>3 DEF TypeOK
    <3> QED BY <1>0, <1>3, <3>1 DEF CreateBundle, Then, TypeOK
  <2> QED
    BY <1>0, <1>3, <2>1, <2>2, <2>3, <2>4
    DEF CreateBundle, Then, IInv, RebuildInv, RebuiltMeansCurrent, Rebuilding
<1>4. CASE CreatePrimitive
  <2>1. ~existed => bundle # None
    BY <1>0, <1>4 DEF CreatePrimitive, RebuildInv
  <2>2. TypeOK'
    BY <1>0, <1>4, <2>1 DEF CreatePrimitive, Then, TypeOK
  <2> QED
    BY <1>0, <1>4, <2>2 DEF CreatePrimitive, Then, IInv, RebuildInv, RebuiltMeansCurrent, Rebuilding
<1>5. CASE Bootstrap
  BY <1>0, <1>5 DEF Bootstrap, Then, IInv, TypeOK, RebuildInv, RebuiltMeansCurrent, Rebuilding
<1>6. CASE Enable
  <2>1. CASE bundle = None
    BY <1>0, <1>6, <2>1 DEF Enable, Close, IInv, TypeOK, RebuildInv, RebuiltMeansCurrent, Rebuilding
  <2>2. CASE bundle # None
    <3> DEFINE b == Switched(TRUE)
    <3>1. b \in Bundle /\ b # None /\ b.on = TRUE /\ b.rev = bundle.rev
      BY <1>0, <2>2, BundleFacts DEF TypeOK, Switched
    <3>2. bundle' = b
      BY <1>6, <2>2 DEF Enable
    <3> HIDE DEF b
    <3>3. TypeOK'
      BY <1>0, <1>6, <2>2, <3>1, <3>2 DEF Enable, Close, TypeOK
    <3> QED
      BY <1>0, <1>6, <2>2, <3>1, <3>2, <3>3
      DEF Enable, Close, IInv, TypeOK, RebuildInv, RebuiltMeansCurrent, Rebuilding, Running
  <2> QED BY <2>1, <2>2
<1>7. CASE Disable
  <2>1. CASE bundle = None
    BY <1>0, <1>7, <2>1 DEF Disable, Close, IInv, TypeOK, RebuildInv, RebuiltMeansCurrent, Rebuilding
  <2>2. CASE bundle # None
    <3> DEFINE b == Switched(FALSE)
    <3>1. b \in Bundle /\ b # None /\ b.on = FALSE /\ b.rev = bundle.rev
      BY <1>0, <2>2, BundleFacts DEF TypeOK, Switched
    <3>2. bundle' = b
      BY <1>7, <2>2 DEF Disable
    <3> HIDE DEF b
    <3>3. TypeOK'
      BY <1>0, <1>7, <2>2, <3>1, <3>2 DEF Disable, Close, TypeOK
    <3>4. act' = "stop" /\ task' = "idle"
      BY <1>0, <1>7, <2>2 DEF Disable, Close, RebuildInv
    <3> QED
      BY <3>3, <3>4 DEF IInv, RebuildInv, RebuiltMeansCurrent, Rebuilding
  <2> QED BY <2>1, <2>2
<1>8. CASE PlayFails
  BY <1>0, <1>8 DEF PlayFails, Close, IInv, TypeOK, RebuildInv, RebuiltMeansCurrent, Rebuilding
<1>9. CASE Edit
  BY <1>0, <1>9 DEF Edit, IInv, TypeOK, RebuildInv, RebuiltMeansCurrent, Rebuilding, Running
<1>10. ASSUME NEW a \in Actions, Start(a) PROVE IInv'
  BY <1>0, <1>10 DEF Start, IInv, TypeOK, RebuildInv, RebuiltMeansCurrent, Rebuilding, Actions
<1>11. CASE UNCHANGED vars
  <2>1. /\ UNCHANGED <<bundle, primitive>> /\ UNCHANGED <<wanted, act, task>>
        /\ UNCHANGED <<existed, exit, faults>>
    BY <1>11 DEF vars
  <2>2. TypeOK'
    BY <1>0, <2>1 DEF TypeOK
  <2> QED
    BY <1>0, <2>1, <2>2 DEF IInv, RebuildInv, RebuiltMeansCurrent, Rebuilding, Running
<1> QED
  BY <1>1, <1>2, <1>3, <1>4, <1>5, <1>6, <1>7, <1>8, <1>9, <1>10, <1>11 DEF Next, Play

LEMMA SpecIInv == Spec => []IInv
<1>1. Init => IInv
  BY InitIInv
<1>2. IInv /\ [Next]_vars => IInv'
  BY NextIInv
<1> QED BY <1>1, <1>2, PTL DEF Spec

\* Type correctness, and the resource in the bundle goes with the bundle
\* (config-pacemaker-resource.yml:2-11: deleting one deletes both).
THEOREM RabbitmqTypeOK == Spec => []TypeOK
<1>1. IInv => TypeOK
  BY DEF IInv
<1> QED BY <1>1, SpecIInv, PTL

\* A rebuild that succeeds leaves the server running at the wanted revision,
\* from whatever state earlier plays left (config-pacemaker-resource.yml).
THEOREM RabbitmqRebuilt == Spec => []RebuiltMeansCurrent
<1>1. IInv => RebuiltMeansCurrent
  BY DEF IInv
<1> QED BY <1>1, SpecIInv, PTL

\* Nothing but the last command of a play brings the server up: the bundle and
\* its resource are created disabled (config-pacemaker-resource.yml:51,60).
THEOREM RabbitmqStartedLast == Spec => StartedLast
<1>1. [Next]_vars => [~Running /\ Running' => task = "enable"]_vars
  <2> SUFFICES ASSUME Next, ~Running, Running', task # "enable" PROVE FALSE
    BY DEF vars
  <2> USE DEF pacemaker
  <2>1. UNCHANGED pacemaker => FALSE
    BY DEF Running
  <2>2. CASE Delete
    BY <2>1, <2>2 DEF Delete, Running
  <2>3. CASE Query \/ Bootstrap
    BY <2>1, <2>3 DEF Query, Bootstrap
  <2>4. CASE CreateBundle
    <3>1. existed => UNCHANGED pacemaker
      BY <2>4 DEF CreateBundle
    <3>2. ~existed => bundle'.on = FALSE
      BY <2>4 DEF CreateBundle
    <3> QED BY <2>1, <3>1, <3>2 DEF Running
  <2>5. CASE CreatePrimitive
    <3>1. existed => UNCHANGED pacemaker
      BY <2>5 DEF CreatePrimitive
    <3>2. ~existed => primitive' = "off"
      BY <2>5 DEF CreatePrimitive
    <3> QED BY <2>1, <3>1, <3>2 DEF Running
  <2>6. CASE Enable
    BY <2>6 DEF Enable
  <2>7. CASE Disable
    BY <2>1, <2>7 DEF Disable, Switched, Running
  <2>8. CASE PlayFails
    BY <2>1, <2>8 DEF PlayFails
  <2>9. CASE Edit
    BY <2>1, <2>9 DEF Edit
  <2>10. CASE \E a \in Actions : Start(a)
    BY <2>1, <2>10 DEF Start
  <2> QED
    BY <2>2, <2>3, <2>4, <2>5, <2>6, <2>7, <2>8, <2>9, <2>10 DEF Next, Play
<1> QED BY <1>1, PTL DEF Spec, StartedLast

(***************************************************************************)
(* Step simulation of Rebuildable.  svc, dng and exit stand for the        *)
(* abstract service, doing and report.                                     *)
(***************************************************************************)
svc == IF bundle = None THEN None ELSE [rev |-> bundle.rev, up |-> Running]
dng == IF task = "idle" /\ exit = "none" THEN "none" ELSE act
InPlay == dng # "none" /\ exit = "none"
Switches == svc # None /\ svc' = [rev |-> svc.rev, up |-> dng # "stop"]

LEMMA AbstractInit == Init => Abstract!Init
BY DEF Init, Abstract!Init

LEMMA ServiceThere == ASSUME TypeOK, bundle # None PROVE svc # None /\ svc.rev = bundle.rev
<1>1. bundle.rev \in Nat
  BY PcsRabbitmqAssumption DEF TypeOK, Bundle
<1>2. Running \in BOOLEAN
  BY BundleFacts DEF TypeOK, Running
<1>3. svc = [rev |-> bundle.rev, up |-> Running]
  BY DEF svc
<1>4. svc \in [rev : Nat, up : BOOLEAN]
  BY <1>1, <1>2, <1>3
<1>5. None \notin [rev : Nat, up : BOOLEAN]
  BY PcsRabbitmqAssumption
<1> QED BY <1>3, <1>4, <1>5

LEMMA AbstractBegin ==
    ASSUME NEW a \in Actions, exit' = "none", dng' = a, ~InPlay,
           UNCHANGED <<svc, wanted>>
    PROVE  Abstract!Next
<1>1. Abstract!Begin(a)
  BY DEF Abstract!Begin, Abstract!InPlay, svc, dng, InPlay
<1>2. a \in Abstract!Plays
  BY DEF Actions, Abstract!Plays, Abstract!Rebuilds
<1> QED BY <1>1, <1>2 DEF Abstract!Next

LEMMA AbstractEdit ==
    ASSUME wanted' = wanted + 1, wanted' <= MaxRev, exit' = "none", dng' = "none", ~InPlay,
           UNCHANGED svc
    PROVE  Abstract!Next
<1>1. Abstract!Edit
  BY DEF Abstract!Edit, Abstract!InPlay, svc, dng, InPlay
<1> QED BY <1>1 DEF Abstract!Next

LEMMA AbstractWork ==
    ASSUME InPlay, UNCHANGED <<wanted, dng, exit>>,
           \/ Rebuilding /\ svc' = None
           \/ dng # "stop" /\ svc = None /\ svc' = [rev |-> wanted, up |-> FALSE],
           dng = act
    PROVE  Abstract!Next
<1>1. Abstract!InPlay
  BY DEF Abstract!InPlay, InPlay, dng
<1>2. Abstract!TakeAway \/ Abstract!Make
  BY DEF Abstract!TakeAway, Abstract!Make, Abstract!Rebuilds, Rebuilding, svc, dng
<1>3. Abstract!Work
  BY <1>1, <1>2 DEF Abstract!Work, svc, dng
<1> QED BY <1>3 DEF Abstract!Next

LEMMA AbstractEnd ==
    ASSUME NEW how \in {"ok", "failed"}, InPlay, exit' = how, dng = act,
           UNCHANGED <<wanted, dng>>, Switches \/ UNCHANGED svc,
           how = "ok" /\ Rebuilding => svc' = [rev |-> wanted, up |-> TRUE]
    PROVE  Abstract!Next
<1>1. Abstract!InPlay
  BY DEF Abstract!InPlay, InPlay, dng
<1>2. Abstract!Switch \/ UNCHANGED svc
  BY DEF Abstract!Switch, Switches, svc, dng
<1>3. Abstract!End(how)
  BY <1>1, <1>2 DEF Abstract!End, Abstract!Rebuilds, Rebuilding, svc, dng
<1> QED BY <1>3 DEF Abstract!Next

\* Every step of the role is one of the promise, or changes nothing of it.
LEMMA AbstractNext == IInv /\ [Next]_vars => [Abstract!Next]_(Abstract!vars)
<1> SUFFICES ASSUME IInv, [Next]_vars, ~UNCHANGED <<svc, wanted, dng, exit>>
             PROVE  Abstract!Next
  BY DEF Abstract!vars, svc, dng
<1> USE DEF pacemaker
<1>0. TypeOK /\ RebuildInv
  BY DEF IInv
<1>1. task # "idle" => InPlay /\ dng = act
  BY <1>0 DEF RebuildInv, InPlay, dng
<1>2. task = "idle" => ~InPlay
  BY DEF InPlay, dng
<1>3. ASSUME NEW t \in {"query", "bundle", "primitive", "bootstrap", "enable"},
             task # "idle", Then(t)
      PROVE  UNCHANGED <<wanted, dng, exit>>
  BY <1>3 DEF Then, dng
<1>4. ASSUME NEW how \in {"ok", "failed"}, task # "idle", Close(how)
      PROVE  UNCHANGED <<wanted, dng>> /\ exit' = how
  BY <1>4 DEF Close, dng
<1>5. CASE Delete
  <2>1. Rebuilding /\ svc' = None
    BY <1>3, <1>5 DEF Delete, svc, Running
  <2> QED BY <1>1, <1>3, <1>5, <2>1, AbstractWork DEF Delete
<1>6. CASE Query \/ Bootstrap
  <2>1. UNCHANGED svc
    BY <1>6 DEF Query, Bootstrap, svc, Running
  <2> QED BY <1>3, <1>6, <2>1 DEF Query, Bootstrap
<1>7. CASE CreateBundle
  <2>1. ~existed
    BY <1>3, <1>7 DEF CreateBundle, svc, Running
  <2>2. svc = None /\ dng # "stop"
    BY <1>0, <1>1, <1>7, <2>1 DEF CreateBundle, RebuildInv, svc
  <2>3. svc' = [rev |-> wanted, up |-> FALSE]
    <3> DEFINE b == [rev |-> wanted, on |-> FALSE]
    <3>1. bundle' = b /\ b # None /\ b.rev = wanted /\ b.on = FALSE
      BY <1>0, <1>7, <2>1, BundleFacts DEF CreateBundle, TypeOK
    <3> HIDE DEF b
    <3>2. Running' = FALSE
      BY <3>1 DEF Running
    <3> QED BY <3>1, <3>2 DEF svc
  <2> QED BY <1>1, <1>3, <1>7, <2>2, <2>3, AbstractWork DEF CreateBundle
<1>8. CASE CreatePrimitive
  <2>1. Running' = Running
    BY <1>0, <1>8 DEF CreatePrimitive, RebuildInv, Running
  <2>2. UNCHANGED svc
    BY <1>8, <2>1 DEF CreatePrimitive, svc
  <2> QED BY <1>3, <1>8, <2>2 DEF CreatePrimitive
<1>9. CASE Enable
  <2>1. CASE bundle = None
    BY <1>1, <1>4, <1>9, <2>1, AbstractEnd DEF Enable, svc, Running
  <2>2. CASE bundle # None
    <3>1. bundle' = Switched(TRUE) /\ Close("ok")
          /\ primitive' = IF primitive = "absent" THEN "absent" ELSE "on"
      BY <1>9, <2>2 DEF Enable
    <3>2. bundle' # None /\ bundle'.on = TRUE /\ bundle'.rev = bundle.rev
      BY <1>0, <2>2, <3>1, BundleFacts DEF TypeOK, Switched
    <3>3. CASE primitive = "absent"
      <4>1. UNCHANGED svc
        BY <2>2, <3>1, <3>2, <3>3 DEF svc, Running
      <4>2. ~Rebuilding
        BY <1>0, <1>9, <3>3 DEF Enable, RebuildInv
      <4> QED BY <1>1, <1>4, <1>9, <3>1, <4>1, <4>2, AbstractEnd DEF Enable
    <3>4. CASE primitive # "absent"
      <4>1. svc' = [rev |-> bundle.rev, up |-> TRUE]
        BY <3>1, <3>2, <3>4 DEF svc, Running
      <4>2. svc # None /\ svc.rev = bundle.rev
        BY <1>0, <2>2, ServiceThere
      <4>3. dng # "stop"
        BY <1>0, <1>1, <1>9 DEF Enable, RebuildInv
      <4>4. Rebuilding => bundle.rev = wanted
        BY <1>0, <1>9 DEF Enable, RebuildInv
      <4>5. Switches
        BY <4>1, <4>2, <4>3 DEF Switches
      <4> QED BY <1>1, <1>4, <1>9, <3>1, <4>1, <4>4, <4>5, AbstractEnd DEF Enable
    <3> QED BY <3>3, <3>4
  <2> QED BY <2>1, <2>2
<1>10. CASE Disable
  <2>0. dng = "stop" /\ ~Rebuilding
    BY <1>0, <1>1, <1>10 DEF Disable, RebuildInv, Rebuilding
  <2>1. CASE bundle = None
    BY <1>1, <1>4, <1>10, <2>0, <2>1, AbstractEnd DEF Disable, svc, Running
  <2>2. CASE bundle # None
    <3>1. bundle' = Switched(FALSE) /\ Close("ok")
      BY <1>10, <2>2 DEF Disable
    <3>2. bundle' # None /\ bundle'.on = FALSE /\ bundle'.rev = bundle.rev
      BY <1>0, <2>2, <3>1, BundleFacts DEF TypeOK, Switched
    <3>3. svc' = [rev |-> bundle.rev, up |-> FALSE]
      BY <3>1, <3>2 DEF svc, Running
    <3>4. svc # None /\ svc.rev = bundle.rev
      BY <1>0, <2>2, ServiceThere
    <3>5. Switches
      BY <2>0, <3>3, <3>4 DEF Switches
    <3> QED BY <1>1, <1>4, <1>10, <2>0, <3>1, <3>5, AbstractEnd DEF Disable
  <2> QED BY <2>1, <2>2
<1>11. CASE PlayFails
  <2>1. UNCHANGED svc
    BY <1>11 DEF PlayFails, svc, Running
  <2> QED BY <1>1, <1>4, <1>11, <2>1, AbstractEnd DEF PlayFails
<1>12. CASE Edit
  <2>1. UNCHANGED svc /\ dng' = "none"
    BY <1>12 DEF Edit, svc, dng, Running
  <2>2. wanted' = wanted + 1 /\ wanted' <= MaxRev
    BY <1>0, <1>12, PcsRabbitmqAssumption DEF Edit, TypeOK
  <2> QED BY <1>2, <1>12, <2>1, <2>2, AbstractEdit DEF Edit
<1>13. ASSUME NEW a \in Actions, Start(a) PROVE Abstract!Next
  <2>1. UNCHANGED svc /\ dng' = a
    BY <1>13 DEF Start, svc, dng, Running
  <2> QED BY <1>2, <1>13, <2>1, AbstractBegin DEF Start
<1>14. CASE UNCHANGED vars
  <2>1. UNCHANGED <<bundle, primitive>> /\ UNCHANGED <<wanted, act, task, exit>>
    BY <1>14 DEF vars
  <2> QED BY <2>1 DEF svc, dng, Running
<1> QED
  BY <1>5, <1>6, <1>7, <1>8, <1>9, <1>10, <1>11, <1>12, <1>13, <1>14 DEF Next, Play

\* The role keeps the promise of Rebuildable: whatever plays are cut short, the
\* bundle changes in place only by being switched, only a rebuild takes it away
\* (config-pacemaker-resource.yml:2-11), and one that succeeds leaves it up and
\* current.
THEOREM RabbitmqRefines == Spec => RefinesRebuildable
<1>1. Init => Abstract!Init
  BY AbstractInit
<1>2. IInv /\ [Next]_vars => [Abstract!Next]_(Abstract!vars)
  BY AbstractNext
<1> QED BY <1>1, <1>2, SpecIInv, PTL DEF Spec, RefinesRebuildable, Abstract!Spec
=============================================================================
