----------------------------- MODULE PcsRabbitmq -----------------------------
(***************************************************************************)
(* Role pcs-rabbitmq: pacemaker keeps rabbitmq-bundle, the containers, and *)
(* inside it the resource rabbitmq that starts the server.  All commands   *)
(* are `run_once`: one that fails ends the play.  Unlike pcs-mariadb the   *)
(* role ends without looking whether a server answers.                     *)
(***************************************************************************)
EXTENDS Naturals

CONSTANTS MaxRev,    \* bound: edits of the configuration or the image
          MaxFaults, \* bound: plays cut short
          None

ASSUME PcsRabbitmqAssumption ==
    /\ MaxRev \in Nat /\ MaxFaults \in Nat
    /\ None \notin [rev : Nat, on : BOOLEAN] \cup [rev : Nat, up : BOOLEAN]

VARIABLES bundle, primitive, \* pacemaker: rabbitmq-bundle, rabbitmq in it
          wanted,            \* revision of the site's configuration
          act, task,
          existed,           \* rabbitmq_pcs_resource_existed.rc = 0
          exit,              \* of the last play, until the site changes
          faults

pacemaker == <<bundle, primitive>>
vars == <<pacemaker, wanted, act, task, existed, exit, faults>>

Bundle == [rev : 0..MaxRev, on : BOOLEAN]
Actions == {"deploy", "reconfigure", "upgrade", "stop"}

TypeOK ==
    /\ bundle \in Bundle \cup {None} /\ primitive \in {"absent", "off", "on"}
    /\ primitive # "absent" => bundle # None
    /\ wanted \in 0..MaxRev /\ act \in Actions \cup {"none"}
    /\ task \in {"idle", "delete", "query", "bundle", "primitive",
                 "bootstrap", "enable", "disable"}
    /\ existed \in BOOLEAN /\ exit \in {"none", "ok", "failed"}
    /\ faults \in 0..MaxFaults

Init ==
    /\ bundle = None /\ primitive = "absent" /\ wanted = 0
    /\ act = "none" /\ task = "idle" /\ existed = FALSE
    /\ exit = "none" /\ faults = 0

Running == bundle # None /\ bundle.on /\ primitive = "on"
Switched(to) == [rev |-> bundle.rev, on |-> to]
Rebuilding == act \in {"reconfigure", "upgrade"}

Start(a) ==
    /\ task = "idle" /\ act' = a /\ exit' = "none"
    /\ task' = IF a = "stop" THEN "disable" ELSE "delete"
    /\ UNCHANGED <<pacemaker, wanted, existed, faults>>

Then(t) == task' = t /\ UNCHANGED <<wanted, act, exit, faults>>
Close(how) == task' = "idle" /\ exit' = how /\ UNCHANGED <<wanted, act>>

\* Mutant: force_update does not reach the role.
NeverDelete == task = "delete" /\ Then("query") /\ UNCHANGED <<pacemaker, existed>>

Delete ==
    /\ task = "delete" /\ Then("query")
    /\ IF Rebuilding THEN bundle' = None /\ primitive' = "absent" ELSE UNCHANGED pacemaker
    /\ UNCHANGED existed

Query ==
    /\ task = "query" /\ Then("bundle")
    /\ existed' = (bundle # None) /\ UNCHANGED pacemaker

CreateBundle ==
    /\ task = "bundle" /\ Then("primitive")
    /\ bundle' = IF existed THEN bundle ELSE [rev |-> wanted, on |-> FALSE]
    /\ UNCHANGED <<primitive, existed>>

\* Mutant: the resource is created without its bundle being disabled.
CreateStarted ==
    /\ task = "primitive" /\ Then(IF act = "upgrade" THEN "enable" ELSE "bootstrap")
    /\ primitive' = IF existed THEN primitive ELSE "on"
    /\ bundle' = IF existed THEN bundle ELSE Switched(TRUE)
    /\ UNCHANGED existed

\* Tested like the bundle: a bundle that exists alone never gets its resource.
CreatePrimitive ==
    /\ task = "primitive" /\ Then(IF act = "upgrade" THEN "enable" ELSE "bootstrap")
    /\ primitive' = IF existed THEN primitive ELSE "off"
    /\ UNCHANGED <<bundle, existed>>

\* Volume and cookie, by kolla's role; the play goes on when they are there.
Bootstrap == task = "bootstrap" /\ Then("enable") /\ UNCHANGED <<pacemaker, existed>>

Enable ==
    /\ task = "enable" /\ UNCHANGED <<existed, faults>>
    /\ IF bundle = None THEN Close("failed") /\ UNCHANGED pacemaker
       ELSE /\ bundle' = Switched(TRUE)
            /\ primitive' = IF primitive = "absent" THEN "absent" ELSE "on"
            /\ Close("ok")

\* Mutant: stop deletes the bundle and leaves its resource.
DisableBundleOnly ==
    /\ task = "disable" /\ UNCHANGED <<existed, faults>>
    /\ IF bundle = None THEN Close("failed") /\ UNCHANGED pacemaker
       ELSE bundle' = None /\ UNCHANGED primitive /\ Close("ok")

Disable ==
    /\ task = "disable" /\ UNCHANGED <<existed, faults>>
    /\ IF bundle = None THEN Close("failed") /\ UNCHANGED pacemaker
       ELSE /\ bundle' = Switched(FALSE)
            /\ primitive' = IF primitive = "absent" THEN "absent" ELSE "off"
            /\ Close("ok")

\* A command fails without effect, or the play is cut short before it.
PlayFails ==
    /\ task # "idle" /\ faults < MaxFaults /\ faults' = faults + 1
    /\ Close("failed") /\ UNCHANGED <<pacemaker, existed>>

Edit ==
    /\ task = "idle" /\ wanted < MaxRev /\ wanted' = wanted + 1 /\ exit' = "none"
    /\ UNCHANGED <<pacemaker, act, task, existed, faults>>

Play == Delete \/ Query \/ CreateBundle \/ CreatePrimitive \/ Bootstrap \/ Enable \/ Disable

Next == Play \/ PlayFails \/ Edit \/ \E a \in Actions : Start(a)

Spec == Init /\ [][Next]_vars

(***************************************************************************)
(* Properties                                                              *)
(***************************************************************************)
\* A reconfigure or upgrade that succeeds leaves the server running at the
\* wanted revision, whatever plays before it left (reconfigure.yml:2-6,
\* upgrade.yml:2-8).
RebuiltMeansCurrent ==
    exit = "ok" /\ Rebuilding => Running /\ bundle.rev = wanted

\* While the role rebuilds, nothing runs until every part is there and the
\* bootstrap is done: pacemaker is given the parts disabled
\* (config-pacemaker-resource.yml:51,60).
StartedLast ==
    [][~Running /\ Running' => task = "enable"]_vars

\* The role keeps the promise of Rebuildable, whatever is cut short: the
\* bundle changes in place only by being switched on and off, and only
\* force_update takes it away (config-pacemaker-resource.yml:2-11).
Abstract == INSTANCE Rebuildable WITH
    service <- IF bundle = None THEN None ELSE [rev |-> bundle.rev, up |-> Running],
    doing <- IF task = "idle" /\ exit = "none" THEN "none" ELSE act,
    report <- exit
RefinesRebuildable == Abstract!Spec
=============================================================================
