------------------------------ MODULE SiteFiles ------------------------------
(***************************************************************************)
(* The files of a site in /etc/maine across updates of the package: its    *)
(* passwords and its inventory.  The operator runs one command at a time,  *)
(* and an update brings the template of the passwords and the inventory of *)
(* the new release together, to be taken in in either order.               *)
(***************************************************************************)
EXTENDS Passwords, MergeInventory

ASSUME SiteAssumption == Releases \subseteq ReleaseNos

sitevars == <<vars, mvars>>

TypeOK == PasswordsTypeOK /\ MergeTypeOK

Init == PasswordsInit /\ MergeInit

PasswordCommand == at = "idle" /\ PasswordsNext /\ UNCHANGED mvars
InventoryCommand == pc = "idle" /\ MergeNext /\ UNCHANGED vars

UpdatePackage ==
    /\ pc = "idle" /\ release + 1 \in Releases /\ release' = release + 1
    /\ PutRpmnew(release')
    /\ UNCHANGED <<site, old, new, passwords, pc, used, kills>>

Next ==
    /\ PasswordCommand \/ InventoryCommand \/ UpdatePackage
    /\ kills' + mergeKills' <= MaxKills

Spec == Init /\ [][Next]_sitevars
=============================================================================
