---------------------------- MODULE MergeInventory ---------------------------
(***************************************************************************)
(* `maine-diffinventory --merge`: after an update of the package, the part *)
(* of the inventory between CUSTOMIZE BEGIN and CUSTOMIZE END, which is    *)
(* the operator's, is put into the inventory of the new release.  Both     *)
(* files are opened to be written, nested, and only one gets the text; the *)
(* backup is written last.                                                 *)
(***************************************************************************)
EXTENDS Naturals

CONSTANTS Blocks,    \* what the operator may write between the markers
          ReleaseNos,
          NoBlock    \* a text that lacks a marker

ASSUME MergeAssumption == NoBlock \notin Blocks /\ 0 \notin ReleaseNos

\* A text: its CUSTOMIZE block, and the release the rest is of; 0 if the rest
\* was cut.
Texts == [block : Blocks \cup {NoBlock}, rest : ReleaseNos \cup {0}]
Nothing == [block |-> NoBlock, rest |-> 0]

VARIABLES hosts,   \* /etc/maine/ustack-hosts
          rpmnew,  \* /etc/maine/ustack-hosts.rpmnew; Nothing: not there, or empty
          baks,    \* texts of the backups beside it
          oi, ni,  \* the texts merge_inventory has read
          at,      \* where it is
          block,   \* the operator's last block
          newest,  \* release of the last rpmnew
          torn,    \* hosts is what a kill left of it
          lost,    \* release whose rpmnew a kill found truncated, or 0
          mergeKills \* SiteFiles bounds it

mvars == <<hosts, rpmnew, baks, oi, ni, at, block, newest, torn, lost, mergeKills>>

MergeTypeOK ==
    /\ {hosts, rpmnew, oi, ni} \cup baks \subseteq Texts
    /\ at \in {"idle", "read", "new_open", "old_open", "bak"}
    /\ block \in Blocks /\ newest \in ReleaseNos /\ torn \in BOOLEAN
    /\ lost \in ReleaseNos \cup {0} /\ mergeKills \in Nat

MergeInit ==
    /\ block \in Blocks /\ newest = 1 /\ hosts = [block |-> block, rest |-> 1]
    /\ rpmnew = Nothing /\ baks = {} /\ oi = Nothing /\ ni = Nothing
    /\ at = "idle" /\ torn = FALSE /\ lost = 0 /\ mergeKills = 0

Leave == at' = "idle" /\ oi' = Nothing /\ ni' = Nothing

Read ==
    /\ at = "idle" /\ at' = "read" /\ oi' = hosts /\ ni' = rpmnew
    /\ UNCHANGED <<hosts, rpmnew, baks, block, newest, torn, lost, mergeKills>>

\* "Stop merging inventories!", and exit 0.
Stop ==
    /\ at = "read" /\ (oi.block = NoBlock \/ ni.block = NoBlock) /\ Leave
    /\ UNCHANGED <<hosts, rpmnew, baks, block, newest, torn, lost, mergeKills>>

\* Mutant: the new file is removed.
NewRemoved ==
    /\ at = "read" /\ oi.block # NoBlock /\ ni.block # NoBlock
    /\ at' = "new_open" /\ rpmnew' = NoBlock
    /\ UNCHANGED <<hosts, baks, oi, ni, block, newest, torn, lost, mergeKills>>

\* open(new, 'w'): nothing is ever written to it, because the inner `f` hides
\* the outer one.
OpenNew ==
    /\ at = "read" /\ oi.block # NoBlock /\ ni.block # NoBlock
    /\ at' = "new_open" /\ rpmnew' = Nothing
    /\ UNCHANGED <<hosts, baks, oi, ni, block, newest, torn, lost, mergeKills>>

OpenOld ==
    /\ at = "new_open" /\ at' = "old_open" /\ hosts' = Nothing
    /\ UNCHANGED <<rpmnew, baks, oi, ni, block, newest, torn, lost, mergeKills>>

\* Mutant: the new file's block goes into the old file.
ContentReversed == [block |-> ni.block, rest |-> oi.rest]

content == [block |-> oi.block, rest |-> ni.rest]

WriteOld ==
    /\ at = "old_open" /\ at' = "bak" /\ hosts' = content /\ torn' = FALSE
    /\ UNCHANGED <<rpmnew, baks, oi, ni, block, newest, lost, mergeKills>>

WriteBak ==
    /\ at = "bak" /\ baks' = baks \cup {oi} /\ Leave
    /\ UNCHANGED <<hosts, rpmnew, block, newest, torn, lost, mergeKills>>

\* A kill with the old inventory open leaves a prefix of the text, which
\* begins with the block; the package's is empty by then, and one step before.
MergeKill ==
    /\ at # "idle" /\ mergeKills' = mergeKills + 1 /\ Leave
    /\ IF at = "old_open"
       THEN torn' = TRUE /\ hosts' \in {Nothing, [block |-> oi.block, rest |-> 0]}
       ELSE UNCHANGED <<hosts, torn>>
    /\ lost' = IF at \in {"new_open", "old_open"} THEN newest ELSE lost
    /\ UNCHANGED <<rpmnew, baks, block, newest>>

\* The operator edits his block, writing the markers anew if they are gone.
EditBlock ==
    /\ at = "idle" /\ block' \in Blocks \ {block} /\ hosts' = [hosts EXCEPT !.block = block']
    /\ torn' = FALSE
    /\ UNCHANGED <<rpmnew, baks, oi, ni, at, newest, lost, mergeKills>>

\* The package leaves the changed inventory alone and puts its own beside it,
\* with the block it ships.
PutRpmnew(r) ==
    /\ at = "idle" /\ rpmnew' = [block |-> CHOOSE b \in Blocks : TRUE, rest |-> r] /\ newest' = r
    /\ UNCHANGED <<hosts, baks, oi, ni, at, block, torn, lost, mergeKills>>

MergeStep == Stop \/ OpenNew \/ OpenOld \/ WriteOld \/ WriteBak
MergeNext == Read \/ MergeStep \/ EditBlock \/ MergeKill

(***************************************************************************)
(* Properties                                                              *)
(***************************************************************************)
\* The inventory in force has the operator's block, but for a file that a kill
\* emptied while it was open (diffinventory.py:86) and nobody has edited since.
\* It has the rest of the last release, or the package's inventory still has it
\* for the next merge: a killed merge leaves it there, but for one of this
\* release killed between the truncation (:82) and the write (:87).
InventoryMerged ==
    at = "idle" =>
        /\ hosts.block = block \/ (torn /\ hosts = Nothing)
        /\ hosts.rest = newest \/ rpmnew.rest = newest \/ lost = newest
=============================================================================
