------------------------------ MODULE Rollout -------------------------------
(***************************************************************************)
(* What a role that rolls a service out promises: every host's container   *)
(* and the tables of the database only ever move forward, to a revision    *)
(* that was wanted, whoever moves them; and a play that reports success    *)
(* has moved every container, and the tables if it was an upgrade.         *)
(***************************************************************************)
EXTENDS Naturals

CONSTANTS Hosts,
          MaxRev, \* bound: edits of the configuration
          None

VARIABLES at,     \* revision each host's container runs at, or None
          tables, \* revision of the tables, or None
          wanted,
          upgrading, \* an upgrade runs
          report  \* of the last play: "none" while it runs, after an edit,
                  \* and after a play that moves nothing

vars == <<at, tables, wanted, upgrading, report>>

Behind(r, s) == s # None /\ (r = None \/ r < s)

Init == at = [h \in Hosts |-> None] /\ tables = None /\ wanted = 0
        /\ upgrading = FALSE /\ report = "none"

Begin == upgrading' \in BOOLEAN /\ report' = "none" /\ UNCHANGED <<at, tables, wanted>>

Migrate ==
    /\ tables' = wanted /\ Behind(tables, wanted)
    /\ UNCHANGED <<at, wanted, upgrading, report>>

Move(h, r) ==
    /\ Behind(at[h], r) /\ r <= wanted
    /\ at' = [at EXCEPT ![h] = r] /\ UNCHANGED <<tables, wanted, upgrading, report>>

End(how) ==
    /\ report' = how /\ upgrading' = FALSE
    /\ how = "ok" => \A h \in Hosts : at[h] = wanted
    /\ how = "ok" /\ upgrading => tables = wanted
    /\ UNCHANGED <<at, tables, wanted>>

Edit ==
    /\ wanted < MaxRev /\ wanted' = wanted + 1 /\ report' = "none"
    /\ UNCHANGED <<at, tables, upgrading>>

Next ==
    \/ Begin \/ Migrate \/ Edit
    \/ \E h \in Hosts, r \in 0..MaxRev : Move(h, r)
    \/ \E how \in {"none", "ok", "failed"} : End(how)

Spec == Init /\ [][Next]_vars
=============================================================================
