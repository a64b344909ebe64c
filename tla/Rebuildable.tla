---------------------------- MODULE Rebuildable -----------------------------
(***************************************************************************)
(* What a role that keeps a service under pacemaker promises.  The service *)
(* is absent, or made at the wanted revision and then up or down.  It gets *)
(* another revision only by being taken away and made anew, which only a   *)
(* reconfigure or an upgrade does; nothing else but a stop takes it down;  *)
(* it changes only while a play runs; and a reconfigure or an upgrade      *)
(* reports success only when it is up at the wanted revision.              *)
(***************************************************************************)
EXTENDS Naturals

CONSTANTS MaxRev, \* bound: edits of the configuration
          None

VARIABLES service, \* None, or its revision and whether it is up
          wanted,
          doing,   \* the play that runs, or whose report stands, or "none"
          report   \* of that play, "none" while it runs

vars == <<service, wanted, doing, report>>

Rebuilds == {"reconfigure", "upgrade"}
Plays == Rebuilds \cup {"deploy", "stop"}
InPlay == doing # "none" /\ report = "none"

Init == service = None /\ wanted = 0 /\ doing = "none" /\ report = "none"

Begin(p) ==
    /\ ~InPlay /\ doing' = p /\ report' = "none" /\ UNCHANGED <<service, wanted>>

TakeAway == doing \in Rebuilds /\ service' = None
Make == doing # "stop" /\ service = None /\ service' = [rev |-> wanted, up |-> FALSE]
Switch == service # None /\ service' = [rev |-> service.rev, up |-> doing # "stop"]

Work == InPlay /\ (TakeAway \/ Make \/ Switch) /\ UNCHANGED <<wanted, doing, report>>

\* The last command of a play may be the one that switches.
End(how) ==
    /\ InPlay /\ report' = how /\ UNCHANGED <<wanted, doing>>
    /\ Switch \/ UNCHANGED service
    /\ how = "ok" /\ doing \in Rebuilds => service' = [rev |-> wanted, up |-> TRUE]

\* The site is edited, or changes in another way: the last report is void.
Edit ==
    /\ ~InPlay /\ wanted' \in {wanted, wanted + 1} /\ wanted' <= MaxRev
    /\ doing' = "none" /\ report' = "none" /\ UNCHANGED service

Next ==
    \/ \E p \in Plays : Begin(p)
    \/ \E how \in {"ok", "failed"} : End(how)
    \/ Work \/ Edit

Spec == Init /\ [][Next]_vars
=============================================================================
