---------------------------- MODULE MCProvision -----------------------------
(***************************************************************************)
(* Small instances of Provision: own hostnames, and two rows of            *)
(* servers.csv whose hostnames differ only in case.                        *)
(***************************************************************************)
EXTENDS Provision, TLC
CONSTANTS u1, u2
MCHostnamings == { (u1 :> "h1") @@ (u2 :> "h2"), (u1 :> "h1") @@ (u2 :> "h1") }
=============================================================================
