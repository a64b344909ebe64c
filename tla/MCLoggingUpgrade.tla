-------------------------- MODULE MCLoggingUpgrade --------------------------
(***************************************************************************)
(* Three hosts: a cluster keeps its master when one of them is stopped,    *)
(* and loses it when two are; one can leave the play while two go on.      *)
(***************************************************************************)
EXTENDS LoggingUpgrade
CONSTANTS h1, h2, h3
=============================================================================
