--------------------------- MODULE MCPcsRabbitmq ----------------------------
(***************************************************************************)
(* One bundle; the bounds are given in the configurations.                 *)
(***************************************************************************)
EXTENDS PcsRabbitmq
=============================================================================
