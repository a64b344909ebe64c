---------------------------- MODULE MCPcsMariadb ----------------------------
(***************************************************************************)
(* Two hosts of one shard: enough for a host to leave the play while the   *)
(* other goes on.                                                          *)
(***************************************************************************)
EXTENDS PcsMariadb
CONSTANTS h1, h2
=============================================================================
