--------------------------- MODULE MCServiceRole ----------------------------
(***************************************************************************)
(* Three hosts, all at once or in batches of two.                          *)
(***************************************************************************)
EXTENDS ServiceRole
CONSTANTS h1, h2, h3
=============================================================================
