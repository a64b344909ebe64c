----------------------------- MODULE MCSiteFiles -----------------------------
(***************************************************************************)
(* A key pair, a key that may stay blank, and two passwords, one of which  *)
(* comes with the second release.                                          *)
(***************************************************************************)
EXTENDS SiteFiles

MCKeys == <<"docker_registry_password", "furion", "lulu_selfcert", "pdns">>
MCTypings == { {}, {<<"lulu_selfcert", 1>>, <<"pdns", 1>>} }
MCShipped == <<Range(MCKeys) \ {"furion"}, Range(MCKeys)>>
=============================================================================
