--------------------------- MODULE MCServerStatus ---------------------------
(***************************************************************************)
(* A small instance of ServerStatus: four calls that share prefixes, urls  *)
(* and response codes in every combination the maps distinguish.           *)
(***************************************************************************)
EXTENDS ServerStatus

MCRequests == 1..4
MCPrefixOf == <<"/echo", "/echo", "/echo", "Not Found">>
MCUrlOf    == <<"/echo", "/echo", "/echo/a", "/echo">>
MCCodeOf   == <<200, 500, 200, 404>>
=============================================================================
