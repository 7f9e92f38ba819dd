-------------------------------- MODULE MCLog --------------------------------
(***************************************************************************)
(* Small log streams for TLC: a wrapper that writes a line or two, one or  *)
(* two clients, and buffers with and without room for all lines.           *)
(***************************************************************************)
EXTENDS LogProperties

=============================================================================
