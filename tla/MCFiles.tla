------------------------------- MODULE MCFiles -------------------------------
(***************************************************************************)
(* Two jobs with one cache_key for TLC, with one of them looked at.        *)
(***************************************************************************)
EXTENDS FilesProperties

=============================================================================
