------------------------------- MODULE MCViews -------------------------------
(***************************************************************************)
(* A small workflow database for TLC.                                      *)
(***************************************************************************)
EXTENDS ViewsProperties

=============================================================================
