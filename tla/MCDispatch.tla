----------------------------- MODULE MCDispatch ------------------------------
(***************************************************************************)
(* Small servers for TLC: one or two jobs, a backend, and what may happen, *)
(* all given by the configurations.                                        *)
(***************************************************************************)
EXTENDS DispatchProperties

=============================================================================
