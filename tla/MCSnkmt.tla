------------------------------- MODULE MCSnkmt -------------------------------
(***************************************************************************)
(* Small instances of SnkmtSync for TLC: three versions of the database    *)
(* and three files for its copies.                                         *)
(***************************************************************************)
EXTENDS SnkmtProperties

=============================================================================
