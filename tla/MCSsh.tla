-------------------------------- MODULE MCSsh --------------------------------
(***************************************************************************)
(* A head node for TLC, with or without a jump host: jobs that check out   *)
(* of one repository, and a coroutine that holds the connection.           *)
(***************************************************************************)
EXTENDS SshProperties

=============================================================================
