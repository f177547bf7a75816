----------------------------- MODULE MCHistory -----------------------------
(***************************************************************************)
(* The same configurations for the daemon with its history.                *)
(***************************************************************************)
EXTENDS MCDaemon, DaemonHistory
=============================================================================
