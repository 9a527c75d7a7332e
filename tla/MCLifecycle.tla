---------------------------- MODULE MCLifecycle -----------------------------
(* Lifecycle for TLC.  Two instances: one that runs, fails or is stopped     *)
(* while another one starts.                                                 *)
EXTENDS Lifecycle
=============================================================================
