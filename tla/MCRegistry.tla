----------------------------- MODULE MCRegistry -----------------------------
(* Registry for TLC.  One member and one clone are configured, two slots per *)
(* array leave room for the admin to append, delete and reuse a slot.        *)
EXTENDS Registry

OneOfEach  == [members |-> 1, clones |-> 1]
=============================================================================
