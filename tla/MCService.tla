------------------------------ MODULE MCService ------------------------------
(* Instances of Service for TLC.  Two process ids and two tokens: one more  *)
(* than is in use at a time, so that a new one differs from the one it      *)
(* replaces.                                                                *)
EXTENDS Service
=============================================================================
