----------------------------- MODULE MCSysProxy -----------------------------
(* Instances of SysProxy for TLC. *)
EXTENDS SysProxy

\* State constraint: the properties promise nothing once "spoiled" is set, and
\* it stays set, so nothing beyond such a state needs to be looked at.
MCNotSpoiled == ~spoiled
=============================================================================
