-------------------------- MODULE MCLegacyMonitor --------------------------
(* Two fragments and one key of another client.                             *)
EXTENDS LegacyMonitor
CONSTANTS a, b, foreign
MCFragment == {a, b}
MCKey      == {a, b, foreign}
=============================================================================
