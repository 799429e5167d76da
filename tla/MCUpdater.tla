------------------------------- MODULE MCUpdater -------------------------------
(* A host with two identities, for TLC.                                     *)
EXTENDS Updater

CONSTANTS n, p, agent, unit
=============================================================================
