----------------------------- MODULE MCUpdater -----------------------------
(* A small instance of Updater.                                             *)
EXTENDS Updater

CONSTANTS c1, c2
=============================================================================
