---------------------------- MODULE MCStatusPanel ----------------------------
(* A small instance of StatusPanel: two statuses, one after the other.      *)
EXTENDS StatusPanel
=============================================================================
