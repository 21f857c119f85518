---------------------------- MODULE MCTelemetry ----------------------------
(***************************************************************************)
(* Instance of Telemetry for TLC: two file names, two starts of the board  *)
(* and three messages, so that both threads are in send_telem at once with *)
(* a message of one of them in the file already, or after a loss of power. *)
(* A start that finds no unused name is StartFails, possible at any time.  *)
(***************************************************************************)
EXTENDS Telemetry
=============================================================================
