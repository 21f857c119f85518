------------------------------ MODULE MCFlight ------------------------------
(***************************************************************************)
(* Instance of Flight for TLC.  The thresholds keep their order and the    *)
(* sensors return a value on each side of every threshold.                 *)
(***************************************************************************)
EXTENDS Flight

MCHeights   == {0, 2, 5}
MCLuxes     == {0, 1}
MCDistances == {0, 1}
=============================================================================
