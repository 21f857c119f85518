------------------------------ MODULE Mission ------------------------------
(***************************************************************************)
(* What the flight computer of the CanSat promises about its mission,      *)
(* without sensors, clocks or the order of the main loop: the mission goes *)
(* through the phases of gr_state_t one at a time, the pyrotechnic charge  *)
(* of a phase fires exactly when that phase is left, and a reset starts    *)
(* the mission over while the charges that were fired stay spent.          *)
(***************************************************************************)
EXTENDS Integers

VARIABLES
    phase,   \* the phase of the mission, a value of gr_state_t
    spent    \* the charges that have been fired since the CanSat was packed

vars == <<phase, spent>>

\* gr_state_t, in the order of the C enumeration.
BOOTING        == 0
READY          == 1
LOADED         == 2
FREE_FALL      == 3
AWAITING_CHUTE == 4
PRE_LANDING    == 5
LANDED         == 6

Phases == BOOTING..LANDED

Charges == {"CHUTE_DEPLOY", "LEGS_DEPLOY", "CHUTE_CUT"}

\* The charges that fire when phase p is left (none in the quiet phases).
ChargesOf(p) == CASE p = FREE_FALL      -> {"CHUTE_DEPLOY"}
                  [] p = AWAITING_CHUTE -> {"LEGS_DEPLOY"}
                  [] p = PRE_LANDING    -> {"CHUTE_CUT"}
                  [] OTHER              -> {}

Init == phase = BOOTING /\ spent = {}

Advance ==
    /\ phase < LANDED
    /\ phase' = phase + 1
    /\ spent' = spent \cup ChargesOf(phase)

Restart ==
    /\ phase' = BOOTING
    /\ UNCHANGED spent

Next == Advance \/ Restart

Spec == Init /\ [][Next]_vars
=============================================================================
