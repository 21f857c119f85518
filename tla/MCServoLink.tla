----------------------------- MODULE MCServoLink -----------------------------
(* ServoLink with the constants of the code and angles at, beyond and       *)
(* between the ends of the range.                                          *)
EXTENDS ServoLink
MCAngles == {-1, 0, 10, 148, 178, 180, 181}
=============================================================================
