-------------------------- MODULE MCSpectrumLink --------------------------
(***************************************************************************)
(* Instances of SpectrumLink for TLC: spectra of one packet; pictures of   *)
(* two or three packets, and pictures that all have two.                   *)
(***************************************************************************)
EXTENDS SpectrumLink

VaryingSizes == [s \in Streams |-> IF s = "picture" THEN {2, 3} ELSE {1}]
EqualSizes   == [s \in Streams |-> IF s = "picture" THEN {2} ELSE {1}]
=============================================================================
