---------------------------- MODULE MCGpsReader ----------------------------
(***************************************************************************)
(* Instance of GpsReader for TLC: a buffer of five bytes, so that every    *)
(* way to fill it happens, and two reads per call, so that sentences span  *)
(* calls.                                                                  *)
(***************************************************************************)
EXTENDS GpsReader
=============================================================================
