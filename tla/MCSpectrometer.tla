--------------------------- MODULE MCSpectrometer ---------------------------
(* Small instances of Spectrometer: clients that come, go and come back     *)
(* while frames are sent, and two frame buffers, of which one is always    *)
(* left to the driver.                                                     *)
EXTENDS Spectrometer
=============================================================================
