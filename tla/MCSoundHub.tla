------------------------------ MODULE MCSoundHub ------------------------------
(* A small instance of SoundHub: several connections that break at once,    *)
(* next to one that lives, and buffers that fill up.                        *)
EXTENDS SoundHub
=============================================================================
