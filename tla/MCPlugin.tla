------------------------------ MODULE MCPlugin ------------------------------
(* Small instances of Plugin for TLC.                                      *)
EXTENDS Plugin
MCLoops == {11, 12}
=============================================================================
