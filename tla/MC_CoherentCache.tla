-------------------------- MODULE MC_CoherentCache --------------------------
(* CoherentCache instantiated for TLC.  Every bound is a constant of the    *)
(* module; the configurations choose them.                                 *)
EXTENDS CoherentCache
=============================================================================
