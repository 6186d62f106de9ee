-------------------------- MODULE MCContinuedTraining --------------------------
(* Two regimes and three continued conditions, each longer than the one before. *)
EXTENDS ContinuedTraining

MCFractions == <<1, 2, 3>>
================================================================================
