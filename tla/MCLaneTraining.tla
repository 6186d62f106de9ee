---------------------------- MODULE MCLaneTraining -----------------------------
(* Three regimes, two batches a phase, and one write that should not happen. *)
EXTENDS LaneTraining

AllDesigns == Experiments
================================================================================
