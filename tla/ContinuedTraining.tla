--------------------------- MODULE ContinuedTraining ---------------------------
(***************************************************************************)
(* The matched adaptation experiment (research/cdp/experiments/              *)
(* modal_matched_adaptation.py).  A model per regime is trained without      *)
(* gates and checkpointed with its optimizer; later conditions continue the  *)
(* checkpoints, each for its fraction of the steps; at last one model is     *)
(* trained by all regimes.                                                  *)
(*                                                                         *)
(* Parameters and optimizer state are the number of batches they have taken  *)
(* in.  Optimizer state lives in cells, because a checkpoint and a running    *)
(* optimizer may hold the same tensors: a cell for the optimizer of the       *)
(* moment (0) and one for the checkpoint of each regime.                     *)
(***************************************************************************)
EXTENDS Integers, Sequences

CONSTANTS
  R,            \* regimes
  BaseSteps,    \* batches of the ungated training, and of the joint one
  Fractions     \* ADAPTATION_FRACTIONS: batches of each continued condition

Regimes == 1..R
Own == 0

VARIABLES
  stage,        \* "ungated", "frozen", "continued", "cotrained", "done"
  k,            \* of the continued conditions, the one at hand
  at,           \* the regime
  running,      \* "no", or "yes" while the regime trains
  model,        \* parameters of the model of the moment
  opt,          \* the cell its optimizer holds
  cell,         \* optimizer state by cell
  checkpoint,   \* parameters of ungated_checkpoints
  steps,        \* completed, of train_separate and train_cotrained
  status,       \* of the artifact
  trained       \* by regime, the optimizer state when its ungated training ended

vars == <<stage, k, at, running, model, opt, cell, checkpoint, steps, status, trained>>

Budget == IF stage = "continued" THEN Fractions[k] ELSE BaseSteps

Init ==
  /\ stage = "ungated" /\ k = 1 /\ at = 1 /\ running = "no" /\ steps = 0 /\ status = "running"
  /\ model = 0 /\ opt = Own /\ cell = [c \in {Own} \cup Regimes |-> 0]
  /\ checkpoint = [r \in Regimes |-> 0] /\ trained = [r \in Regimes |-> 0]

\* The next regime of a condition, or the next condition.
Advance ==
  /\ running' = "no"
  /\ IF at < R THEN at' = at + 1 /\ UNCHANGED <<stage, k>>
     ELSE /\ at' = 1
          /\ stage' = CASE stage = "ungated" -> "frozen"
                       [] stage = "frozen" -> "continued"
                       [] stage = "continued" -> IF k < Len(Fractions) THEN stage ELSE "cotrained"
          /\ k' = IF stage = "continued" THEN k + 1 ELSE k

\* make_optimizer on a model with the parameters given: no state yet.
StartFresh(parameters) ==
  /\ model' = parameters /\ opt' = Own /\ cell' = [cell EXCEPT ![Own] = 0]

\* Optimizer.load_state_dict of torch: a tensor of the right type on the right device
\* is taken as it is, so that the optimizer steps the tensors of the checkpoint.
LoadOptimizer(r) == opt' = r /\ cell' = cell

\* The model and optimizer of a condition begin: from the initial state, or from the
\* checkpoint, whose parameters are copied into the model.
StartUngated ==
  /\ stage = "ungated" /\ running = "no"
  /\ StartFresh(0) /\ steps' = 0 /\ running' = "yes"
  /\ UNCHANGED <<stage, k, at, checkpoint, status, trained>>

StartContinued ==
  /\ stage = "continued" /\ running = "no"
  /\ model' = checkpoint[at] /\ LoadOptimizer(at)
  /\ steps' = 0 /\ running' = "yes"
  /\ UNCHANGED <<stage, k, at, checkpoint, status, trained>>

StartCotrained ==
  /\ stage = "cotrained" /\ running = "no"
  /\ StartFresh(0) /\ steps' = 0 /\ running' = "yes"
  /\ UNCHANGED <<stage, k, at, checkpoint, status, trained>>

\* A batch of train_separate: the step writes the state the optimizer holds in place.
TrainSeparate ==
  /\ stage # "cotrained" /\ running = "yes" /\ steps < Budget
  /\ steps' = steps + 1 /\ model' = model + 1
  /\ cell' = [cell EXCEPT ![opt] = @ + 1]
  /\ UNCHANGED <<stage, k, at, running, opt, checkpoint, status, trained>>

TrainCotrained ==
  /\ stage = "cotrained" /\ running = "yes" /\ steps < Budget
  /\ steps' = steps + 1 /\ model' = model + 1
  /\ cell' = [cell EXCEPT ![opt] = @ + 1]
  /\ UNCHANGED <<stage, k, at, running, opt, checkpoint, status, trained>>

\* The checkpoint: parameters cloned to the host, optimizer state copied in depth.
CheckpointUngated ==
  /\ stage = "ungated" /\ running = "yes" /\ steps = Budget
  /\ checkpoint' = [checkpoint EXCEPT ![at] = model]
  /\ cell' = [cell EXCEPT ![at] = cell[opt]]
  /\ trained' = [trained EXCEPT ![at] = cell[opt]]
  /\ Advance
  /\ UNCHANGED <<model, opt, steps, status>>

\* The gate over the trained model, nothing trained.
EvaluateFrozen ==
  /\ stage = "frozen"
  /\ model' = checkpoint[at]
  /\ Advance
  /\ UNCHANGED <<opt, cell, checkpoint, steps, status, trained>>

EndContinued ==
  /\ stage = "continued" /\ running = "yes" /\ steps = Budget
  /\ Advance
  /\ UNCHANGED <<model, opt, cell, checkpoint, steps, status, trained>>

EndCotrained ==
  /\ stage = "cotrained" /\ running = "yes" /\ steps = Budget
  /\ stage' = "done" /\ status' = "complete" /\ running' = "no"
  /\ UNCHANGED <<k, at, model, opt, cell, checkpoint, steps, trained>>

\* Whatever is raised is archived.
Fail ==
  /\ stage # "done"
  /\ stage' = "done" /\ status' = "failed"
  /\ UNCHANGED <<k, at, running, model, opt, cell, checkpoint, steps, trained>>

Next ==
  \/ StartUngated \/ StartContinued \/ StartCotrained \/ TrainSeparate \/ TrainCotrained
  \/ CheckpointUngated \/ EvaluateFrozen \/ EndContinued \/ EndCotrained \/ Fail

Spec == Init /\ [][Next]_vars

--------------------------------------------------------------------------------
\* "independent continuations from each ungated checkpoint and its optimizer state":
\* a continued condition begins with the parameters and with the optimizer state that
\* the ungated training of its regime ended with, whatever ran in between.
ContinuesFromCheckpoint ==
  stage = "continued" /\ running = "yes" /\ steps = 0 =>
    model = checkpoint[at] /\ cell[opt] = trained[at]
================================================================================
