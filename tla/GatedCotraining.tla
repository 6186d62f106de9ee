---------------------------- MODULE GatedCotraining ----------------------------
(***************************************************************************)
(* Experiments that train one model on all regimes in the same step, each    *)
(* through its mask, and compare it with controls: the wide classifier        *)
(* (capacity_preserving_wide_classifier.py), the DistilBERT reproduction       *)
(* (reproduce_distilbert_classification.py) and the two generative ones       *)
(* (modal_generative_ffn.py, modal_generative_full.py).  They claim accuracy, *)
(* not isolation.                                                           *)
(***************************************************************************)
EXTENDS TrainingStep

\* The baseline of a generative model is scored without masks: every lane is read.
Baseline(next) ==
  /\ pc = "control"
  /\ score' = [r \in Regimes |-> [g \in Present |-> value[g]]]
  /\ pc' = next
  /\ UNCHANGED <<design, at, steps, value, grad, moment, initial, before, lone, found, report,
                 learnt, leaks>>

LoadGated ==
  /\ pc = "load"
  /\ value' = Fresh /\ grad' = NoTrace /\ pc' = "start"
  /\ UNCHANGED <<design, at, steps, moment, initial, before, result, leaks>>

StartCotraining ==
  /\ pc = "start"
  /\ moment' = NewMoments /\ steps' = 0 /\ pc' = "train"
  /\ UNCHANGED <<design, at, value, grad, initial, before, result, leaks>>

\* The gradient of a group is summed over the regimes that read it, each of them
\* computed through its own mask from the same parameters.
Summed == [g \in Groups |->
  LET readers == {r \in Regimes : g \in Model.reads[r]} IN
  IF readers = {} THEN grad[g] ELSE UNION {Flow(r) : r \in readers}]

\* One step of one optimizer over the whole model.
CotrainedBatch ==
  /\ pc = "train" /\ steps < Steps
  /\ steps' = steps + 1
  /\ grad' = Summed
  /\ Step(Present, "decay", Summed)
  /\ UNCHANGED <<design, pc, at, initial, before, result>>

\* Every regime is scored through its mask.
CotrainedScore ==
  /\ pc = "train" /\ steps = Steps
  /\ score' = [r \in Regimes |-> Computed(r)]
  /\ pc' = "report"
  /\ UNCHANGED <<design, at, steps, value, grad, moment, initial, before, lone, found, report,
                 learnt, leaks>>

Reports(results) ==
  /\ pc = "report"
  /\ report' \in results
  /\ pc' = "done"
  /\ UNCHANGED <<design, at, steps, value, grad, moment, initial, before, lone, found, score,
                 learnt, leaks>>

--------------------------------------------------------------------------------
\* The wide classifier descends in place, without an optimizer: in an epoch a lane gets
\* the rows of its regime, the output bias all of them.
WideStart == design = "wide" /\ StartCotraining
WideBatch ==
  /\ design = "wide" /\ pc = "train" /\ steps < Steps
  /\ steps' = steps + 1
  /\ value' = [g \in Groups |->
       IF Summed[g] = None THEN value[g]
       ELSE [n |-> value[g].n + 1, from |-> value[g].from \cup Summed[g]]]
  /\ UNCHANGED <<design, pc, at, grad, moment, initial, before, result, leaks>>

\* Its callbacks pass the preflight; its verdict is up to the accuracy and the probe.
WideScore == design = "wide" /\ (\A r \in Regimes : Authorized(r)) /\ CotrainedScore
WideReport == design = "wide" /\ Reports(IF Probed THEN {"pass", "failed"} ELSE {"failed"})

\* DistilBERT: separate classifiers, each with a seed and an optimizer of its own and
\* scored before the next begins; then the gated model.
TrainControl ==
  /\ design = "distilbert" /\ pc = "control" /\ at < R
  /\ at' = at + 1
  /\ \E leak \in 0..1 :
       /\ leak + leaks <= MaxLeaks
       /\ leaks' = leaks + leak
       /\ lone' = [lone EXCEPT ![at + 1] =
             [n |-> Steps + leak, from |-> {at + 1} \cup (IF leak = 1 THEN {Leak} ELSE {})]]
  /\ pc' = IF at' = R THEN "load" ELSE "control"
  /\ UNCHANGED <<design, steps, value, grad, moment, initial, before, found, score, report,
                 learnt>>
DistilBertStart == design = "distilbert" /\ (LoadGated \/ StartCotraining)
DistilBertBatch == design = "distilbert" /\ CotrainedBatch
DistilBertScore == design = "distilbert" /\ CotrainedScore
DistilBertReport == design = "distilbert" /\ Reports({"complete"})

\* The FFN experiment drops the model of its baseline, the full one trains it.
FfnBaseline == design = "generative_ffn" /\ Baseline("load")
FfnTrain == design = "generative_ffn" /\ (LoadGated \/ StartCotraining \/ CotrainedBatch)
FfnReport == design = "generative_ffn" /\ (CotrainedScore \/ Reports({"complete"}))

FullBaseline == design = "generative_full" /\ Baseline("start")
FullTrain == design = "generative_full" /\ (StartCotraining \/ CotrainedBatch)
FullReport == design = "generative_full" /\ (CotrainedScore \/ Reports({"complete"}))
================================================================================
