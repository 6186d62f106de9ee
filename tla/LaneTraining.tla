------------------------------ MODULE LaneTraining -----------------------------
(***************************************************************************)
(* The training experiments themselves: what each trains, measures, scores   *)
(* and reports, and what may be read from a report.                          *)
(***************************************************************************)
EXTENDS PackedBanks, GatedCotraining

--------------------------------------------------------------------------------
\* The dense FFN experiment (modal_dense_ffn_cotenancy.py): masks select slices of
\* shared tensors, each regime has a head, and the backbone is frozen.

DenseFfnEntries(r) == {Lane(r), Head(r)}

DenseFfnPhase == design = "dense_ffn" /\ Begin(NewScopedMoments(DenseFfnEntries(at + 1)))

DenseFfnBatch == design = "dense_ffn" /\ Batch(DenseFfnEntries(at), "none")

\* Fault: the heads of the other regimes are not measured.
FaultHeadsUnmeasured ==
  Moved(initial, {Backbone}) \cup Moved(before.value, Others(Lanes)) \cup Stirred(Others(Lanes))

\* Found: the backbone against the start of the run, other slices and heads against
\* the start of the phase, moments of other slices.
DenseFfnMeasured ==
  Moved(initial, {Backbone}) \cup Moved(before.value, Others(Lanes \cup Heads))
  \cup Stirred(Others(Lanes))

DenseFfnMeasure == design = "dense_ffn" /\ EndPhase(DenseFfnMeasured, {}, "score")
DenseFfnScore == design = "dense_ffn" /\ Score
DenseFfnReport == design = "dense_ffn" /\ Verdict("pass", "separation_failure")

\* The local suite (local_transformer_cotenancy_suite.py) over features computed
\* beforehand: a regime is scored at the end of its own phase.

LocalDenseEntries(r) == {Lane(r)}

LocalDensePhase == design = "local_dense" /\ Begin(NewScopedMoments(LocalDenseEntries(at + 1)))
LocalDenseBatch == design = "local_dense" /\ Batch(LocalDenseEntries(at), "none")
LocalDenseMeasure ==
  /\ design = "local_dense"
  /\ EndPhase(Moved(before.value, Others(Lanes)) \cup Stirred(Others(Lanes)), {at}, "report")

\* Adapters and experts: an Adam of the library over the module of the regime.
LocalModulesTrain ==
  /\ design = "local_modules"
  /\ \/ Begin(NewMoments)
     \/ Batch({Lane(at)}, "none")
     \/ EndPhase(Moved(before.value, Others(Lanes)), {at}, "report")

LocalReport ==
  design \in {"local_dense", "local_modules"} /\ Verdict("pass", "separation_failure")

\* Private lanes on a frozen backbone (modal_private_transformer_lanes.py).
PrivateLanesTrain ==
  /\ design = "private_lanes"
  /\ \/ Begin(NewMoments)
     \/ Batch({Lane(at)}, "decay")
     \/ EndPhase(Moved(before.value, Others(Lanes)) \cup Moved(initial, {Backbone}), {}, "score")
PrivateLanesReport ==
  design = "private_lanes" /\ (Score \/ Verdict("pass", "separation_failure"))

--------------------------------------------------------------------------------
\* Matched deposition (modal_matched_deposition.py): one optimizer over all lanes for
\* the whole run, heads and backbone frozen, and a run that stops at the first
\* deposition that changed another lane or its optimizer state.

DepositionPhase == design = "deposition" /\ Begin(moment)
DepositionBatch == design = "deposition" /\ Batch(Lanes, "none")

\* delta_report of the lanes of the other regimes: values and moments.
OffPartition ==
  Moved(before.value, Others(Lanes)) \cup {g \in Others(Lanes) : moment[g] # before.moment[g]}

DepositionMeasure ==
  /\ design = "deposition" /\ pc = "train"
  /\ Moved(before.value, {Lane(at)}) # {} /\ OffPartition = {}
  /\ EndPhase(IF at < R THEN {} ELSE Moved(initial, Model.frozen), Regimes, "report")

DepositionFails ==
  /\ design = "deposition" /\ pc = "train" /\ steps = Steps
  /\ Moved(before.value, {Lane(at)}) = {} \/ OffPartition # {}
  /\ report' = "failed" /\ pc' = "done"
  /\ UNCHANGED <<design, at, steps, value, grad, moment, initial, before, lone, found, score,
                 learnt, leaks>>

\* The artifact is completed whatever the frozen parameters did: they are reported.
DepositionReport == design = "deposition" /\ Verdict("complete", "complete")

--------------------------------------------------------------------------------
\* The attention lanes (modal_attention_lane_stress.py): complete transformers side
\* by side, trained together on the sum of their losses, then each alone.

\* No two lanes may hold a parameter, storage, module or buffer in common.
Topology(owned) == \A l, r \in DOMAIN owned : l # r => owned[l] \cap owned[r] = {}

\* The topology of the lanes holds, that of an aliased pair is refused.  Then one step
\* of regime 1 in a model of its own, which is then dropped: what it finds
\* changed in another lane ends the run.
AttentionProbe ==
  /\ design = "attention" /\ pc = "probe"
  /\ Topology([r \in Regimes |-> {Lane(r)}])
  /\ ~Topology([r \in 1..2 |-> {Lane(1)}])
  /\ \E leak \in {{}} \cup {{g} : g \in Present} :
       /\ leak # {} => leaks < MaxLeaks
       /\ leaks' = leaks + Cardinality(leak)
       /\ IF leak \subseteq {Lane(1)}
          THEN pc' = "next" /\ UNCHANGED report
          ELSE pc' = "done" /\ report' = "failed"
  /\ UNCHANGED <<design, at, steps, value, grad, moment, initial, before, lone, found, score, learnt>>

AttentionBegin ==
  /\ design = "attention" /\ pc = "next"
  /\ moment' = NewMoments /\ steps' = 0 /\ pc' = "train"
  /\ UNCHANGED <<design, at, value, grad, initial, before, result, leaks>>

\* Fault: one norm for the whole model.
FaultClippedTogether(r) == UNION {Flow(q) : q \in Regimes}

\* Gradients are clipped lane by lane: the norm of a lane depends on its regime alone.
Clipped(r) == Flow(r)

AttentionBatch ==
  /\ design = "attention" /\ pc = "train" /\ steps < Steps
  /\ steps' = steps + 1
  /\ LET got == [g \in Groups |-> IF g \in Lanes THEN Clipped(g[2]) ELSE grad[g]] IN
     grad' = got /\ Step(Lanes, "decay", got)
  /\ UNCHANGED <<design, pc, at, initial, before, result>>

\* Every lane has optimizer state; the lanes are scored and copied.
AttentionScore ==
  /\ design = "attention" /\ pc = "train" /\ steps = Steps
  /\ \A r \in Regimes : moment[Lane(r)] # None
  /\ score' = [r \in Regimes |-> Computed(r)] /\ learnt' = score'
  /\ pc' = "control"
  /\ UNCHANGED <<design, at, steps, value, grad, moment, initial, before, lone, found, report, leaks>>

\* The next regime trains a lane in a model of its own on the same batches.
TrainSeparate ==
  /\ design = "attention" /\ pc = "control" /\ at < R
  /\ at' = at + 1
  /\ \E leak \in 0..1 :
       /\ leak + leaks <= MaxLeaks
       /\ leaks' = leaks + leak
       /\ lone' = [lone EXCEPT ![at + 1] = [n |-> Steps + leak,
             from |-> {at + 1} \cup (IF leak = 1 THEN {Leak} ELSE {})]]
  /\ UNCHANGED <<design, pc, steps, value, grad, moment, initial, before, found, score, report, learnt>>

\* The lanes that differ from their control are reported.
CompareSeparate ==
  /\ design = "attention" /\ pc = "control" /\ at = R
  /\ found' = {Lane(r) : r \in {q \in Regimes : value[Lane(q)] # lone[q]}}
  /\ report' = "complete" /\ pc' = "done"
  /\ UNCHANGED <<design, at, steps, value, grad, moment, initial, before, lone, score, learnt, leaks>>

--------------------------------------------------------------------------------
\* The factorial (modal_public_gate_adaptation_factorial.py): a public teacher, an
\* optional adaptation, then the stage of the tenants in a new model.

\* Training over the encoder and the public head with public data.
TrainPublic(next) ==
  /\ pc' = next
  /\ value' = [g \in Groups |->
       IF g \in {Backbone, PublicHead} \cup Lanes
       THEN [n |-> value[g].n + 1, from |-> value[g].from \cup {PublicData}] ELSE value[g]]
  /\ UNCHANGED <<design, at, steps, grad, moment, initial, before, result, leaks>>

TrainPublicTeacher == design = "factorial" /\ pc = "public" /\ TrainPublic("adapt")
AdaptPublic == design = "factorial" /\ pc = "adapt" /\ TrainPublic("stage")

\* The state of a condition, with or without extra adaptation, is loaded into a new
\* model whose tenant heads begin as the public one.
TenantStage ==
  /\ design = "factorial" /\ pc \in {"adapt", "stage"}
  /\ value' = [g \in Groups |-> IF g \in Heads THEN value[PublicHead] ELSE value[g]]
  /\ initial' = value'
  /\ grad' = NoTrace /\ pc' = "next"
  /\ UNCHANGED <<design, at, steps, moment, before, result, leaks>>

TenantEntries(r) == {Lane(r), Head(r)}
TenantPhase == design = "factorial" /\ Begin(NewScopedMoments(TenantEntries(at + 1)))
TenantBatch == design = "factorial" /\ Batch(TenantEntries(at), "none")
TenantMeasure ==
  /\ design = "factorial"
  /\ EndPhase(Moved(initial, {Backbone}) \cup Moved(before.value, Others(Lanes \cup Heads))
                \cup Stirred(Others(Lanes)), {}, "score")
TenantReport == design = "factorial" /\ (Score \/ Verdict("pass", "separation_failure"))

--------------------------------------------------------------------------------
\* The generative experiment (modal_generative_intermediate.py): one model trained by
\* all regimes together, gated and then not.  Its verdict rests on a probe, which
\* steps the model it is about to train and puts it back.

Load ==
  /\ design = "intermediate" /\ pc = "load"
  /\ at' = at + 1
  /\ value' = Fresh /\ grad' = NoTrace /\ moment' = NewMoments /\ steps' = 0
  /\ pc' = IF at = 0 THEN "probe" ELSE "train"
  /\ UNCHANGED <<design, initial, before, result, leaks>>

\* The batch of regime 1 through its mask; the step of SGD over the lanes of a layer.
ProbeStep ==
  /\ design = "intermediate" /\ pc = "probe"
  /\ before' = [before EXCEPT !.value = value]
  /\ \E leak \in {{}} \cup {{g} : g \in Present} :
       /\ leak # {} => leaks < MaxLeaks
       /\ leaks' = leaks + Cardinality(leak)
       /\ grad' = Backward(ZeroGrad(Lanes), 1, {Backbone, Lane(1)}, {1})
       /\ value' = [g \in Groups |->
            [n |-> value[g].n + (IF g = Lane(1) THEN 1 ELSE 0) + (IF g \in leak THEN 1 ELSE 0),
             from |-> value[g].from \cup (IF g = Lane(1) THEN {1} ELSE {})
                                    \cup (IF g \in leak THEN {Leak} ELSE {})]]
  /\ pc' = "restore"
  /\ UNCHANGED <<design, at, steps, moment, initial, result>>

\* Fault: the tensors are not copied back.
FaultProbeKept ==
  /\ design = "intermediate" /\ pc = "restore"
  /\ found' = Moved(before.value, Lanes \ {Lane(1)})
  /\ grad' = NoTrace
  /\ pc' = "train"
  /\ UNCHANGED <<design, at, steps, value, moment, initial, before, lone, score, report, learnt,
                 leaks>>

\* The checks, then the probed tensors are copied back and all gradients dropped.
ProbeRestore ==
  /\ design = "intermediate" /\ pc = "restore"
  /\ found' = Moved(before.value, Lanes \ {Lane(1)})
               \cup {g \in Lanes \ {Lane(1)} : grad[g] \notin {None, {}}}
  /\ value' = [g \in Groups |-> IF g \in Lanes THEN before.value[g] ELSE value[g]]
  /\ grad' = NoTrace
  /\ pc' = "train"
  /\ UNCHANGED <<design, at, steps, moment, initial, before, lone, score, report, learnt, leaks>>

\* The mean of all losses, its gradient clipped over the whole model.
IntermediateBatch ==
  /\ design = "intermediate" /\ pc = "train" /\ steps < Steps
  /\ steps' = steps + 1
  /\ LET got == [g \in Groups |-> IF g \in Present THEN UNION {Flow(r) : r \in Regimes}
                                                 ELSE grad[g]] IN
     grad' = got /\ Step(Present, "none", got)
  /\ UNCHANGED <<design, pc, at, initial, before, result>>

EvaluateCondition ==
  /\ design = "intermediate" /\ pc = "train" /\ steps = Steps
  /\ score' = [r \in Regimes |-> Computed(r)]
  /\ pc' = IF at = 1 THEN "load" ELSE "report"
  /\ UNCHANGED <<design, at, steps, value, grad, moment, initial, before, lone, found, report,
                 learnt, leaks>>

IntermediateReport == design = "intermediate" /\ Verdict("pass", "failed")

--------------------------------------------------------------------------------
\* The experiments that catch what their libraries raise archive a failure.
Fail ==
  /\ design \in {"deposition", "attention", "intermediate"} /\ pc # "done"
  /\ report' = "failed" /\ pc' = "done"
  /\ UNCHANGED <<design, at, steps, value, grad, moment, initial, before, lone, found, score,
                 learnt, leaks>>

Init ==
  /\ design \in Designs
  /\ pc = CASE design = "factorial" -> "public" [] design = "attention" -> "probe"
            [] design = "intermediate" -> "load" [] design = "wide" -> "start"
            [] design \in {"distilbert", "generative_ffn", "generative_full"} -> "control" [] OTHER -> "next"
  /\ at = 0 /\ steps = 0 /\ leaks = 0
  /\ value = Fresh /\ initial = Fresh
  /\ grad = NoTrace /\ moment = NoTrace
  /\ before = [value |-> Fresh, moment |-> NoTrace]
  /\ lone = [r \in Regimes |-> Untrained]
  /\ found = {} /\ report = "none"
  /\ score = [r \in Regimes |-> None] /\ learnt = [r \in Regimes |-> None]

Next ==
  \/ DenseFfnPhase \/ DenseFfnBatch \/ DenseFfnMeasure \/ DenseFfnScore \/ DenseFfnReport
  \/ LocalDensePhase \/ LocalDenseBatch \/ LocalDenseMeasure \/ LocalModulesTrain \/ LocalReport
  \/ PrivateLanesTrain \/ PrivateLanesReport
  \/ DepositionPhase \/ DepositionBatch \/ DepositionMeasure \/ DepositionFails \/ DepositionReport
  \/ AttentionProbe \/ AttentionBegin \/ AttentionBatch \/ AttentionScore \/ TrainSeparate
  \/ CompareSeparate
  \/ TrainPublicTeacher \/ AdaptPublic \/ TenantStage \/ TenantPhase \/ TenantBatch
  \/ TenantMeasure \/ TenantReport
  \/ Load \/ ProbeStep \/ ProbeRestore \/ IntermediateBatch \/ EvaluateCondition
  \/ IntermediateReport
  \/ ExpertTrain \/ ExpertPack \/ ExpertScore \/ ExpertAudit \/ ExpertReport
  \/ TokenTrain \/ TokenPack \/ TokenScore \/ SpoofProbe \/ TokenAudit \/ TokenReport
  \/ WideStart \/ WideBatch \/ WideScore \/ WideReport
  \/ TrainControl \/ DistilBertStart \/ DistilBertBatch \/ DistilBertScore \/ DistilBertReport
  \/ FfnBaseline \/ FfnTrain \/ FfnReport \/ FullBaseline \/ FullTrain \/ FullReport
  \/ Fail

Spec == Init /\ [][Next]_vars

--------------------------------------------------------------------------------
\* The experiments that claim to isolate what the regimes train.
Isolating == Experiments \ Cotrained

\* As long as the optimizer writes nothing it should not, what a regime's lane and
\* head hold depends on its own batches and on public data alone, and the backbone
\* on public data: whatever the other regimes train, before, after or in the same
\* step, through shared tensors, a shared optimizer or a shared loss.
OwnUpdatesOnly ==
  design \in Isolating /\ leaks = 0 =>
    /\ \A r \in Regimes : value[Lane(r)].from \cup value[Head(r)].from \subseteq {r, PublicData}
    /\ value[Backbone].from \subseteq {PublicData}

\* Whatever the optimizer wrote: a run that reports separation, with nothing found
\* changed, leaves every regime computing with what it had learnt when its own
\* training ended, and its score was computed from that; attention lanes hold what
\* training them alone gives, and the lanes of a bank what was packed.
PassIsSeparated ==
  design \in Isolating /\ report \in {"pass", "complete"} /\ found = {} =>
    \A r \in Regimes :
      /\ learnt[r] = Computed(r) /\ score[r] = Computed(r)
      /\ design \in PackedDesigns \cup {"attention"} => value[Lane(r)] = lone[r]

\* A regime starts its training with the parameters the run started with, and an
\* optimizer that remembers nothing of them: neither a probe or a baseline of the same
\* model nor the phases of other regimes leave a trace in them.
StartsFromInitial ==
  pc = "train" /\ steps = 0 /\ leaks = 0 =>
    \A r \in (IF design \in Cotrained \cup {"attention"} THEN Regimes ELSE {at}) :
      \A g \in Model.reads[r] :
        value[g] = initial[g] /\ moment[g] \in {None, {}}
================================================================================
