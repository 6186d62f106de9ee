-------------------------- MODULE LaneTrainingProofs --------------------------
(***************************************************************************)
(* Proofs about LaneTraining for any number of regimes, batches and writes  *)
(* of the optimizer: what a lane depends on, what a regime starts from, and *)
(* that a run which reports separation had it.                              *)
(***************************************************************************)
EXTENDS LaneTraining, FiniteSetTheorems, TLAPS

--------------------------------------------------------------------------------
(* Facts about the groups and the models. *)

LEMMA LaneIsGroup == ASSUME NEW r \in Regimes PROVE Lane(r) \in Lanes /\ Lane(r) \in Groups
  BY DEF Lanes, Groups

LEMMA HeadIsGroup == ASSUME NEW r \in Regimes PROVE Head(r) \in Heads /\ Head(r) \in Groups
  BY DEF Heads, Groups

LEMMA SharedAreGroups == Backbone \in Groups /\ PublicHead \in Groups
  BY DEF Groups

LEMMA LanesAreGroups == Lanes \subseteq Groups /\ Heads \subseteq Groups
  BY DEF Groups

LEMMA RegimesAreNumbers == ASSUME NEW r \in Regimes PROVE r \in Nat /\ r # 0 /\ r <= R
  BY BoundAssumption DEF Regimes

\* Regimes, lanes, heads and what is shared are told apart.
LEMMA LanesApart ==
  ASSUME NEW r, NEW q
  PROVE  /\ Lane(r) = Lane(q) => r = q
         /\ Head(r) = Head(q) => r = q
         /\ Lane(r) # Head(q) /\ Lane(r) # Backbone /\ Head(r) # Backbone
         /\ Lane(r) # PublicHead /\ (r # 0 => Head(r) # PublicHead)
  BY DEF Lane, Head, Backbone, PublicHead

LEMMA GroupKinds ==
  ASSUME NEW g \in Groups
  PROVE  \/ g = Backbone
         \/ g = PublicHead
         \/ \E r \in Regimes : g = Lane(r)
         \/ \E r \in Regimes : g = Head(r)
  BY DEF Groups, Lanes, Heads

LEMMA ModelOfDesign ==
  /\ design = "dense_ffn" => Model = DenseFfnModel
  /\ design = "local_dense" => Model = LocalDenseModel
  /\ design = "local_modules" => Model = LocalModulesModel
  /\ design = "private_lanes" => Model = PrivateLanesModel
  /\ design = "deposition" => Model = DepositionModel
  /\ design = "attention" => Model = AttentionModel
  /\ design = "factorial" => Model = FactorialModel
  /\ design = "intermediate" => Model = IntermediateModel
  /\ design \in PackedDesigns => Model = PackedModel
  /\ design = "wide" => Model = WideModel
  /\ design = "distilbert" => Model = DistilBertModel
  /\ design = "generative_ffn" => Model = GenerativeFfnModel
  /\ design = "generative_full" => Model = GenerativeFullModel
  BY DEF Model, PackedDesigns

LEMMA ModelStays ==
  ASSUME design' = design, design # "intermediate", design \in Experiments
  PROVE  Model' = Model
<1>1. CASE design \in InTurn
  BY <1>1 DEF Model, PackedDesigns, InTurn, DenseFfnModel, LocalDenseModel, LocalModulesModel,
     PrivateLanesModel, DepositionModel, FactorialModel
<1>2. CASE design \in PackedDesigns
  BY <1>2 DEF Model, PackedDesigns, PackedModel
<1>3. CASE design \in Cotrained \cup {"attention"}
  BY <1>3 DEF Model, PackedDesigns, Cotrained, WideModel, DistilBertModel, GenerativeFfnModel,
     GenerativeFullModel, AttentionModel
<1> QED BY <1>1, <1>2, <1>3 DEF Experiments

\* What the regimes of an isolating experiment read: their lanes, which are trained, and
\* what is frozen; heads are trained in two of the experiments.
LEMMA IsolatedReads ==
  ASSUME design \in Isolating, NEW r \in Regimes
  PROVE  /\ Lane(r) \in Model.reads[r] /\ Lane(r) \notin Model.frozen
         /\ Model.reads[r] \subseteq {Backbone, Lane(r), Head(r)}
         /\ Backbone \in Model.reads[r] => Backbone \in Model.frozen
         /\ Head(r) \in Model.reads[r] \ Model.frozen => design \in {"dense_ffn", "factorial"}
         /\ Model.frozen \subseteq {Backbone, PublicHead} \cup Heads
<1>h. Lane(r) \notin Heads
  BY LanesApart DEF Heads
<1>0. Lane(r) # Backbone /\ Lane(r) # PublicHead /\ Head(r) # Backbone /\ Lane(r) # Head(r)
  BY LanesApart
<1>1. CASE design = "dense_ffn"
  BY <1>1, <1>0, ModelOfDesign DEF DenseFfnModel
<1>2. CASE design = "local_dense"
  BY <1>2, <1>0, ModelOfDesign DEF LocalDenseModel
<1>3. CASE design = "local_modules"
  BY <1>3, <1>0, ModelOfDesign DEF LocalModulesModel
<1>4. CASE design = "private_lanes"
  BY <1>4, <1>0, ModelOfDesign DEF PrivateLanesModel
<1>5. CASE design = "deposition"
  <2>1. Model = DepositionModel
    BY <1>5, ModelOfDesign
  <2>2. Model.reads[r] = {Backbone, Lane(r), Head(r)} /\ Model.frozen = {Backbone} \cup Heads
    BY <2>1 DEF DepositionModel
  <2>3. Head(r) \in Model.frozen
    BY <2>2, HeadIsGroup
  <2> QED BY <2>2, <2>3, <1>0, <1>h
<1>6. CASE design = "attention"
  BY <1>6, <1>0, ModelOfDesign DEF AttentionModel
<1>7. CASE design = "factorial"
  BY <1>7, <1>0, ModelOfDesign DEF FactorialModel
<1>8. CASE design \in PackedDesigns
  BY <1>8, <1>0, ModelOfDesign DEF PackedModel
<1> QED
  BY <1>1, <1>2, <1>3, <1>4, <1>5, <1>6, <1>7, <1>8
  DEF Isolating, Experiments, InTurn, PackedDesigns, Cotrained

LEMMA ModelGroups ==
  ASSUME design \in Experiments, NEW r \in Regimes
  PROVE  Model.reads[r] \subseteq Groups /\ Model.frozen \subseteq Groups
<1>0. {Backbone, PublicHead, Lane(r), Head(r)} \cup Lanes \cup Heads \subseteq Groups
  BY LaneIsGroup, HeadIsGroup, SharedAreGroups, LanesAreGroups
<1>1. CASE design \in Isolating
  BY <1>1, <1>0, IsolatedReads
<1>2. CASE design = "intermediate"
  <2>1. Model = IntermediateModel
    BY <1>2, ModelOfDesign
  <2>2. Model.reads[r] \subseteq {Backbone, Lane(r)} \cup Lanes /\ Model.frozen = {}
    BY <2>1 DEF IntermediateModel
  <2> QED BY <2>2, <1>0
<1>3. CASE design = "wide"
  BY <1>3, <1>0, ModelOfDesign DEF WideModel
<1>4. CASE design = "distilbert"
  BY <1>4, <1>0, ModelOfDesign DEF DistilBertModel
<1>5. CASE design = "generative_ffn"
  BY <1>5, <1>0, ModelOfDesign DEF GenerativeFfnModel
<1>6. CASE design = "generative_full"
  BY <1>6, <1>0, ModelOfDesign DEF GenerativeFullModel, GenerativeFfnModel
<1> QED BY <1>1, <1>2, <1>3, <1>4, <1>5, <1>6 DEF Isolating, Cotrained

LEMMA PresentAreGroups ==
  ASSUME design \in Experiments, design \in PackedDesigns => at \in Regimes
  PROVE  Present \subseteq Groups
<1>1. CASE design \in PackedDesigns
  BY <1>1, LaneIsGroup DEF Present
<1>2. CASE design \notin PackedDesigns
  <2>0. 1 \in Regimes
    BY BoundAssumption DEF Regimes
  <2>1. \A r \in Regimes : Model.reads[r] \subseteq Groups /\ Model.frozen \subseteq Groups
    BY ModelGroups
  <2> DEFINE whole == (UNION {Model.reads[r] : r \in Regimes}) \cup Model.frozen
  <2>2. whole \subseteq Groups
    <3>1. ASSUME NEW r \in Regimes, NEW g \in Model.reads[r]
          PROVE  g \in Groups
      BY <2>1
    <3>2. Model.frozen \subseteq Groups
      BY <2>0, <2>1
    <3> QED BY <3>1, <3>2
  <2>3. Present = IF design \in PackedDesigns THEN {Lane(at)} ELSE whole
    BY DEF Present
  <2> HIDE DEF whole
  <2> QED BY <1>2, <2>2, <2>3
<1> QED BY <1>1, <1>2

--------------------------------------------------------------------------------
(* Types. *)

TypeOK ==
  /\ design \in Experiments
  /\ at \in Nat /\ steps \in Nat /\ leaks \in Nat
  /\ value \in [Groups -> Contents] /\ initial \in [Groups -> Contents]
  /\ grad \in [Groups -> Traces] /\ moment \in [Groups -> Traces]
  /\ before \in [value : [Groups -> Contents], moment : [Groups -> Traces]]

LEMMA UntrainedTyped == Untrained \in Contents
  BY DEF Untrained, Contents

LEMMA FreshTyped == Fresh \in [Groups -> Contents]
  BY UntrainedTyped DEF Fresh

LEMMA NoTraceTyped == NoTrace \in [Groups -> Traces]
  BY DEF NoTrace, Traces

LEMMA ContentsAt ==
  ASSUME TypeOK, NEW g \in Groups
  PROVE  /\ value[g] \in Contents /\ value[g].n \in Nat /\ value[g].from \subseteq Sources
         /\ value[g] = [n |-> value[g].n, from |-> value[g].from]
<1>1. value[g] \in Contents
  BY DEF TypeOK
<1> QED BY <1>1 DEF Contents

LEMMA TracesAt ==
  ASSUME NEW t \in Traces
  PROVE  t = None \/ t \subseteq Sources
  BY DEF Traces

LEMMA FlowTyped ==
  ASSUME TypeOK, NEW r \in Regimes
  PROVE  Flow(r) \subseteq Sources
<1>1. \A g \in Model.reads[r] : value[g].from \subseteq Sources
  BY ModelGroups, ContentsAt DEF TypeOK
<1> QED BY <1>1 DEF Flow, Sources

--------------------------------------------------------------------------------
(* What a batch does. *)

LEMMA ZeroGradTyped ==
  ASSUME TypeOK, NEW entries
  PROVE  ZeroGrad(entries) \in [Groups -> Traces]
  BY DEF TypeOK, ZeroGrad, Traces

LEMMA BackwardTyped ==
  ASSUME NEW old \in [Groups -> Traces], NEW r, NEW live, NEW from \in SUBSET Sources
  PROVE  Backward(old, r, live, from) \in [Groups -> Traces]
<1>1. ASSUME NEW g \in Groups
      PROVE  (IF old[g] = None THEN {} ELSE old[g]) \cup (IF g \in live THEN from ELSE {}) \in Traces
  <2>1. old[g] = None \/ old[g] \subseteq Sources
    BY DEF Traces
  <2> QED BY <2>1 DEF Traces
<1> QED BY <1>1 DEF Backward

\* What is remembered of a group once its gradient has been seen.
Remembered(old, got) == (IF old = None THEN {} ELSE old) \cup got

LEMMA AdamMomentsAt ==
  ASSUME NEW entries, NEW got, NEW g \in Groups
  PROVE  AdamMoments(entries, got)[g] =
           IF g \in entries /\ got[g] # None THEN Remembered(moment[g], got[g]) ELSE moment[g]
  BY DEF AdamMoments, Remembered

LEMMA RememberedTyped ==
  ASSUME NEW old \in Traces, NEW got \in SUBSET Sources
  PROVE  Remembered(old, got) \in SUBSET Sources /\ Remembered(old, got) \in Traces
  BY DEF Traces, Remembered

LEMMA AdamMomentsTyped ==
  ASSUME TypeOK, NEW entries, NEW got \in [Groups -> Traces]
  PROVE  AdamMoments(entries, got) \in [Groups -> Traces]
<1>1. ASSUME NEW g \in Groups
      PROVE  AdamMoments(entries, got)[g] \in Traces
  <2>1. moment[g] \in Traces /\ got[g] \in Traces
    BY DEF TypeOK
  <2>2. CASE g \in entries /\ got[g] # None
    BY <2>1, <2>2, TracesAt, AdamMomentsAt, RememberedTyped
  <2>3. CASE ~(g \in entries /\ got[g] # None)
    BY <2>1, <2>3, AdamMomentsAt
  <2> QED BY <2>2, <2>3
<1>2. AdamMoments(entries, got) = [g \in Groups |-> AdamMoments(entries, got)[g]]
  BY DEF AdamMoments
<1> QED BY <1>1, <1>2

\* What a step of the optimizer did to one group.
Stepped(g, moved, leaked, remembered) ==
  /\ moment'[g] = remembered
  /\ value'[g] = [n |-> value[g].n + (IF moved THEN 1 ELSE 0) + (IF leaked THEN 1 ELSE 0),
                  from |-> value[g].from \cup (IF moved THEN remembered ELSE {})
                                         \cup (IF leaked THEN {Leak} ELSE {})]

LEMMA StepByGroup ==
  ASSUME NEW entries, NEW decay, NEW got, Step(entries, decay, got), leaks \in Nat
  PROVE  \E leak :
           /\ leak = {} \/ \E g \in Present : leak = {g}
           /\ leaks' \in Nat /\ leaks <= leaks' /\ (leak # {} => leaks < leaks')
           /\ value' = [g \in Groups |-> value'[g]]
           /\ moment' = AdamMoments(entries, got)
           /\ \A g \in Groups : Stepped(g, g \in AdamMoves(entries, decay, got), g \in leak,
                                        AdamMoments(entries, got)[g])
<1>1. PICK leak \in {{}} \cup {{g} : g \in Present} :
        /\ leaks' = leaks + Cardinality(leak)
        /\ moment' = AdamMoments(entries, got)
        /\ value' = [g \in Groups |->
             LET moved == g \in AdamMoves(entries, decay, got) IN
             [n |-> value[g].n + (IF moved THEN 1 ELSE 0) + (IF g \in leak THEN 1 ELSE 0),
              from |-> value[g].from \cup (IF moved THEN AdamMoments(entries, got)[g] ELSE {})
                                     \cup (IF g \in leak THEN {Leak} ELSE {})]]
  BY DEF Step
<1>2. leak = {} \/ \E g \in Present : leak = {g}
  BY <1>1
<1>3. leak = {} => Cardinality(leak) = 0
  BY FS_EmptySet
<1>4. leak # {} => Cardinality(leak) = 1
  BY <1>2, FS_Singleton
<1>5. leaks' \in Nat /\ leaks <= leaks' /\ (leak # {} => leaks < leaks')
  BY <1>1, <1>3, <1>4
<1>6. ASSUME NEW g \in Groups
      PROVE  Stepped(g, g \in AdamMoves(entries, decay, got), g \in leak,
                     AdamMoments(entries, got)[g])
  BY <1>1 DEF Stepped
<1>7. value' = [g \in Groups |-> value'[g]]
  BY <1>1
<1> QED BY <1>1, <1>2, <1>5, <1>6, <1>7
--------------------------------------------------------------------------------
(* Which steps an experiment takes. *)

LEMMA Guards ==
  /\ DenseFfnPhase \/ DenseFfnBatch \/ DenseFfnMeasure \/ DenseFfnScore \/ DenseFfnReport
     => design = "dense_ffn"
  /\ LocalDensePhase \/ LocalDenseBatch \/ LocalDenseMeasure => design = "local_dense"
  /\ LocalModulesTrain => design = "local_modules"
  /\ LocalReport => design \in {"local_dense", "local_modules"}
  /\ PrivateLanesTrain \/ PrivateLanesReport => design = "private_lanes"
  /\ DepositionPhase \/ DepositionBatch \/ DepositionMeasure \/ DepositionFails \/ DepositionReport
     => design = "deposition"
  /\ AttentionProbe \/ AttentionBegin \/ AttentionBatch \/ AttentionScore \/ TrainSeparate
     \/ CompareSeparate => design = "attention"
  /\ TrainPublicTeacher \/ AdaptPublic \/ TenantStage \/ TenantPhase \/ TenantBatch
     \/ TenantMeasure \/ TenantReport => design = "factorial"
  /\ Load \/ ProbeStep \/ ProbeRestore \/ IntermediateBatch \/ EvaluateCondition
     \/ IntermediateReport => design = "intermediate"
  /\ ExpertTrain \/ ExpertPack \/ ExpertScore \/ ExpertAudit \/ ExpertReport
     => design = "authorized_moe"
  /\ TokenTrain \/ TokenPack \/ TokenScore \/ SpoofProbe \/ TokenAudit \/ TokenReport
     => design = "token_moe"
  /\ WideStart \/ WideBatch \/ WideScore \/ WideReport => design = "wide"
  /\ TrainControl \/ DistilBertStart \/ DistilBertBatch \/ DistilBertScore \/ DistilBertReport
     => design = "distilbert"
  /\ FfnBaseline \/ FfnTrain \/ FfnReport => design = "generative_ffn"
  /\ FullBaseline \/ FullTrain \/ FullReport => design = "generative_full"
  /\ Fail => design \in {"deposition", "attention", "intermediate"}
<1>1. DenseFfnPhase \/ DenseFfnBatch \/ DenseFfnMeasure \/ DenseFfnScore \/ DenseFfnReport
      => design = "dense_ffn"
  BY DEF DenseFfnPhase, DenseFfnBatch, DenseFfnMeasure, DenseFfnScore, DenseFfnReport
<1>2. /\ LocalDensePhase \/ LocalDenseBatch \/ LocalDenseMeasure => design = "local_dense"
      /\ LocalModulesTrain => design = "local_modules"
      /\ LocalReport => design \in {"local_dense", "local_modules"}
  BY DEF LocalDensePhase, LocalDenseBatch, LocalDenseMeasure, LocalModulesTrain, LocalReport
<1>3. PrivateLanesTrain \/ PrivateLanesReport => design = "private_lanes"
  BY DEF PrivateLanesTrain, PrivateLanesReport
<1>4. DepositionPhase \/ DepositionBatch \/ DepositionMeasure \/ DepositionFails \/ DepositionReport
     => design = "deposition"
  BY DEF DepositionPhase, DepositionBatch, DepositionMeasure, DepositionFails, DepositionReport
<1>5. AttentionProbe \/ AttentionBegin \/ AttentionBatch \/ AttentionScore \/ TrainSeparate
     \/ CompareSeparate => design = "attention"
  BY DEF AttentionProbe, AttentionBegin, AttentionBatch, AttentionScore, TrainSeparate,
     CompareSeparate
<1>6. TrainPublicTeacher \/ AdaptPublic \/ TenantStage \/ TenantPhase \/ TenantBatch
     \/ TenantMeasure \/ TenantReport => design = "factorial"
  BY DEF TrainPublicTeacher, AdaptPublic, TenantStage, TenantPhase, TenantBatch, TenantMeasure,
     TenantReport
<1>7. Load \/ ProbeStep \/ ProbeRestore \/ IntermediateBatch \/ EvaluateCondition
     \/ IntermediateReport => design = "intermediate"
  BY DEF Load, ProbeStep, ProbeRestore, IntermediateBatch, EvaluateCondition, IntermediateReport
<1>8. /\ ExpertTrain \/ ExpertPack \/ ExpertScore \/ ExpertAudit \/ ExpertReport
         => design = "authorized_moe"
      /\ TokenTrain \/ TokenPack \/ TokenScore \/ SpoofProbe \/ TokenAudit \/ TokenReport
         => design = "token_moe"
  BY DEF ExpertTrain, ExpertPack, ExpertScore, ExpertAudit, ExpertReport, TokenTrain, TokenPack,
     TokenScore, SpoofProbe, TokenAudit, TokenReport
<1>9. /\ WideStart \/ WideBatch \/ WideScore \/ WideReport => design = "wide"
      /\ TrainControl \/ DistilBertStart \/ DistilBertBatch \/ DistilBertScore
         \/ DistilBertReport => design = "distilbert"
      /\ FfnBaseline \/ FfnTrain \/ FfnReport => design = "generative_ffn"
      /\ FullBaseline \/ FullTrain \/ FullReport => design = "generative_full"
  BY DEF WideStart, WideBatch, WideScore, WideReport, TrainControl, DistilBertStart,
     DistilBertBatch, DistilBertScore, DistilBertReport, FfnBaseline, FfnTrain, FfnReport,
     FullBaseline, FullTrain, FullReport
<1>10. Fail => design \in {"deposition", "attention", "intermediate"}
  BY DEF Fail
<1> QED BY <1>1, <1>2, <1>3, <1>4, <1>5, <1>6, <1>7, <1>8, <1>9, <1>10

\* The regimes train in turn, or lane by lane for a bank: the shapes of a step.
TurnDesigns == InTurn \cup PackedDesigns

Late == {"score", "report", "pack", "spoof", "audit"}

\* After the training: scores, measurements and the verdict write no parameter.
LateStep ==
  /\ pc \in Late /\ pc' \in Late \cup {"done"}
  /\ leaks' \in Nat /\ leaks <= leaks'
  /\ UNCHANGED <<design, at, steps, value, grad, moment, initial, before>>

Stops ==
  /\ pc # "done" /\ pc' = "done" /\ report' = "failed"
  /\ UNCHANGED <<design, at, steps, value, grad, moment, initial, before, lone, found, score,
                 learnt, leaks>>

\* A phase begins with moments that remember nothing; the deposition keeps its own.
BlankBegin ==
  /\ design \in TurnDesigns \ {"deposition"}
  /\ \E m \in [Groups -> {None, {}}] : Begin(m)

\* A batch that steps the tensors of the regime in training, or all lanes of which it
\* is the only one with a gradient.
OwnBatch ==
  /\ design \in TurnDesigns \ {"deposition"}
  /\ \E entries \in {{Lane(at)}, {Lane(at), Head(at)}}, decay \in {"none", "decay"} :
       /\ design \in PackedDesigns => entries = {Lane(at)}
       /\ Batch(entries, decay)

Ends == \E seen, rows : \E next \in {"score", "report", "pack"} : EndPhase(seen, rows, next)

LEMMA BlankMoments ==
  ASSUME NEW entries
  PROVE  /\ NewMoments \in [Groups -> {None, {}}]
         /\ NewScopedMoments(entries) \in [Groups -> {None, {}}]
  BY DEF NewMoments, NoTrace, NewScopedMoments

LEMMA LateSteps ==
  ASSUME leaks \in Nat,
         \/ Score
         \/ \E yes, no : Verdict(yes, no)
         \/ Packs
         \/ \E next \in {"audit", "spoof"} : ScoresBank(next)
         \/ SpoofProbe
         \/ AuditsBank
         \/ ReportsBank
  PROVE  LateStep
<1>1. CASE Score
  BY <1>1 DEF Score, LateStep, Late
<1>2. CASE \E yes, no : Verdict(yes, no)
  BY <1>2 DEF Verdict, LateStep, Late
<1>3. CASE Packs
  BY <1>3 DEF Packs, LateStep, Late
<1>4. CASE \E next \in {"audit", "spoof"} : ScoresBank(next)
  BY <1>4 DEF ScoresBank, LateStep, Late
<1>5. CASE SpoofProbe
  BY <1>5 DEF SpoofProbe, LateStep, Late
<1>6. CASE AuditsBank
  <2>1. PICK leak \in {{}} \cup {{g} : g \in Lanes} : leaks' = leaks + Cardinality(leak)
    BY <1>6 DEF AuditsBank
  <2>2. Cardinality(leak) \in {0, 1}
    BY FS_EmptySet, FS_Singleton
  <2>3. leaks' \in Nat /\ leaks <= leaks'
    BY <2>1, <2>2
  <2> QED BY <1>6, <2>3 DEF AuditsBank, LateStep, Late
<1>7. CASE ReportsBank
  BY <1>7 DEF ReportsBank, LateStep, Late
<1> QED BY <1>1, <1>2, <1>3, <1>4, <1>5, <1>6, <1>7

\* The measurement that ends a phase, in each of the experiments.
MeasuredEnd ==
  \/ DenseFfnMeasure \/ LocalDenseMeasure \/ DepositionMeasure \/ TenantMeasure
  \/ design = "local_modules" /\ EndPhase(Moved(before.value, Others(Lanes)), {at}, "report")
  \/ /\ design = "private_lanes"
     /\ EndPhase(Moved(before.value, Others(Lanes)) \cup Moved(initial, {Backbone}), {}, "score")

PackedEnd == design \in PackedDesigns /\ EndPhase({}, {}, "pack")

FinalScore == design \in {"dense_ffn", "private_lanes", "factorial"} /\ Score

FinalVerdict ==
  design \in InTurn /\ \E yes \in {"pass", "complete"}, no \in {"separation_failure", "complete"} :
                       Verdict(yes, no)

BankStep ==
  /\ design \in PackedDesigns
  /\ \/ Packs \/ \E next \in {"audit", "spoof"} : ScoresBank(next)
     \/ SpoofProbe \/ AuditsBank \/ ReportsBank

LEMMA TurnActions ==
  ASSUME Next, design \in TurnDesigns
  PROVE  \/ BlankBegin \/ DepositionPhase
         \/ OwnBatch \/ DepositionBatch
         \/ MeasuredEnd \/ PackedEnd
         \/ FinalScore \/ FinalVerdict \/ BankStep \/ Stops
         \/ TrainPublicTeacher \/ AdaptPublic \/ TenantStage
<1>1. CASE design = "dense_ffn"
  <2>1. DenseFfnPhase \/ DenseFfnBatch \/ DenseFfnMeasure \/ DenseFfnScore \/ DenseFfnReport
    BY <1>1, Guards DEF Next
  <2>2. DenseFfnPhase => BlankBegin
    BY <1>1, BlankMoments DEF DenseFfnPhase, BlankBegin, TurnDesigns, InTurn
  <2>3. DenseFfnBatch => OwnBatch
    BY <1>1 DEF DenseFfnBatch, DenseFfnEntries, OwnBatch, TurnDesigns, InTurn, PackedDesigns
  <2>4. DenseFfnMeasure => MeasuredEnd
    BY DEF MeasuredEnd
  <2>5. DenseFfnScore \/ DenseFfnReport => FinalScore \/ FinalVerdict
    BY <1>1 DEF DenseFfnScore, DenseFfnReport, FinalScore, FinalVerdict, InTurn
  <2> QED BY <2>1, <2>2, <2>3, <2>4, <2>5
<1>2. CASE design = "local_dense"
  <2>1. LocalDensePhase \/ LocalDenseBatch \/ LocalDenseMeasure \/ LocalReport
    BY <1>2, Guards DEF Next
  <2>2. LocalDensePhase => BlankBegin
    BY <1>2, BlankMoments DEF LocalDensePhase, BlankBegin, TurnDesigns, InTurn
  <2>3. LocalDenseBatch => OwnBatch
    BY <1>2 DEF LocalDenseBatch, LocalDenseEntries, OwnBatch, TurnDesigns, InTurn, PackedDesigns
  <2>4. LocalDenseMeasure => MeasuredEnd
    BY DEF MeasuredEnd
  <2>5. LocalReport => FinalVerdict
    BY <1>2 DEF LocalReport, FinalVerdict, InTurn
  <2> QED BY <2>1, <2>2, <2>3, <2>4, <2>5
<1>3. CASE design = "local_modules"
  <2>1. LocalModulesTrain \/ LocalReport
    BY <1>3, Guards DEF Next
  <2>2. LocalModulesTrain => BlankBegin \/ OwnBatch \/ MeasuredEnd
    <3>1. Begin(NewMoments) => BlankBegin
      BY <1>3, BlankMoments DEF BlankBegin, TurnDesigns, InTurn
    <3>2. Batch({Lane(at)}, "none") => OwnBatch
      BY <1>3 DEF OwnBatch, TurnDesigns, InTurn, PackedDesigns
    <3> QED BY <1>3, <3>1, <3>2 DEF LocalModulesTrain, MeasuredEnd
  <2>5. LocalReport => FinalVerdict
    BY <1>3 DEF LocalReport, FinalVerdict, InTurn
  <2> QED BY <2>1, <2>2, <2>5
<1>4. CASE design = "private_lanes"
  <2>1. PrivateLanesTrain \/ PrivateLanesReport
    BY <1>4, Guards DEF Next
  <2>2. PrivateLanesTrain => BlankBegin \/ OwnBatch \/ MeasuredEnd
    <3>1. Begin(NewMoments) => BlankBegin
      BY <1>4, BlankMoments DEF BlankBegin, TurnDesigns, InTurn
    <3>2. Batch({Lane(at)}, "decay") => OwnBatch
      BY <1>4 DEF OwnBatch, TurnDesigns, InTurn, PackedDesigns
    <3> QED BY <1>4, <3>1, <3>2 DEF PrivateLanesTrain, MeasuredEnd
  <2>5. PrivateLanesReport => FinalScore \/ FinalVerdict
    BY <1>4 DEF PrivateLanesReport, FinalScore, FinalVerdict, InTurn
  <2> QED BY <2>1, <2>2, <2>5
<1>5. CASE design = "deposition"
  <2>1. DepositionPhase \/ DepositionBatch \/ DepositionMeasure \/ DepositionFails
        \/ DepositionReport \/ Fail
    BY <1>5, Guards DEF Next
  <2>2. DepositionMeasure => MeasuredEnd
    BY DEF MeasuredEnd
  <2>3. DepositionReport => FinalVerdict
    BY <1>5 DEF DepositionReport, FinalVerdict, InTurn
  <2>4. DepositionFails => Stops
    BY DEF DepositionFails, Stops
  <2>5. Fail => Stops
    BY DEF Fail, Stops
  <2> QED BY <2>1, <2>2, <2>3, <2>4, <2>5
<1>6. CASE design = "factorial"
  <2>1. TrainPublicTeacher \/ AdaptPublic \/ TenantStage \/ TenantPhase \/ TenantBatch
        \/ TenantMeasure \/ TenantReport
    BY <1>6, Guards DEF Next
  <2>2. TenantPhase => BlankBegin
    BY <1>6, BlankMoments DEF TenantPhase, BlankBegin, TurnDesigns, InTurn
  <2>3. TenantBatch => OwnBatch
    BY <1>6 DEF TenantBatch, TenantEntries, OwnBatch, TurnDesigns, InTurn, PackedDesigns
  <2>4. TenantMeasure => MeasuredEnd
    BY DEF MeasuredEnd
  <2>5. TenantReport => FinalScore \/ FinalVerdict
    BY <1>6 DEF TenantReport, FinalScore, FinalVerdict, InTurn
  <2> QED BY <2>1, <2>2, <2>3, <2>4, <2>5
<1>7. CASE design \in PackedDesigns
  <2>1. \/ TrainsLanes \/ Packs \/ \E next \in {"audit", "spoof"} : ScoresBank(next)
        \/ SpoofProbe \/ AuditsBank \/ ReportsBank
    BY <1>7, Guards DEF Next, PackedDesigns, ExpertTrain, ExpertPack, ExpertScore, ExpertAudit,
       ExpertReport, TokenTrain, TokenPack, TokenScore, TokenAudit, TokenReport
  <2>2. TrainsLanes => BlankBegin \/ OwnBatch \/ PackedEnd
    <3>1. Begin(NewMoments) => BlankBegin
      BY <1>7, BlankMoments DEF BlankBegin, TurnDesigns, PackedDesigns
    <3>2. Batch({Lane(at)}, "decay") => OwnBatch
      BY <1>7 DEF OwnBatch, TurnDesigns, PackedDesigns
    <3> QED BY <1>7, <3>1, <3>2 DEF TrainsLanes, PackedEnd
  <2> QED BY <1>7, <2>1, <2>2 DEF BankStep
<1> QED BY <1>1, <1>2, <1>3, <1>4, <1>5, <1>6, <1>7 DEF TurnDesigns, InTurn

\* An experiment stays the same.
LEMMA DesignStays == ASSUME Next PROVE design' = design
<1> USE DEF Batch, Begin, EndPhase, Score, Verdict
<1>1. DenseFfnPhase \/ DenseFfnBatch \/ DenseFfnMeasure \/ DenseFfnScore \/ DenseFfnReport
      => design' = design
  BY DEF DenseFfnPhase, DenseFfnBatch, DenseFfnMeasure, DenseFfnScore, DenseFfnReport
<1>2. LocalDensePhase \/ LocalDenseBatch \/ LocalDenseMeasure \/ LocalModulesTrain \/ LocalReport
      => design' = design
  BY DEF LocalDensePhase, LocalDenseBatch, LocalDenseMeasure, LocalModulesTrain, LocalReport
<1>3. PrivateLanesTrain \/ PrivateLanesReport => design' = design
  BY DEF PrivateLanesTrain, PrivateLanesReport
<1>4. DepositionPhase \/ DepositionBatch \/ DepositionMeasure \/ DepositionFails \/ DepositionReport
     => design' = design
  BY DEF DepositionPhase, DepositionBatch, DepositionMeasure, DepositionFails, DepositionReport
<1>5. AttentionProbe \/ AttentionBegin \/ AttentionBatch \/ AttentionScore \/ TrainSeparate
     \/ CompareSeparate => design' = design
  BY DEF AttentionProbe, AttentionBegin, AttentionBatch, AttentionScore, TrainSeparate,
     CompareSeparate
<1>6. TrainPublicTeacher \/ AdaptPublic \/ TenantStage \/ TenantPhase \/ TenantBatch
     \/ TenantMeasure \/ TenantReport => design' = design
  BY DEF TrainPublicTeacher, AdaptPublic, TrainPublic, TenantStage, TenantPhase, TenantBatch,
     TenantMeasure, TenantReport
<1>7. Load \/ ProbeStep \/ ProbeRestore \/ IntermediateBatch \/ EvaluateCondition
     \/ IntermediateReport => design' = design
  BY DEF Load, ProbeStep, ProbeRestore, IntermediateBatch, EvaluateCondition, IntermediateReport
<1>8. TrainsLanes \/ Packs \/ AuditsBank \/ ReportsBank \/ SpoofProbe => design' = design
  BY DEF TrainsLanes, Packs, AuditsBank, ReportsBank, SpoofProbe
<1>9. ScoresBank("audit") \/ ScoresBank("spoof") => design' = design
  BY DEF ScoresBank
<1>10. ExpertTrain \/ ExpertPack \/ ExpertScore \/ ExpertAudit \/ ExpertReport
       \/ TokenTrain \/ TokenPack \/ TokenScore \/ SpoofProbe \/ TokenAudit \/ TokenReport
         => design' = design
  BY <1>8, <1>9 DEF ExpertTrain, ExpertPack, ExpertScore, ExpertAudit, ExpertReport, TokenTrain,
     TokenPack, TokenScore, TokenAudit, TokenReport
<1>11. WideStart \/ WideBatch \/ WideScore \/ WideReport => design' = design
  BY DEF WideStart, WideBatch, WideScore, WideReport, StartCotraining, CotrainedScore, Reports
<1>12. TrainControl \/ DistilBertStart \/ DistilBertBatch \/ DistilBertScore \/ DistilBertReport
       => design' = design
  BY DEF TrainControl, DistilBertStart, DistilBertBatch, DistilBertScore, DistilBertReport,
     LoadGated, StartCotraining, CotrainedBatch, CotrainedScore, Reports
<1>13. FfnBaseline \/ FfnTrain \/ FfnReport \/ FullBaseline \/ FullTrain \/ FullReport
       => design' = design
  BY DEF FfnBaseline, FfnTrain, FfnReport, FullBaseline, FullTrain, FullReport, Baseline,
     LoadGated, StartCotraining, CotrainedBatch, CotrainedScore, Reports
<1>14. Fail => design' = design
  BY DEF Fail
<1> QED
  BY <1>1, <1>2, <1>3, <1>4, <1>5, <1>6, <1>7, <1>10, <1>11, <1>12, <1>13, <1>14 DEF Next

LEMMA TurnSteps ==
  ASSUME Next, leaks \in Nat, design \in TurnDesigns
  PROVE  \/ BlankBegin \/ DepositionPhase
         \/ OwnBatch \/ DepositionBatch
         \/ Ends \/ LateStep \/ Stops
         \/ TrainPublicTeacher \/ AdaptPublic \/ TenantStage
<1>1. MeasuredEnd => Ends
  BY DEF MeasuredEnd, DenseFfnMeasure, LocalDenseMeasure, DepositionMeasure, TenantMeasure, Ends
<1>2. PackedEnd => Ends
  BY DEF PackedEnd, Ends
<1>3. FinalScore \/ FinalVerdict \/ BankStep => LateStep
  BY LateSteps DEF FinalScore, FinalVerdict, BankStep
<1> QED BY <1>1, <1>2, <1>3, TurnActions

--------------------------------------------------------------------------------
(* Where the run of a regime after the other is. *)

Turns ==
  design \in TurnDesigns =>
    /\ at \in 0..R
    /\ pc = "train" => at \in Regimes
    /\ pc \in Late => at = R
    /\ pc \in {"public", "adapt", "stage"} => at = 0 /\ design = "factorial"
    /\ pc \in {"next", "train", "public", "adapt", "stage", "done"} \cup Late

LEMMA InitTurns == Init => Turns
<1> SUFFICES ASSUME Init, design \in TurnDesigns PROVE Turns
  BY DEF Turns
<1>1. at = 0 /\ at \in 0..R
  BY BoundAssumption DEF Init
<1>2. IF design = "factorial" THEN pc = "public" ELSE pc = "next"
  <2>1. CASE design = "factorial"
    BY <2>1 DEF Init
  <2>2. CASE design # "factorial"
    BY <2>2 DEF Init, TurnDesigns, InTurn, PackedDesigns
  <2> QED BY <2>1, <2>2
<1> QED BY <1>1, <1>2 DEF Turns, Late

LEMMA NextTurns == ASSUME TypeOK, Turns, Next PROVE Turns'
<1> SUFFICES ASSUME design' \in TurnDesigns PROVE Turns'
  BY DEF Turns
<1>d. design' = design
  BY DesignStays
<1>0. design \in TurnDesigns /\ leaks \in Nat /\ R \in Nat \ {0}
  BY <1>d, BoundAssumption DEF TypeOK
<1>a. /\ at \in 0..R /\ (pc = "train" => at \in Regimes) /\ (pc \in Late => at = R)
      /\ pc \in {"public", "adapt", "stage"} => at = 0 /\ design = "factorial"
  BY <1>0 DEF Turns
<1>1. ASSUME NEW m, Begin(m) PROVE Turns'
  BY <1>1, <1>0, <1>a DEF Begin, Turns, Regimes, Late
<1>2. ASSUME NEW entries, NEW decay, Batch(entries, decay) PROVE Turns'
  BY <1>2, <1>0, <1>a, <1>d DEF Batch, Turns, Late
<1>3. CASE Ends
  BY <1>3, <1>0, <1>a, <1>d DEF Ends, EndPhase, Turns, Late
<1>4. CASE LateStep
  BY <1>4, <1>0, <1>a, <1>d DEF LateStep, Turns, Late
<1>5. CASE Stops
  BY <1>5, <1>0, <1>a, <1>d DEF Stops, Turns, Late
<1>6. CASE TrainPublicTeacher \/ AdaptPublic
  BY <1>6, <1>0, <1>a, <1>d DEF TrainPublicTeacher, AdaptPublic, TrainPublic, Turns, Late
<1>7. CASE TenantStage
  BY <1>7, <1>0, <1>a, <1>d DEF TenantStage, Turns, Late
<1> QED
  BY <1>0, <1>1, <1>2, <1>3, <1>4, <1>5, <1>6, <1>7, TurnSteps
  DEF BlankBegin, DepositionPhase, OwnBatch, DepositionBatch

--------------------------------------------------------------------------------
(* The experiments that train all regimes together. *)

TogetherDesigns == Cotrained \cup {"attention"}

\* Before the training: nothing has been written to the parameters yet.
FreshPcs ==
  IF design = "intermediate" THEN {"probe"}
  ELSE IF design = "attention" THEN {"probe", "next"} ELSE {"control", "load", "start"}

\* Controls, scores and verdicts write no parameter of the model.
WatchStep ==
  /\ pc' \notin {"train", "restore", "probe"}
  /\ pc' \in FreshPcs => pc \in FreshPcs
  /\ at' \in Nat /\ leaks' \in Nat /\ leaks <= leaks'
  /\ UNCHANGED <<design, steps, value, grad, moment, initial, before>>

LEMMA AttentionWatches ==
  ASSUME at \in Nat, leaks \in Nat,
         AttentionProbe \/ AttentionScore \/ TrainSeparate \/ CompareSeparate
  PROVE  WatchStep
<1>1. CASE AttentionProbe
  <2>1. PICK leak \in {{}} \cup {{g} : g \in Present} :
          leaks' = leaks + Cardinality(leak) /\ pc' \in {"next", "done"}
    BY <1>1 DEF AttentionProbe
  <2>2. Cardinality(leak) \in {0, 1}
    BY FS_EmptySet, FS_Singleton
  <2>3. leaks' \in Nat /\ leaks <= leaks'
    BY <2>1, <2>2
  <2> QED BY <1>1, <2>1, <2>3 DEF AttentionProbe, WatchStep, FreshPcs
<1>2. CASE AttentionScore
  BY <1>2 DEF AttentionScore, WatchStep, FreshPcs
<1>3. CASE TrainSeparate
  BY <1>3 DEF TrainSeparate, WatchStep, FreshPcs
<1>4. CASE CompareSeparate
  BY <1>4 DEF CompareSeparate, WatchStep, FreshPcs
<1> QED BY <1>1, <1>2, <1>3, <1>4

LEMMA GatedWatches ==
  ASSUME at \in Nat, leaks \in Nat,
         \/ design # "attention" /\ design # "intermediate" /\ CotrainedScore
         \/ \E results \in SUBSET {"pass", "failed", "complete"} : Reports(results)
         \/ design # "attention" /\ design # "intermediate" /\ TrainControl
         \/ \E next \in {"load", "start"} :
              design # "attention" /\ design # "intermediate" /\ Baseline(next)
  PROVE  WatchStep
<1>1. CASE design # "attention" /\ design # "intermediate" /\ CotrainedScore
  BY <1>1 DEF CotrainedScore, WatchStep, FreshPcs
<1>2. CASE \E results \in SUBSET {"pass", "failed", "complete"} : Reports(results)
  BY <1>2 DEF Reports, WatchStep, FreshPcs
<1>3. CASE design # "attention" /\ design # "intermediate" /\ TrainControl
  BY <1>3 DEF TrainControl, WatchStep, FreshPcs
<1>4. CASE \E next \in {"load", "start"} :
             design # "attention" /\ design # "intermediate" /\ Baseline(next)
  BY <1>4 DEF Baseline, WatchStep, FreshPcs
<1> QED BY <1>1, <1>2, <1>3, <1>4

LEMMA IntermediateWatches ==
  ASSUME at \in Nat, leaks \in Nat, EvaluateCondition \/ IntermediateReport
  PROVE  WatchStep
<1>1. CASE EvaluateCondition
  BY <1>1 DEF EvaluateCondition, WatchStep, FreshPcs
<1>2. CASE IntermediateReport
  BY <1>2 DEF IntermediateReport, Verdict, WatchStep, FreshPcs
<1> QED BY <1>1, <1>2

Gated == Cotrained \ {"intermediate"}

LEMMA TogetherSteps ==
  ASSUME Next, at \in Nat, leaks \in Nat, design \in TogetherDesigns
  PROVE  \/ WatchStep \/ Stops
         \/ AttentionBegin \/ AttentionBatch
         \/ Load \/ ProbeStep \/ ProbeRestore \/ IntermediateBatch
         \/ WideBatch
         \/ design \in Gated /\ (LoadGated \/ StartCotraining \/ CotrainedBatch)
<1>1. CASE design = "attention"
  <2>1. \/ AttentionProbe \/ AttentionBegin \/ AttentionBatch \/ AttentionScore \/ TrainSeparate
        \/ CompareSeparate \/ Fail
    BY <1>1, Guards DEF Next
  <2>2. Fail => Stops
    BY DEF Fail, Stops
  <2> QED BY <2>1, <2>2, AttentionWatches
<1>2. CASE design = "intermediate"
  <2>1. \/ Load \/ ProbeStep \/ ProbeRestore \/ IntermediateBatch \/ EvaluateCondition
        \/ IntermediateReport \/ Fail
    BY <1>2, Guards DEF Next
  <2>2. Fail => Stops
    BY DEF Fail, Stops
  <2> QED BY <2>1, <2>2, IntermediateWatches
<1>3. CASE design = "wide"
  <2>1. WideStart \/ WideBatch \/ WideScore \/ WideReport
    BY <1>3, Guards DEF Next
  <2>2. WideStart => StartCotraining
    BY DEF WideStart
  <2>3. WideScore \/ WideReport => WatchStep
    BY <1>3, GatedWatches DEF WideScore, WideReport
  <2> QED BY <1>3, <2>1, <2>2, <2>3 DEF Gated, Cotrained
<1>4. CASE design = "distilbert"
  <2>1. TrainControl \/ DistilBertStart \/ DistilBertBatch \/ DistilBertScore \/ DistilBertReport
    BY <1>4, Guards DEF Next
  <2>2. DistilBertStart \/ DistilBertBatch => LoadGated \/ StartCotraining \/ CotrainedBatch
    BY DEF DistilBertStart, DistilBertBatch
  <2>3. TrainControl \/ DistilBertScore \/ DistilBertReport => WatchStep
    BY <1>4, GatedWatches DEF DistilBertScore, DistilBertReport
  <2> QED BY <1>4, <2>1, <2>2, <2>3 DEF Gated, Cotrained
<1>5. CASE design = "generative_ffn"
  <2>1. FfnBaseline \/ FfnTrain \/ FfnReport
    BY <1>5, Guards DEF Next
  <2>2. FfnTrain => LoadGated \/ StartCotraining \/ CotrainedBatch
    BY DEF FfnTrain
  <2>3. FfnBaseline \/ FfnReport => WatchStep
    BY <1>5, GatedWatches DEF FfnBaseline, FfnReport
  <2> QED BY <1>5, <2>1, <2>2, <2>3 DEF Gated, Cotrained
<1>6. CASE design = "generative_full"
  <2>1. FullBaseline \/ FullTrain \/ FullReport
    BY <1>6, Guards DEF Next
  <2>2. FullTrain => LoadGated \/ StartCotraining \/ CotrainedBatch
    BY DEF FullTrain
  <2>3. FullBaseline \/ FullReport => WatchStep
    BY <1>6, GatedWatches DEF FullBaseline, FullReport
  <2> QED BY <1>6, <2>1, <2>2, <2>3 DEF Gated, Cotrained
<1> QED BY <1>1, <1>2, <1>3, <1>4, <1>5, <1>6 DEF TogetherDesigns, Cotrained

--------------------------------------------------------------------------------
(* Types are kept. *)

\* What a step of the optimizer does to the types, given typed gradients.
LEMMA StepTyped ==
  ASSUME TypeOK, NEW entries, NEW decay, NEW got \in [Groups -> Traces],
         Step(entries, decay, got)
  PROVE  /\ value' \in [Groups -> Contents] /\ moment' \in [Groups -> Traces]
         /\ leaks' \in Nat /\ leaks <= leaks'
<1>1. PICK leak :
        /\ leaks' \in Nat /\ leaks <= leaks'
        /\ value' = [g \in Groups |-> value'[g]]
        /\ moment' = AdamMoments(entries, got)
        /\ \A g \in Groups : Stepped(g, g \in AdamMoves(entries, decay, got), g \in leak,
                                     AdamMoments(entries, got)[g])
  BY StepByGroup DEF TypeOK
<1>2. moment' \in [Groups -> Traces]
  BY <1>1, AdamMomentsTyped
<1>3. ASSUME NEW g \in Groups
      PROVE  value'[g] \in Contents
  <2>1. Stepped(g, g \in AdamMoves(entries, decay, got), g \in leak, AdamMoments(entries, got)[g])
    BY <1>1
  <2>2. g \in AdamMoves(entries, decay, got) => AdamMoments(entries, got)[g] \in SUBSET Sources
    <3> SUFFICES ASSUME g \in AdamMoves(entries, decay, got)
                 PROVE  AdamMoments(entries, got)[g] \in SUBSET Sources
      OBVIOUS
    <3>1. g \in entries /\ got[g] # None
      BY DEF AdamMoves
    <3>2. AdamMoments(entries, got)[g] = Remembered(moment[g], got[g])
      BY <3>1, AdamMomentsAt
    <3>3. got[g] \in SUBSET Sources /\ moment[g] \in Traces
      BY <3>1, TracesAt DEF TypeOK
    <3> QED BY <3>2, <3>3, RememberedTyped
  <2>3. value[g].n \in Nat /\ value[g].from \subseteq Sources
    BY ContentsAt
  <2>4. Leak \in Sources
    BY DEF Sources
  <2> DEFINE moved == g \in AdamMoves(entries, decay, got)
  <2> DEFINE n == value[g].n + (IF moved THEN 1 ELSE 0) + (IF g \in leak THEN 1 ELSE 0)
  <2> DEFINE from == value[g].from \cup (IF moved THEN AdamMoments(entries, got)[g] ELSE {})
                                   \cup (IF g \in leak THEN {Leak} ELSE {})
  <2>5. n \in Nat
    BY <2>3
  <2>6. from \in SUBSET Sources
    BY <2>2, <2>3, <2>4
  <2>7. value'[g] = [n |-> n, from |-> from]
    BY <2>1 DEF Stepped
  <2> HIDE DEF n, from
  <2> QED BY <2>5, <2>6, <2>7 DEF Contents
<1>4. value' \in [Groups -> Contents]
  BY <1>1, <1>3
<1> QED BY <1>1, <1>2, <1>4

\* The gradients of a batch of one regime.
LEMMA BatchGradientsTyped ==
  ASSUME TypeOK, at \in Regimes, NEW entries, NEW live
  PROVE  Backward(ZeroGrad(entries), at, live, Flow(at)) \in [Groups -> Traces]
<1>1. PICK from \in SUBSET Sources : from = Flow(at)
  BY FlowTyped
<1>2. PICK old \in [Groups -> Traces] : old = ZeroGrad(entries)
  BY ZeroGradTyped
<1>3. PICK r : r = at
  OBVIOUS
<1>4. Backward(old, r, live, from) \in [Groups -> Traces]
  BY BackwardTyped
<1> QED BY <1>1, <1>2, <1>3, <1>4

LEMMA SummedTyped ==
  ASSUME TypeOK
  PROVE  Summed \in [Groups -> Traces]
<1>1. ASSUME NEW g \in Groups
      PROVE  UNION {Flow(r) : r \in {q \in Regimes : g \in Model.reads[q]}} \subseteq Sources
  BY FlowTyped
<1> DEFINE readers(g) == {r \in Regimes : g \in Model.reads[r]}
<1>2. Summed = [g \in Groups |-> IF readers(g) = {} THEN grad[g] ELSE UNION {Flow(r) : r \in readers(g)}]
  BY DEF Summed
<1>3. ASSUME NEW g \in Groups
      PROVE  (IF readers(g) = {} THEN grad[g] ELSE UNION {Flow(r) : r \in readers(g)}) \in Traces
  <2>1. UNION {Flow(r) : r \in readers(g)} \in SUBSET Sources
    BY <1>1
  <2>2. grad[g] \in Traces
    BY DEF TypeOK
  <2> HIDE DEF readers
  <2> QED BY <2>1, <2>2 DEF Traces
<1> HIDE DEF readers
<1> QED BY <1>2, <1>3

LEMMA InitTyped == Init => TypeOK
<1> SUFFICES ASSUME Init PROVE TypeOK
  OBVIOUS
<1>1. [value |-> Fresh, moment |-> NoTrace]
        \in [value : [Groups -> Contents], moment : [Groups -> Traces]]
  BY FreshTyped, NoTraceTyped
<1>2. design \in Experiments
  BY DesignAssumption DEF Init
<1> QED BY <1>1, <1>2, FreshTyped, NoTraceTyped DEF Init, TypeOK

LEMMA BeginTyped == ASSUME TypeOK, NEW m \in [Groups -> Traces], Begin(m) PROVE TypeOK'
<1>1. [value |-> value, moment |-> m] \in [value : [Groups -> Contents], moment : [Groups -> Traces]]
  BY DEF TypeOK
<1> QED BY <1>1 DEF TypeOK, Begin

LEMMA BatchTyped ==
  ASSUME TypeOK, at \in Regimes, NEW entries, NEW decay, Batch(entries, decay)
  PROVE  TypeOK'
<1>1. PICK live : LET got == Backward(ZeroGrad(entries), at, live, Flow(at)) IN
                  grad' = got /\ Step(entries, decay, got)
  BY DEF Batch
<1> DEFINE back == Backward(ZeroGrad(entries), at, live, Flow(at))
<1>2. PICK got \in [Groups -> Traces] : got = back
  BY BatchGradientsTyped
<1>3. grad' = got /\ Step(entries, decay, got)
  BY <1>1, <1>2
<1>4. /\ value' \in [Groups -> Contents] /\ moment' \in [Groups -> Traces]
      /\ leaks' \in Nat
  BY <1>3, StepTyped
<1> QED BY <1>3, <1>4 DEF TypeOK, Batch

LEMMA PublicTyped == ASSUME TypeOK, NEW next, TrainPublic(next) PROVE TypeOK'
<1>1. ASSUME NEW g \in Groups
      PROVE  [n |-> value[g].n + 1, from |-> value[g].from \cup {PublicData}] \in Contents
  <2>0. value[g].n \in Nat /\ value[g].from \subseteq Sources /\ PublicData \in Sources
    BY ContentsAt DEF Sources
  <2>1. value[g].n + 1 \in Nat /\ value[g].from \cup {PublicData} \subseteq Sources
    BY <2>0
  <2> QED BY <2>1 DEF Contents
<1>2. value' \in [Groups -> Contents]
  BY <1>1 DEF TrainPublic, TypeOK
<1> QED BY <1>2 DEF TrainPublic, TypeOK

LEMMA StageTyped == ASSUME TypeOK, TenantStage PROVE TypeOK'
<1>1. value[PublicHead] \in Contents
  BY SharedAreGroups DEF TypeOK
<1>2. value' \in [Groups -> Contents]
  BY <1>1 DEF TenantStage, TypeOK
<1> QED BY <1>2, NoTraceTyped DEF TenantStage, TypeOK

LEMMA AttentionBatchTyped == ASSUME TypeOK, AttentionBatch PROVE TypeOK'
<1> DEFINE back == [g \in Groups |-> IF g \in Lanes THEN Clipped(g[2]) ELSE grad[g]]
<1>1. ASSUME NEW g \in Groups
      PROVE  (IF g \in Lanes THEN Clipped(g[2]) ELSE grad[g]) \in Traces
  <2>1. CASE g \in Lanes
    <3>1. PICK r \in Regimes : g = Lane(r)
      BY <2>1 DEF Lanes
    <3>2. g[2] = r
      BY <3>1 DEF Lane
    <3> QED BY <2>1, <3>2, FlowTyped DEF Clipped, Traces
  <2> QED BY <2>1 DEF TypeOK
<1>2. back \in [Groups -> Traces]
  BY <1>1
<1>3. grad' = back /\ Step(Lanes, "decay", back)
  BY DEF AttentionBatch
<1> HIDE DEF back
<1>4. value' \in [Groups -> Contents] /\ moment' \in [Groups -> Traces] /\ leaks' \in Nat
  BY <1>2, <1>3, StepTyped
<1> QED BY <1>2, <1>3, <1>4 DEF AttentionBatch, TypeOK

LEMMA IntermediateBatchTyped == ASSUME TypeOK, IntermediateBatch PROVE TypeOK'
<1> DEFINE all == UNION {Flow(r) : r \in Regimes}
<1> DEFINE back == [g \in Groups |-> IF g \in Present THEN all ELSE grad[g]]
<1>1. all \in Traces
  BY FlowTyped DEF Traces
<1>2. back \in [Groups -> Traces]
  <2> HIDE DEF all
  <2> QED BY <1>1 DEF TypeOK
<1>3. grad' = back /\ Step(Present, "none", back)
  BY DEF IntermediateBatch
<1> HIDE DEF back
<1>4. value' \in [Groups -> Contents] /\ moment' \in [Groups -> Traces] /\ leaks' \in Nat
  BY <1>2, <1>3, StepTyped
<1>5. steps' = steps + 1 /\ UNCHANGED <<design, pc, at, initial, before>>
  BY DEF IntermediateBatch
<1>6. grad' \in [Groups -> Traces]
  BY <1>2, <1>3
<1> QED BY <1>4, <1>5, <1>6 DEF TypeOK

LEMMA CotrainedBatchTyped == ASSUME TypeOK, CotrainedBatch PROVE TypeOK'
<1>1. PICK got \in [Groups -> Traces] : got = Summed
  BY SummedTyped
<1>2. grad' = got /\ Step(Present, "decay", got)
  BY <1>1 DEF CotrainedBatch
<1>4. value' \in [Groups -> Contents] /\ moment' \in [Groups -> Traces] /\ leaks' \in Nat
  BY <1>2, StepTyped
<1> QED BY <1>2, <1>4 DEF CotrainedBatch, TypeOK

LEMMA WideBatchTyped == ASSUME TypeOK, WideBatch PROVE TypeOK'
<1>1. ASSUME NEW g \in Groups, Summed[g] # None
      PROVE  [n |-> value[g].n + 1, from |-> value[g].from \cup Summed[g]] \in Contents
  <2>1. Summed[g] \subseteq Sources
    BY <1>1, SummedTyped, TracesAt
  <2>0. value[g].n \in Nat /\ value[g].from \subseteq Sources
    BY ContentsAt
  <2>2. value[g].n + 1 \in Nat /\ value[g].from \cup Summed[g] \subseteq Sources
    BY <2>0, <2>1
  <2> QED BY <2>2 DEF Contents
<1>3. value' = [g \in Groups |-> IF Summed[g] = None THEN value[g]
         ELSE [n |-> value[g].n + 1, from |-> value[g].from \cup Summed[g]]]
  BY DEF WideBatch
<1>4. ASSUME NEW g \in Groups PROVE value'[g] \in Contents
  <2>1. CASE Summed[g] = None
    BY <2>1, <1>3 DEF TypeOK
  <2>2. CASE Summed[g] # None
    BY <2>2, <1>1, <1>3
  <2> QED BY <2>1, <2>2
<1>5. value' = [g \in Groups |-> value'[g]]
  BY <1>3
<1>2. value' \in [Groups -> Contents]
  BY <1>4, <1>5
<1>6. steps' = steps + 1 /\ UNCHANGED <<design, pc, at, grad, moment, initial, before, leaks>>
  BY DEF WideBatch
<1> QED BY <1>2, <1>6 DEF TypeOK

LEMMA ProbeStepTyped == ASSUME TypeOK, ProbeStep PROVE TypeOK'
<1>0. 1 \in Regimes /\ 1 \in Sources /\ Leak \in Sources
  BY BoundAssumption DEF Regimes, Sources
<1>1. PICK leak \in {{}} \cup {{g} : g \in Present} :
        /\ leaks' = leaks + Cardinality(leak)
        /\ grad' = Backward(ZeroGrad(Lanes), 1, {Backbone, Lane(1)}, {1})
        /\ value' = [g \in Groups |->
            [n |-> value[g].n + (IF g = Lane(1) THEN 1 ELSE 0) + (IF g \in leak THEN 1 ELSE 0),
             from |-> value[g].from \cup (IF g = Lane(1) THEN {1} ELSE {})
                                    \cup (IF g \in leak THEN {Leak} ELSE {})]]
  BY DEF ProbeStep
<1>2. Cardinality(leak) \in {0, 1}
  BY FS_EmptySet, FS_Singleton
<1>3. leaks' \in Nat
  BY <1>1, <1>2 DEF TypeOK
<1>4. grad' \in [Groups -> Traces]
  <2>1. PICK old \in [Groups -> Traces] : old = ZeroGrad(Lanes)
    BY ZeroGradTyped
  <2>2. {1} \in SUBSET Sources
    BY <1>0
  <2>3. Backward(old, 1, {Backbone, Lane(1)}, {1}) \in [Groups -> Traces]
    BY <2>2, BackwardTyped
  <2> QED BY <1>1, <2>1, <2>3
<1>5. ASSUME NEW g \in Groups
      PROVE  [n |-> value[g].n + (IF g = Lane(1) THEN 1 ELSE 0) + (IF g \in leak THEN 1 ELSE 0),
             from |-> value[g].from \cup (IF g = Lane(1) THEN {1} ELSE {})
                                    \cup (IF g \in leak THEN {Leak} ELSE {})] \in Contents
  <2>0. value[g].n \in Nat
    BY ContentsAt
  <2>1. value[g].n + (IF g = Lane(1) THEN 1 ELSE 0) + (IF g \in leak THEN 1 ELSE 0) \in Nat
    BY <2>0
  <2>2. value[g].from \cup (IF g = Lane(1) THEN {1} ELSE {})
                      \cup (IF g \in leak THEN {Leak} ELSE {}) \in SUBSET Sources
    BY <1>0, ContentsAt
  <2> QED BY <2>1, <2>2 DEF Contents
<1>6. value' \in [Groups -> Contents]
  BY <1>1, <1>5
<1>7. before' \in [value : [Groups -> Contents], moment : [Groups -> Traces]]
      /\ before'.value = value
  BY DEF ProbeStep, TypeOK
<1> QED BY <1>3, <1>4, <1>6, <1>7 DEF ProbeStep, TypeOK

LEMMA ProbeRestoreTyped == ASSUME TypeOK, ProbeRestore PROVE TypeOK'
<1>1. value' \in [Groups -> Contents]
  BY DEF ProbeRestore, TypeOK
<1> QED BY <1>1, NoTraceTyped DEF ProbeRestore, TypeOK

LEMMA NextTyped == ASSUME TypeOK, Turns, Next PROVE TypeOK'
<1>0. at \in Nat /\ leaks \in Nat /\ design \in Experiments
  BY DEF TypeOK
<1>1. CASE design \in TurnDesigns
  <2>a. pc = "train" => at \in Regimes
    BY <1>1 DEF Turns
  <2>1. CASE BlankBegin
    <3>1. PICK m \in [Groups -> {None, {}}] : Begin(m)
      BY <2>1 DEF BlankBegin
    <3>2. m \in [Groups -> Traces]
      BY DEF Traces
    <3> QED BY <3>1, <3>2, BeginTyped
  <2>2. CASE DepositionPhase
    <3>1. PICK m \in [Groups -> Traces] : m = moment
      BY DEF TypeOK
    <3> QED BY <2>2, <3>1, BeginTyped DEF DepositionPhase
  <2>3. CASE OwnBatch \/ DepositionBatch
    <3>1. PICK entries, decay : Batch(entries, decay)
      BY <2>3 DEF OwnBatch, DepositionBatch
    <3>2. at \in Regimes
      BY <3>1, <2>a DEF Batch
    <3> QED BY <3>1, <3>2, BatchTyped
  <2>4. CASE Ends
    BY <2>4 DEF Ends, EndPhase, TypeOK
  <2>5. CASE LateStep
    BY <2>5 DEF LateStep, TypeOK
  <2>6. CASE Stops
    BY <2>6 DEF Stops, TypeOK
  <2>7. CASE TrainPublicTeacher \/ AdaptPublic
    BY <2>7, PublicTyped DEF TrainPublicTeacher, AdaptPublic
  <2>8. CASE TenantStage
    BY <2>8, StageTyped
  <2> QED BY <1>0, <1>1, <2>1, <2>2, <2>3, <2>4, <2>5, <2>6, <2>7, <2>8, TurnSteps
<1>2. CASE design \in TogetherDesigns
  <2>1. CASE WatchStep
    BY <2>1 DEF WatchStep, TypeOK
  <2>2. CASE Stops
    BY <2>2 DEF Stops, TypeOK
  <2>3. CASE AttentionBegin
    BY <2>3, NoTraceTyped DEF AttentionBegin, NewMoments, TypeOK
  <2>4. CASE Load
    BY <2>4, NoTraceTyped, FreshTyped DEF Load, NewMoments, TypeOK
  <2>5. CASE LoadGated
    BY <2>5, NoTraceTyped, FreshTyped DEF LoadGated, TypeOK
  <2>6. CASE StartCotraining
    BY <2>6, NoTraceTyped DEF StartCotraining, NewMoments, TypeOK
  <2> QED
    BY <1>0, <1>2, <2>1, <2>2, <2>3, <2>4, <2>5, <2>6, TogetherSteps, AttentionBatchTyped,
       ProbeStepTyped, ProbeRestoreTyped, IntermediateBatchTyped, WideBatchTyped,
       CotrainedBatchTyped
<1> QED BY <1>0, <1>1, <1>2 DEF TurnDesigns, TogetherDesigns, Experiments

\* The types of parameters, gradients and moments, and, where regimes train in turn, how
\* far the run is: each regime is trained once, and all of them before anything is scored.
THEOREM TrainingTypeCorrect == Spec => [](TypeOK /\ Turns)
<1>1. TypeOK /\ Turns /\ UNCHANGED vars => (TypeOK /\ Turns)'
  BY DEF vars, TypeOK, Turns
<1> QED BY <1>1, InitTyped, InitTurns, NextTyped, NextTurns, PTL DEF Spec

--------------------------------------------------------------------------------
(* What a group depends on. *)

\* The data a group may depend on: that of its regime, and public data.
Own(g) == {g[2], PublicData}
Within(trace, g) == trace = None \/ trace \subseteq Own(g)

\* The values, the moments and the gradients keep to it as long as nothing was written
\* that should not: a value alone does not, for the next step adds its moments.
Owned == \A g \in Groups : /\ value[g].from \subseteq Own(g)
                           /\ Within(moment[g], g) /\ Within(grad[g], g)
OwnTraces == design \in Isolating /\ leaks = 0 => Owned

LEMMA OwnOf ==
  /\ \A r : Own(Lane(r)) = {r, PublicData} /\ Own(Head(r)) = {r, PublicData}
  /\ Own(Backbone) = {PublicData} /\ Own(PublicHead) = {PublicData}
  BY DEF Own, Lane, Head, Backbone, PublicHead, PublicData

LEMMA IsolatingDesigns == Isolating = TurnDesigns \cup {"attention"}
  BY DEF Isolating, Experiments, TurnDesigns, InTurn, PackedDesigns, Cotrained

\* A regime of an isolating experiment computes with its own data.
LEMMA FlowOwn ==
  ASSUME TypeOK, Owned, design \in Isolating, NEW r \in Regimes
  PROVE  Flow(r) \subseteq {r, PublicData}
<1>1. ASSUME NEW g \in Model.reads[r]
      PROVE  value[g].from \subseteq {r, PublicData}
  <2>1. g \in {Backbone, Lane(r), Head(r)} /\ g \in Groups
    BY IsolatedReads, ModelGroups DEF TypeOK
  <2>2. Own(g) \subseteq {r, PublicData}
    BY <2>1, OwnOf
  <2> QED BY <2>1, <2>2 DEF Owned
<1> QED BY <1>1 DEF Flow

LEMMA RememberedWithin ==
  ASSUME NEW g, NEW old, NEW got, Within(old, g), Within(got, g), got # None
  PROVE  Remembered(old, got) \subseteq Own(g) /\ Within(Remembered(old, got), g)
  BY DEF Within, Remembered

LEMMA StepOwn ==
  ASSUME TypeOK, Owned, NEW entries, NEW decay, NEW got, Step(entries, decay, got),
         \A g \in Groups : Within(got[g], g), leaks' = 0
  PROVE  \A g \in Groups : value'[g].from \subseteq Own(g) /\ Within(moment'[g], g)
<1>1. PICK leak :
        /\ leak # {} => leaks < leaks'
        /\ \A g \in Groups : Stepped(g, g \in AdamMoves(entries, decay, got), g \in leak,
                                     AdamMoments(entries, got)[g])
  BY StepByGroup DEF TypeOK
<1>2. leak = {}
  BY <1>1 DEF TypeOK
<1> SUFFICES ASSUME NEW g \in Groups
             PROVE  value'[g].from \subseteq Own(g) /\ Within(moment'[g], g)
  OBVIOUS
<1>3. Within(moment[g], g) /\ Within(got[g], g) /\ value[g].from \subseteq Own(g)
  BY DEF Owned
<1>4. /\ Within(AdamMoments(entries, got)[g], g)
      /\ g \in AdamMoves(entries, decay, got) => AdamMoments(entries, got)[g] \subseteq Own(g)
  <2>1. CASE g \in entries /\ got[g] # None
    BY <2>1, <1>3, RememberedWithin, AdamMomentsAt
  <2>2. CASE ~(g \in entries /\ got[g] # None)
    BY <2>2, <1>3, AdamMomentsAt DEF AdamMoves
  <2> QED BY <2>1, <2>2
<1>5. Stepped(g, g \in AdamMoves(entries, decay, got), g \in leak, AdamMoments(entries, got)[g])
  BY <1>1
<1>6. moment'[g] = AdamMoments(entries, got)[g]
  BY <1>5 DEF Stepped
<1>7. value'[g].from = value[g].from
        \cup (IF g \in AdamMoves(entries, decay, got) THEN AdamMoments(entries, got)[g] ELSE {})
  BY <1>5, <1>2 DEF Stepped
<1> QED BY <1>3, <1>4, <1>6, <1>7

\* The gradients of a batch of a regime are its own: what is frozen gets none.
LEMMA BatchGradientsOwn ==
  ASSUME TypeOK, Owned, design \in Isolating, at \in Regimes, NEW entries,
         NEW live \in SUBSET (Model.reads[at] \ Model.frozen), NEW g \in Groups
  PROVE  Within(Backward(ZeroGrad(entries), at, live, Flow(at))[g], g)
<1>1. Within(ZeroGrad(entries)[g], g)
  BY DEF Owned, ZeroGrad, Within
<1>2. g \in live => Flow(at) \subseteq Own(g)
  <2> SUFFICES ASSUME g \in live PROVE Flow(at) \subseteq Own(g)
    OBVIOUS
  <2>1. g \in Model.reads[at] /\ g \notin Model.frozen
    OBVIOUS
  <2>2. g = Lane(at) \/ g = Head(at)
    BY <2>1, IsolatedReads
  <2> QED BY <2>2, OwnOf, FlowOwn
<1>3. Backward(ZeroGrad(entries), at, live, Flow(at))[g] =
        IF g \notin Tensors(Model.reads[at] \ Model.frozen) THEN ZeroGrad(entries)[g]
        ELSE (IF ZeroGrad(entries)[g] = None THEN {} ELSE ZeroGrad(entries)[g])
               \cup (IF g \in live THEN Flow(at) ELSE {})
  BY DEF Backward
<1>4. CASE g \notin Tensors(Model.reads[at] \ Model.frozen)
  BY <1>4, <1>1, <1>3
<1>5. CASE g \in Tensors(Model.reads[at] \ Model.frozen)
  BY <1>5, <1>1, <1>2, <1>3 DEF Within
<1> QED BY <1>4, <1>5

LEMMA BatchOwn ==
  ASSUME TypeOK, Owned, design \in Isolating, at \in Regimes, NEW entries, NEW decay,
         Batch(entries, decay), leaks' = 0
  PROVE  Owned'
<1>1. PICK live \in SUBSET (Model.reads[at] \ Model.frozen) :
        LET got == Backward(ZeroGrad(entries), at, live, Flow(at)) IN
        grad' = got /\ Step(entries, decay, got)
  BY DEF Batch
<1>2. PICK got : got = Backward(ZeroGrad(entries), at, live, Flow(at))
  OBVIOUS
<1>3. grad' = got /\ Step(entries, decay, got)
  BY <1>1, <1>2
<1>4. \A g \in Groups : Within(got[g], g)
  BY <1>2, BatchGradientsOwn
<1>5. \A g \in Groups : value'[g].from \subseteq Own(g) /\ Within(moment'[g], g)
  BY <1>3, <1>4, StepOwn
<1> QED BY <1>3, <1>4, <1>5 DEF Owned

LEMMA AttentionBatchOwn ==
  ASSUME TypeOK, Owned, AttentionBatch, leaks' = 0
  PROVE  Owned'
<1>0. design \in Isolating
  BY IsolatingDesigns DEF AttentionBatch
<1> DEFINE back == [g \in Groups |-> IF g \in Lanes THEN Clipped(g[2]) ELSE grad[g]]
<1>1. grad' = back /\ Step(Lanes, "decay", back)
  BY DEF AttentionBatch
<1>2. \A g \in Groups : Within(back[g], g)
  <2> SUFFICES ASSUME NEW g \in Groups PROVE Within(back[g], g)
    OBVIOUS
  <2>1. CASE g \in Lanes
    <3>1. PICK r \in Regimes : g = Lane(r)
      BY <2>1 DEF Lanes
    <3>2. g[2] = r
      BY <3>1 DEF Lane
    <3>3. back[g] = Flow(r)
      BY <2>1, <3>2 DEF Clipped
    <3> QED BY <1>0, <3>1, <3>3, FlowOwn, OwnOf DEF Within
  <2>2. CASE g \notin Lanes
    BY <2>2 DEF Owned
  <2> QED BY <2>1, <2>2
<1> HIDE DEF back
<1>3. \A g \in Groups : value'[g].from \subseteq Own(g) /\ Within(moment'[g], g)
  BY <1>1, <1>2, StepOwn
<1> QED BY <1>1, <1>2, <1>3 DEF Owned

LEMMA InitOwn == Init => OwnTraces
  BY DEF Init, OwnTraces, Owned, Fresh, Untrained, NoTrace, Within

LEMMA NextOwn == ASSUME TypeOK, Turns, OwnTraces, Next PROVE OwnTraces'
<1> SUFFICES ASSUME design' \in Isolating, leaks' = 0 PROVE Owned'
  BY DEF OwnTraces
<1>0. design \in Isolating /\ design' = design /\ at \in Nat /\ leaks \in Nat
  BY DesignStays DEF TypeOK
<1>s. leaks <= leaks' => Owned
  BY <1>0 DEF OwnTraces
<1>1. CASE design \in TurnDesigns
  <2>a. pc = "train" => at \in Regimes
    BY <1>1 DEF Turns
  <2>1. CASE BlankBegin
    <3>1. PICK m \in [Groups -> {None, {}}] : Begin(m)
      BY <2>1 DEF BlankBegin
    <3>2. \A g \in Groups : Within(m[g], g)
      BY DEF Within
    <3>3. UNCHANGED <<value, grad, leaks>> /\ moment' = m
      BY <3>1 DEF Begin
    <3> QED BY <1>0, <1>s, <3>2, <3>3 DEF Owned
  <2>2. CASE DepositionPhase
    <3>1. UNCHANGED <<value, grad, leaks, moment>>
      BY <2>2 DEF DepositionPhase, Begin
    <3> QED BY <1>0, <1>s, <3>1 DEF Owned
  <2>3. CASE OwnBatch \/ DepositionBatch
    <3>1. PICK entries, decay : Batch(entries, decay)
      BY <2>3 DEF OwnBatch, DepositionBatch
    <3>2. at \in Regimes
      BY <3>1, <2>a DEF Batch
    <3>3. leaks <= leaks'
      <4>1. PICK got \in [Groups -> Traces] : Step(entries, decay, got)
        BY <3>1, <3>2, BatchGradientsTyped DEF Batch
      <4> QED BY <4>1, StepTyped
    <3> QED BY <1>0, <1>s, <3>1, <3>2, <3>3, BatchOwn
  <2>4. CASE Ends
    BY <2>4, <1>0, <1>s DEF Ends, EndPhase, Owned
  <2>5. CASE LateStep
    BY <2>5, <1>0, <1>s DEF LateStep, Owned
  <2>6. CASE Stops
    BY <2>6, <1>0, <1>s DEF Stops, Owned
  <2>7. CASE TrainPublicTeacher \/ AdaptPublic
    <3>1. PICK next : TrainPublic(next)
      BY <2>7 DEF TrainPublicTeacher, AdaptPublic
    <3>2. UNCHANGED <<grad, moment, leaks>>
      BY <3>1 DEF TrainPublic
    <3>3. ASSUME NEW g \in Groups PROVE value'[g].from \subseteq value[g].from \cup {PublicData}
      BY <3>1 DEF TrainPublic
    <3> QED BY <1>0, <1>s, <3>2, <3>3 DEF Owned, Own
  <2>8. CASE TenantStage
    <3>1. UNCHANGED <<moment, leaks>> /\ grad' = NoTrace
      BY <2>8 DEF TenantStage
    <3>2. Owned
      BY <1>0, <1>s, <3>1
    <3>3. ASSUME NEW g \in Groups PROVE value'[g].from \subseteq Own(g)
      <4>1. value'[g] = IF g \in Heads THEN value[PublicHead] ELSE value[g]
        BY <2>8 DEF TenantStage
      <4>2. value[PublicHead].from \subseteq {PublicData} /\ value[g].from \subseteq Own(g)
        BY <3>2, SharedAreGroups, OwnOf DEF Owned
      <4> QED BY <4>1, <4>2 DEF Own
    <3> QED BY <3>1, <3>2, <3>3 DEF Owned, NoTrace, Within
  <2> QED BY <1>0, <1>1, <2>1, <2>2, <2>3, <2>4, <2>5, <2>6, <2>7, <2>8, TurnSteps
<1>2. CASE design = "attention"
  <2>1. CASE WatchStep
    BY <2>1, <1>0, <1>s DEF WatchStep, Owned
  <2>2. CASE Stops
    BY <2>2, <1>0, <1>s DEF Stops, Owned
  <2>3. CASE AttentionBegin
    BY <2>3, <1>0, <1>s DEF AttentionBegin, NewMoments, NoTrace, Owned, Within
  <2>4. CASE AttentionBatch
    <3>1. leaks <= leaks'
      <4>1. PICK got : Step(Lanes, "decay", got)
        BY <2>4 DEF AttentionBatch
      <4> QED BY <1>0, <4>1, StepByGroup
    <3> QED BY <1>0, <1>s, <2>4, <3>1, AttentionBatchOwn
  <2>5. ~Load /\ ~ProbeStep /\ ~ProbeRestore /\ ~IntermediateBatch /\ ~WideBatch
        /\ design \notin Gated
    BY <1>2, Guards DEF Gated, Cotrained
  <2> QED
    BY <1>0, <1>2, <2>1, <2>2, <2>3, <2>4, <2>5, TogetherSteps DEF TogetherDesigns
<1> QED BY <1>0, <1>1, <1>2, IsolatingDesigns

LEMMA OwnTracesHold == Spec => []OwnTraces
<1>1. OwnTraces /\ UNCHANGED vars => OwnTraces'
  BY DEF vars, OwnTraces, Owned
<1> QED BY <1>1, InitOwn, NextOwn, TrainingTypeCorrect, PTL DEF Spec

\* For any number of regimes, batches and design: as long as the optimizer writes nothing
\* it should not, a lane and a head depend on the batches of their own regime and on public
\* data alone, and the backbone on public data.
THEOREM OnlyOwnUpdates == Spec => []OwnUpdatesOnly
<1>1. OwnTraces => OwnUpdatesOnly
  <2> SUFFICES ASSUME OwnTraces, design \in Isolating, leaks = 0
               PROVE  /\ \A r \in Regimes : value[Lane(r)].from \cup value[Head(r)].from
                                              \subseteq {r, PublicData}
                      /\ value[Backbone].from \subseteq {PublicData}
    BY DEF OwnUpdatesOnly
  <2>1. Owned
    BY DEF OwnTraces
  <2> QED BY <2>1, OwnOf, LaneIsGroup, HeadIsGroup, SharedAreGroups DEF Owned
<1> QED BY <1>1, OwnTracesHold, PTL

--------------------------------------------------------------------------------
(* What a batch leaves alone. *)

\* The optimizer's entries, or the gradients it is given, spare what another regime reads.
LEMMA OwnEntriesSpare ==
  ASSUME design \in Isolating, at \in Regimes, NEW r \in Regimes, r # at, NEW g \in Model.reads[r]
  PROVE  g \notin {Lane(at), Head(at)}
<1>1. g \in {Backbone, Lane(r), Head(r)}
  BY IsolatedReads
<1>2. Backbone # Lane(at) /\ Backbone # Head(at) /\ Lane(r) # Lane(at) /\ Lane(r) # Head(at)
      /\ Head(r) # Head(at) /\ Head(r) # Lane(at)
  BY LanesApart
<1> QED BY <1>1, <1>2

LEMMA DepositionSpares ==
  ASSUME design = "deposition", at \in Regimes, NEW r \in Regimes, r # at,
         NEW g \in Model.reads[r], g \in Groups, NEW live, NEW from
  PROVE  g \in Lanes => Backward(ZeroGrad(Lanes), at, live, from)[g] = None
<1> SUFFICES ASSUME g \in Lanes
             PROVE  Backward(ZeroGrad(Lanes), at, live, from)[g] = None
  OBVIOUS
<1>1. design \in Isolating
  BY DEF Isolating, Experiments, InTurn, Cotrained
<1>2. Model.lanes # "slices"
  BY ModelOfDesign DEF DepositionModel
<1>3. g \notin Tensors(Model.reads[at] \ Model.frozen)
  <2>1. g \notin {Lane(at), Head(at)}
    BY <1>1, OwnEntriesSpare
  <2>2. g # Backbone
    BY LanesApart DEF Lanes
  <2>3. Model.reads[at] \subseteq {Backbone, Lane(at), Head(at)}
    BY <1>1, IsolatedReads
  <2> QED BY <1>2, <2>1, <2>2, <2>3 DEF Tensors
<1>4. ZeroGrad(Lanes)[g] = None
  BY DEF ZeroGrad, Tensors
<1> QED BY <1>3, <1>4 DEF Backward

\* A group that the optimizer has no entry or no gradient for keeps its value, but for a
\* write that should not be, and what is remembered of it.
LEMMA StepSpares ==
  ASSUME TypeOK, NEW entries, NEW decay, NEW got, NEW g \in Groups, NEW leak,
         g \notin entries \/ got[g] = None,
         Stepped(g, g \in AdamMoves(entries, decay, got), g \in leak, AdamMoments(entries, got)[g])
  PROVE  /\ moment'[g] = moment[g]
         /\ g \notin leak => value'[g] = value[g]
<1>1. g \notin AdamMoves(entries, decay, got) /\ AdamMoments(entries, got)[g] = moment[g]
  BY AdamMomentsAt DEF AdamMoves
<1>2. value[g].n \in Nat /\ value[g] = [n |-> value[g].n, from |-> value[g].from]
  BY ContentsAt
<1>3. g \notin leak => value'[g] = [n |-> value[g].n + 0 + 0, from |-> value[g].from \cup {} \cup {}]
  BY <1>1 DEF Stepped
<1>4. value[g].n + 0 + 0 = value[g].n /\ value[g].from \cup {} \cup {} = value[g].from
  BY <1>2
<1>5. g \notin leak => value'[g] = value[g]
  BY <1>2, <1>3, <1>4
<1> QED BY <1>1, <1>5 DEF Stepped

\* A batch of the regime in training changes what the others read by a leak alone.
LEMMA BatchSpares ==
  ASSUME TypeOK, at \in Regimes, OwnBatch \/ DepositionBatch
  PROVE  \E leak :
           /\ leak = {} \/ \E x \in Present : leak = {x}
           /\ leaks' \in Nat /\ leaks <= leaks' /\ (leak # {} => leaks < leaks')
           /\ \A r \in Regimes \ {at} : \A g \in Model.reads[r] :
                /\ moment'[g] = moment[g]
                /\ g \notin leak => value'[g] = value[g]
<1>0. design \in Isolating
  BY IsolatingDesigns DEF OwnBatch, DepositionBatch, TurnDesigns, InTurn
<1>1. CASE OwnBatch
  <2>1. PICK entries \in {{Lane(at)}, {Lane(at), Head(at)}}, decay \in {"none", "decay"} :
          Batch(entries, decay)
    BY <1>1 DEF OwnBatch
  <2>2. PICK got : Step(entries, decay, got)
    BY <2>1 DEF Batch
  <2>3. PICK leak :
          /\ leak = {} \/ \E x \in Present : leak = {x}
          /\ leaks' \in Nat /\ leaks <= leaks' /\ (leak # {} => leaks < leaks')
          /\ \A g \in Groups : Stepped(g, g \in AdamMoves(entries, decay, got), g \in leak,
                                       AdamMoments(entries, got)[g])
    BY <2>2, StepByGroup DEF TypeOK
  <2>4. ASSUME NEW r \in Regimes \ {at}, NEW g \in Model.reads[r]
        PROVE  moment'[g] = moment[g] /\ (g \notin leak => value'[g] = value[g])
    <3>1. g \in Groups
      BY ModelGroups DEF TypeOK
    <3>2. g \notin entries
      BY <1>0, OwnEntriesSpare
    <3> QED BY <2>3, <3>1, <3>2, StepSpares
  <2> QED BY <2>3, <2>4
<1>2. CASE DepositionBatch
  <2>1. Batch(Lanes, "none") /\ design = "deposition"
    BY <1>2 DEF DepositionBatch
  <2>2. PICK live \in SUBSET (Model.reads[at] \ Model.frozen) :
          LET got == Backward(ZeroGrad(Lanes), at, live, Flow(at)) IN Step(Lanes, "none", got)
    BY <2>1 DEF Batch
  <2>3. PICK got : got = Backward(ZeroGrad(Lanes), at, live, Flow(at))
    OBVIOUS
  <2>4. Step(Lanes, "none", got)
    BY <2>2, <2>3
  <2>5. PICK leak :
          /\ leak = {} \/ \E x \in Present : leak = {x}
          /\ leaks' \in Nat /\ leaks <= leaks' /\ (leak # {} => leaks < leaks')
          /\ \A g \in Groups : Stepped(g, g \in AdamMoves(Lanes, "none", got), g \in leak,
                                       AdamMoments(Lanes, got)[g])
    BY <2>4, StepByGroup DEF TypeOK
  <2>6. ASSUME NEW r \in Regimes \ {at}, NEW g \in Model.reads[r]
        PROVE  moment'[g] = moment[g] /\ (g \notin leak => value'[g] = value[g])
    <3>1. g \in Groups
      BY ModelGroups DEF TypeOK
    <3>2. g \notin Lanes \/ got[g] = None
      BY <2>1, <2>3, <3>1, DepositionSpares
    <3> QED BY <2>5, <3>1, <3>2, StepSpares
  <2> QED BY <2>5, <2>6
<1> QED BY <1>1, <1>2

--------------------------------------------------------------------------------
(* What a regime starts from. *)

StillInitial(r) ==
  \A g \in Model.reads[r] : value[g] = initial[g] /\ moment[g] \in {None, {}}

\* The regimes whose turn has yet to come, and the one whose turn it is before its first
\* batch, have what the run started with.
Ahead ==
  design \in TurnDesigns /\ leaks = 0 =>
    /\ pc \in {"public", "adapt", "stage"} => moment = NoTrace
    /\ pc \in {"next", "train"} =>
         \A r \in Regimes : r > at \/ (r = at /\ pc = "train" /\ steps = 0) => StillInitial(r)

LEMMA InitAhead == Init => Ahead
<1> SUFFICES ASSUME Init PROVE moment = NoTrace /\ \A r \in Regimes : StillInitial(r)
  BY DEF Ahead
<1>1. design \in Experiments
  BY DesignAssumption DEF Init
<1>2. \A r \in Regimes : Model.reads[r] \subseteq Groups
  BY <1>1, ModelGroups
<1>3. \A g \in Groups : NoTrace[g] \in {None, {}}
  BY DEF NoTrace
<1>4. value = initial /\ moment = NoTrace
  BY DEF Init
<1> QED BY <1>2, <1>3, <1>4 DEF StillInitial

LEMMA NextAhead == ASSUME TypeOK, Turns, Ahead, Next PROVE Ahead'
<1> SUFFICES ASSUME design' \in TurnDesigns, leaks' = 0 PROVE Ahead'
  BY DEF Ahead
<1>0. /\ design \in TurnDesigns /\ design' = design /\ at \in Nat /\ leaks \in Nat
      /\ steps \in Nat /\ design \in Experiments
  BY DesignStays DEF TypeOK
<1>m. Model' = Model
  <2>1. design # "intermediate"
    BY <1>0 DEF TurnDesigns, InTurn, PackedDesigns
  <2> QED BY <1>0, <2>1, ModelStays
<1>n. \A r \in Regimes : r \in Nat
  BY RegimesAreNumbers
<1>a. leaks <= leaks' =>
        /\ pc \in {"public", "adapt", "stage"} => moment = NoTrace
        /\ pc \in {"next", "train"} =>
             \A r \in Regimes : r > at \/ (r = at /\ pc = "train" /\ steps = 0) => StillInitial(r)
  BY <1>0 DEF Ahead
<1>1. CASE BlankBegin
  <2>1. PICK m \in [Groups -> {None, {}}] : Begin(m)
    BY <1>1 DEF BlankBegin
  <2>2. /\ pc = "next" /\ at' = at + 1 /\ steps' = 0 /\ pc' = "train" /\ moment' = m
        /\ UNCHANGED <<value, initial, leaks>>
    BY <2>1 DEF Begin
  <2>3. ASSUME NEW r \in Regimes, r > at PROVE StillInitial(r)'
    <3>1. \A g \in Model.reads[r] : g \in Groups /\ value[g] = initial[g]
      BY <1>0, <1>a, <2>2, <2>3, ModelGroups DEF StillInitial
    <3> QED BY <1>m, <2>2, <3>1 DEF StillInitial
  <2>4. ASSUME NEW r \in Regimes, r > at + 1 \/ r = at + 1 PROVE r > at
    BY <1>0, <1>n, <2>4
  <2> QED BY <2>2, <2>3, <2>4 DEF Ahead
<1>2. CASE DepositionPhase
  <2>2. /\ pc = "next" /\ at' = at + 1 /\ steps' = 0 /\ pc' = "train"
        /\ UNCHANGED <<value, initial, leaks, moment>>
    BY <1>2 DEF DepositionPhase, Begin
  <2>3. ASSUME NEW r \in Regimes, r > at PROVE StillInitial(r)'
    BY <1>0, <1>a, <1>m, <2>2, <2>3 DEF StillInitial
  <2>4. ASSUME NEW r \in Regimes, r > at + 1 \/ r = at + 1 PROVE r > at
    BY <1>0, <1>n, <2>4
  <2> QED BY <2>2, <2>3, <2>4 DEF Ahead
<1>3. CASE OwnBatch \/ DepositionBatch
  <2>1. /\ pc = "train" /\ steps' = steps + 1 /\ pc' = pc /\ at' = at /\ initial' = initial
    BY <1>3 DEF OwnBatch, DepositionBatch, Batch
  <2>2. at \in Regimes
    BY <1>0, <2>1 DEF Turns
  <2>3. PICK leak :
           /\ leaks <= leaks' /\ (leak # {} => leaks < leaks')
           /\ \A r \in Regimes \ {at} : \A g \in Model.reads[r] :
                /\ moment'[g] = moment[g]
                /\ g \notin leak => value'[g] = value[g]
    BY <1>3, <2>2, BatchSpares
  <2>4. leak = {}
    BY <1>0, <2>3
  <2>5. steps' # 0
    BY <1>0, <2>1
  <2>6. ASSUME NEW r \in Regimes, r > at PROVE StillInitial(r)'
    <3>1. r # at
      BY <1>0, <1>n, <2>6
    <3>2. StillInitial(r)
      BY <1>a, <2>1, <2>3, <2>6
    <3> QED BY <1>m, <2>1, <2>3, <2>4, <3>1, <3>2 DEF StillInitial
  <2> QED BY <2>1, <2>5, <2>6 DEF Ahead
<1>4. CASE Ends
  <2>1. /\ pc = "train" /\ pc' \in {"next", "score", "report", "pack"}
        /\ UNCHANGED <<at, value, moment, initial, leaks>>
    BY <1>4 DEF Ends, EndPhase
  <2>2. ASSUME NEW r \in Regimes, r > at PROVE StillInitial(r)'
    BY <1>0, <1>a, <1>m, <2>1, <2>2 DEF StillInitial
  <2> QED BY <2>1, <2>2 DEF Ahead
<1>5. CASE LateStep \/ Stops
  BY <1>5 DEF LateStep, Stops, Late, Ahead
<1>6. CASE TrainPublicTeacher \/ AdaptPublic
  <2>1. pc \in {"public", "adapt"} /\ pc' \in {"adapt", "stage"} /\ UNCHANGED <<moment, leaks>>
    BY <1>6 DEF TrainPublicTeacher, AdaptPublic, TrainPublic
  <2> QED BY <1>0, <1>a, <2>1 DEF Ahead
<1>7. CASE TenantStage
  <2>1. pc \in {"adapt", "stage"} /\ pc' = "next" /\ initial' = value' /\ UNCHANGED <<moment, leaks>>
    BY <1>7 DEF TenantStage
  <2>2. moment' = NoTrace
    BY <1>0, <1>a, <2>1
  <2>3. ASSUME NEW r \in Regimes PROVE StillInitial(r)'
    <3>1. \A g \in Model.reads[r] : g \in Groups
      BY <1>0, ModelGroups
    <3>2. \A g \in Groups : NoTrace[g] \in {None, {}}
      BY DEF NoTrace
    <3> QED BY <1>m, <2>1, <2>2, <3>1, <3>2 DEF StillInitial
  <2> QED BY <2>1, <2>2, <2>3 DEF Ahead
<1> QED BY <1>0, <1>1, <1>2, <1>3, <1>4, <1>5, <1>6, <1>7, TurnSteps

\* Where all regimes train together nothing is written before the training, or a probe
\* wrote it and puts back what it wrote.
Together ==
  design \in TogetherDesigns =>
    /\ initial = Fresh
    /\ pc \in FreshPcs => value = Fresh
    /\ pc = "probe" /\ design = "intermediate" => moment = NoTrace /\ steps = 0
    /\ pc = "restore" =>
         /\ moment = NoTrace /\ steps = 0 /\ before.value = Fresh
         /\ leaks = 0 => \A g \in Groups \ Lanes : value[g] = Untrained
    /\ pc = "train" /\ steps = 0 => moment = NoTrace /\ (leaks = 0 => value = Fresh)

LEMMA InitTogether == Init => Together
  BY DEF Init, Together, FreshPcs, TogetherDesigns, Cotrained

\* The probe of a fresh model touches the lane of regime 1 alone.
LEMMA ProbeTouchesOneLane ==
  ASSUME TypeOK, value = Fresh, ProbeStep
  PROVE  /\ before'.value = Fresh
         /\ leaks' = 0 => \A g \in Groups \ Lanes : value'[g] = Untrained
<1>0. 1 \in Regimes
  BY BoundAssumption DEF Regimes
<1>1. before'.value = Fresh
  BY DEF ProbeStep, TypeOK
<1>2. PICK leak \in {{}} \cup {{g} : g \in Present} :
        /\ leaks' = leaks + Cardinality(leak)
        /\ value' = [g \in Groups |->
            [n |-> value[g].n + (IF g = Lane(1) THEN 1 ELSE 0) + (IF g \in leak THEN 1 ELSE 0),
             from |-> value[g].from \cup (IF g = Lane(1) THEN {1} ELSE {})
                                    \cup (IF g \in leak THEN {Leak} ELSE {})]]
  BY DEF ProbeStep
<1>3. leaks' = 0 => leak = {}
  <2>1. leak # {} => Cardinality(leak) = 1
    BY FS_Singleton
  <2> QED BY <1>2, <2>1 DEF TypeOK
<1>4. ASSUME leaks' = 0, NEW g \in Groups \ Lanes PROVE value'[g] = Untrained
  <2>1. g # Lane(1) /\ g \notin leak
    BY <1>0, <1>3, <1>4, LaneIsGroup
  <2>2. value[g].n = 0 /\ value[g].from = {}
    BY DEF Fresh, Untrained
  <2>3. value'[g] = [n |-> value[g].n + 0 + 0, from |-> value[g].from \cup {} \cup {}]
    BY <1>2, <2>1
  <2>4. value[g].n + 0 + 0 = 0 /\ value[g].from \cup {} \cup {} = {}
    BY <2>2
  <2> QED BY <2>3, <2>4 DEF Untrained
<1> QED BY <1>1, <1>4

LEMMA NextTogether == ASSUME TypeOK, Together, Next PROVE Together'
<1> SUFFICES ASSUME design' \in TogetherDesigns PROVE Together'
  BY DEF Together
<1>0. /\ design \in TogetherDesigns /\ design' = design /\ at \in Nat /\ leaks \in Nat
      /\ steps \in Nat
  BY DesignStays DEF TypeOK
<1>f. FreshPcs' = FreshPcs /\ "train" \notin FreshPcs /\ "restore" \notin FreshPcs
      /\ "done" \notin FreshPcs
  BY <1>0 DEF FreshPcs
<1>a. initial = Fresh /\ (pc \in FreshPcs => value = Fresh)
  BY <1>0 DEF Together
<1>1. CASE WatchStep
  BY <1>1, <1>a, <1>f DEF WatchStep, Together
<1>2. CASE Stops
  BY <1>2, <1>a, <1>f DEF Stops, Together
<1>3. CASE AttentionBegin
  <2>1. "next" \in FreshPcs
    BY <1>3 DEF AttentionBegin, FreshPcs
  <2>2. /\ pc' = "train" /\ moment' = NoTrace
        /\ value' = Fresh /\ initial' = Fresh
    BY <1>3, <1>a, <2>1 DEF AttentionBegin, NewMoments
  <2> QED BY <1>f, <2>2 DEF Together
<1>4. CASE AttentionBatch \/ IntermediateBatch \/ WideBatch \/ CotrainedBatch
  <2>1. pc' = "train" /\ steps' = steps + 1 /\ initial' = initial
    BY <1>4 DEF AttentionBatch, IntermediateBatch, WideBatch, CotrainedBatch
  <2>2. steps' # 0
    BY <1>0, <2>1
  <2> QED BY <1>a, <1>f, <2>1, <2>2 DEF Together
<1>5. CASE Load
  <2>1. /\ value' = Fresh /\ moment' = NoTrace /\ steps' = 0 /\ pc' \in {"probe", "train"}
        /\ initial' = Fresh
    BY <1>5, <1>a DEF Load, NewMoments
  <2> QED BY <2>1 DEF Together
<1>6. CASE ProbeStep
  <2>1. /\ design = "intermediate" /\ pc = "probe" /\ pc' = "restore"
        /\ UNCHANGED <<steps, moment, initial>>
    BY <1>6 DEF ProbeStep
  <2>2. value = Fresh
    BY <1>a, <2>1 DEF FreshPcs
  <2>3. moment = NoTrace /\ steps = 0
    BY <1>0, <2>1 DEF Together
  <2> QED BY <1>6, <1>a, <1>f, <2>1, <2>2, <2>3, ProbeTouchesOneLane DEF Together
<1>7. CASE ProbeRestore
  <2>1. /\ pc = "restore" /\ pc' = "train" /\ UNCHANGED <<steps, moment, initial, leaks>>
        /\ value' = [g \in Groups |-> IF g \in Lanes THEN before.value[g] ELSE value[g]]
    BY <1>7 DEF ProbeRestore
  <2>2. /\ moment = NoTrace /\ before.value = Fresh
        /\ leaks = 0 => \A g \in Groups \ Lanes : value[g] = Untrained
    BY <1>0, <2>1 DEF Together
  <2>3. leaks = 0 => value' = Fresh
    BY <2>1, <2>2 DEF Fresh
  <2> QED BY <1>a, <1>f, <2>1, <2>2, <2>3 DEF Together
<1>8. CASE LoadGated
  <2>1. pc' = "start" /\ value' = Fresh /\ initial' = Fresh
    BY <1>8, <1>a DEF LoadGated
  <2> QED BY <2>1 DEF Together
<1>9. CASE design \in Gated /\ StartCotraining
  <2>1. "start" \in FreshPcs
    BY <1>9 DEF Gated, Cotrained, FreshPcs
  <2>2. /\ pc' = "train" /\ moment' = NoTrace
        /\ value' = Fresh /\ initial' = Fresh
    BY <1>9, <1>a, <2>1 DEF StartCotraining, NewMoments
  <2> QED BY <1>f, <2>2 DEF Together
<1> QED
  BY <1>0, <1>1, <1>2, <1>3, <1>4, <1>5, <1>6, <1>7, <1>8, <1>9, TogetherSteps

\* Whichever regimes trained before it, a regime starts from the parameters that the run
\* started with and from blank moments.
THEOREM StartingPoint == Spec => []StartsFromInitial
<1>1. ASSUME TypeOK, Turns, Ahead, Together PROVE StartsFromInitial
  <2> SUFFICES ASSUME pc = "train", steps = 0, leaks = 0,
                      NEW r \in (IF design \in Cotrained \cup {"attention"} THEN Regimes ELSE {at}),
                      NEW g \in Model.reads[r]
               PROVE  value[g] = initial[g] /\ moment[g] \in {None, {}}
    BY DEF StartsFromInitial
  <2>0. design \in Experiments
    BY <1>1 DEF TypeOK
  <2>1. CASE design \in TogetherDesigns
    <3>1. r \in Regimes /\ value = initial /\ moment = NoTrace
      BY <1>1, <2>1 DEF TogetherDesigns, Together
    <3>2. g \in Groups
      BY <2>0, <3>1, ModelGroups
    <3> QED BY <3>1, <3>2 DEF NoTrace
  <2>2. CASE design \in TurnDesigns
    <3>1. design \notin Cotrained \cup {"attention"}
      BY <2>2 DEF TurnDesigns, InTurn, PackedDesigns, Cotrained
    <3>2. r = at /\ at \in Regimes
      BY <1>1, <2>2, <3>1 DEF Turns
    <3>3. StillInitial(r)
      BY <1>1, <2>2, <3>2 DEF Ahead
    <3> QED BY <3>3 DEF StillInitial
  <2> QED BY <2>0, <2>1, <2>2 DEF TurnDesigns, TogetherDesigns, Experiments
<1>2. Ahead /\ Together /\ UNCHANGED vars => (Ahead /\ Together)'
  <2> SUFFICES ASSUME Ahead, Together, UNCHANGED vars PROVE (Ahead /\ Together)'
    OBVIOUS
  <2>1. UNCHANGED <<design, pc, at, steps, value, moment, initial, before, leaks>>
    BY DEF vars
  <2>2. \A r : Model'.reads[r] = Model.reads[r]
    BY <2>1 DEF Model, IntermediateModel
  <2>3. \A r : StillInitial(r)' <=> StillInitial(r)
    BY <2>1, <2>2 DEF StillInitial
  <2> QED BY <2>1, <2>3 DEF Ahead, Together, FreshPcs
<1> QED
  BY <1>1, <1>2, InitAhead, InitTogether, NextAhead, NextTogether, TrainingTypeCorrect, PTL DEF Spec

--------------------------------------------------------------------------------
(* What a regime had learnt is still there. *)

\* A group whose content differs has moved: how often it moved only grows.
Between(a, b, c) == a.n \in Nat /\ b.n \in Nat /\ a.n <= b.n /\ b.n <= c.n /\ (b.n = c.n => b = c)

Ended(r) == r < at \/ (r = at /\ pc # "train")

\* What is measured at the end of a phase is compared with the content at its beginning.
LastSeen == IF pc = "train" THEN before.value ELSE value

\* What a regime had learnt is what its groups hold: those that train as far as was
\* measured, the frozen ones if they never moved.
Kept(r) ==
  /\ learnt[r] = [g \in Model.reads[r] |-> learnt[r][g]]
  /\ \A g \in Model.reads[r] \cap Model.frozen : Between(initial[g], learnt[r][g], value[g])
  /\ found = {} => \A g \in Model.reads[r] \ Model.frozen : learnt[r][g] = LastSeen[g]

Running == {"next", "train", "score", "report"}
LocalDesigns == {"local_dense", "local_modules"}

Learning ==
  design \in InTurn =>
    /\ DOMAIN learnt = Regimes
    /\ pc \in Running =>
         /\ \A g \in Groups : initial[g].n <= value[g].n
         /\ \A r \in Regimes : Ended(r) => Kept(r)

FrozenMeasured ==
  design \in InTurn /\ pc \in {"score", "report"} /\ found = {} =>
    \A r \in Regimes : \A g \in Model.reads[r] \cap Model.frozen : value[g] = initial[g]

ScoredRows ==
  design \in InTurn =>
    /\ DOMAIN score = Regimes
    /\ design \in LocalDesigns /\ pc \in Running =>
         \A r \in Regimes : Ended(r) => score[r] = learnt[r]
    /\ design \notin LocalDesigns /\ pc = "report" => \A r \in Regimes : score[r] = Computed(r)

LEMMA InTurnStays ==
  ASSUME TypeOK, Next, design \in InTurn
  PROVE  design' = design /\ Model' = Model
<1>1. design # "intermediate" /\ design \in Experiments
  BY DEF InTurn, Experiments
<1> QED BY <1>1, DesignStays, ModelStays

\* The optimizer never takes a group back.
LEMMA StepGrows ==
  ASSUME TypeOK, NEW entries, NEW decay, NEW got, Step(entries, decay, got), NEW g \in Groups
  PROVE  value'[g] = value[g] \/ (value'[g].n \in Nat /\ value[g].n < value'[g].n)
<1>1. PICK leak :
        Stepped(g, g \in AdamMoves(entries, decay, got), g \in leak, AdamMoments(entries, got)[g])
  BY StepByGroup DEF TypeOK
<1> DEFINE moved == g \in AdamMoves(entries, decay, got)
<1>2. value[g].n \in Nat /\ value[g] = [n |-> value[g].n, from |-> value[g].from]
  BY ContentsAt
<1>3. value'[g] = [n |-> value[g].n + (IF moved THEN 1 ELSE 0) + (IF g \in leak THEN 1 ELSE 0),
                  from |-> value[g].from \cup (IF moved THEN AdamMoments(entries, got)[g] ELSE {})
                                         \cup (IF g \in leak THEN {Leak} ELSE {})]
  BY <1>1 DEF Stepped
<1>4. CASE ~moved /\ g \notin leak
  <2>1. value'[g] = [n |-> value[g].n + 0 + 0, from |-> value[g].from \cup {} \cup {}]
    BY <1>3, <1>4
  <2>2. value[g].n + 0 + 0 = value[g].n /\ value[g].from \cup {} \cup {} = value[g].from
    BY <1>2
  <2> QED BY <1>2, <2>1, <2>2
<1>5. CASE moved \/ g \in leak
  <2>1. value'[g].n = value[g].n + (IF moved THEN 1 ELSE 0) + (IF g \in leak THEN 1 ELSE 0)
    BY <1>3
  <2> HIDE DEF moved
  <2> QED BY <1>2, <1>5, <2>1
<1> QED BY <1>4, <1>5

LEMMA BetweenGrows ==
  ASSUME NEW a, NEW b, NEW c, NEW d, Between(a, b, c), c.n \in Nat,
         d = c \/ (d.n \in Nat /\ c.n < d.n)
  PROVE  Between(a, b, d)
<1>1. CASE d = c
  BY <1>1
<1>2. CASE d.n \in Nat /\ c.n < d.n
  <2>1. b.n \in Nat /\ b.n <= c.n
    BY DEF Between
  <2>2. b.n < d.n /\ b.n <= d.n /\ b.n # d.n
    BY <1>2, <2>1
  <2> QED BY <2>1, <2>2 DEF Between
<1> QED BY <1>1, <1>2

LEMMA BeginKeeps ==
  ASSUME TypeOK, Learning, ScoredRows, design \in InTurn, NEW m, Begin(m), Model' = Model
  PROVE  Learning' /\ FrozenMeasured' /\ ScoredRows'
<1>1. /\ pc = "next" /\ pc' = "train" /\ at' = at + 1 /\ at \in Nat /\ before'.value = value
      /\ UNCHANGED <<design, value, initial, found, score, learnt>>
  BY DEF Begin, TypeOK, result
<1>2. ASSUME NEW r \in Regimes, Ended(r)' PROVE Ended(r)
  <2>1. r < at + 1 /\ r \in Nat
    BY <1>1, <1>2, RegimesAreNumbers DEF Ended
  <2>2. r < at \/ r = at
    BY <1>1, <2>1
  <2> QED BY <1>1, <2>2 DEF Ended
<1>3. LastSeen' = LastSeen
  BY <1>1 DEF LastSeen
<1>4. ASSUME NEW r \in Regimes, Kept(r) PROVE Kept(r)'
  BY <1>1, <1>3, <1>4 DEF Kept
<1>5. Learning'
  BY <1>1, <1>2, <1>4 DEF Learning, Running
<1>6. FrozenMeasured'
  BY <1>1 DEF FrozenMeasured
<1>7. ScoredRows'
  BY <1>1, <1>2 DEF ScoredRows, Running
<1> QED BY <1>5, <1>6, <1>7

LEMMA BatchKeeps ==
  ASSUME TypeOK, Learning, ScoredRows, design \in InTurn, at \in Regimes, NEW entries, NEW decay,
         Batch(entries, decay), Model' = Model
  PROVE  Learning' /\ FrozenMeasured' /\ ScoredRows'
<1>1. /\ pc = "train" /\ UNCHANGED <<design, pc, at, initial, before, found, score, learnt>>
  BY DEF Batch, result
<1>2. PICK got : Step(entries, decay, got)
  BY DEF Batch
<1>3. \A g \in Groups : value'[g] = value[g] \/ (value'[g].n \in Nat /\ value[g].n < value'[g].n)
  BY <1>2, StepGrows
<1>4. \A r : Ended(r)' <=> Ended(r)
  BY <1>1 DEF Ended
<1>5. LastSeen' = LastSeen
  BY <1>1 DEF LastSeen
<1>6. ASSUME NEW r \in Regimes, Kept(r) PROVE Kept(r)'
  <2>1. ASSUME NEW g \in Model.reads[r] \cap Model.frozen
        PROVE  Between(initial[g], learnt[r][g], value'[g])
    <3>1. g \in Groups
      BY ModelGroups DEF TypeOK
    <3>2. value[g].n \in Nat /\ Between(initial[g], learnt[r][g], value[g])
      BY <1>6, <3>1, ContentsAt DEF Kept
    <3> QED BY <1>3, <3>1, <3>2, BetweenGrows
  <2> QED BY <1>1, <1>5, <1>6, <2>1 DEF Kept
<1>7. ASSUME NEW g \in Groups, initial[g].n <= value[g].n PROVE initial'[g].n <= value'[g].n
  <2>1. initial[g].n \in Nat /\ value[g].n \in Nat
    BY ContentsAt DEF TypeOK, Contents
  <2>2. value'[g] = value[g] \/ (value'[g].n \in Nat /\ value[g].n < value'[g].n)
    BY <1>3
  <2> QED BY <1>1, <1>7, <2>1, <2>2
<1>8. Learning'
  BY <1>1, <1>4, <1>6, <1>7 DEF Learning, Running
<1>9. FrozenMeasured' /\ ScoredRows'
  BY <1>1, <1>4 DEF FrozenMeasured, ScoredRows, Running
<1> QED BY <1>8, <1>9

\* What a measurement that found nothing says: the other regimes' trained groups are as
\* they were when the phase began and, after the last phase, the frozen ones as at first.
Covers(seen) ==
  seen = {} =>
    /\ \A r \in Regimes \ {at} : \A g \in Model.reads[r] \ Model.frozen : value[g] = before.value[g]
    /\ at = R => \A r \in Regimes : \A g \in Model.reads[r] \cap Model.frozen : value[g] = initial[g]

LEMMA UnmovedLane ==
  ASSUME NEW r \in Regimes \ {at}, Moved(before.value, Others(Lanes)) = {}
  PROVE  value[Lane(r)] = before.value[Lane(r)]
<1>1. Lane(r) # Lane(at) /\ Lane(r) # Head(at)
  BY LanesApart
<1>2. Lane(r) \in Others(Lanes)
  BY <1>1, LaneIsGroup DEF Others
<1> QED BY <1>2 DEF Moved

LEMMA UnmovedOthers ==
  ASSUME NEW r \in Regimes \ {at}, Moved(before.value, Others(Lanes \cup Heads)) = {}
  PROVE  value[Lane(r)] = before.value[Lane(r)] /\ value[Head(r)] = before.value[Head(r)]
<1>1. Lane(r) # Lane(at) /\ Lane(r) # Head(at) /\ Head(r) # Head(at) /\ Head(r) # Lane(at)
  BY LanesApart
<1>2. Lane(r) \in Others(Lanes \cup Heads) /\ Head(r) \in Others(Lanes \cup Heads)
  BY <1>1, LaneIsGroup, HeadIsGroup DEF Others
<1> QED BY <1>2 DEF Moved

\* Lanes, and heads where they train, are measured against the beginning of the phase.
LEMMA CoversBySnapshot ==
  ASSUME design \in InTurn, NEW seen,
         \/ design \notin {"dense_ffn", "factorial"} /\ Moved(before.value, Others(Lanes)) \subseteq seen
         \/ Moved(before.value, Others(Lanes \cup Heads)) \subseteq seen,
         \/ Model.frozen = {}
         \/ /\ design \in {"dense_ffn", "factorial", "private_lanes"}
            /\ Moved(initial, {Backbone}) \subseteq seen
         \/ at = R => Moved(initial, Model.frozen) \subseteq seen
  PROVE  Covers(seen)
<1>0. design \in Isolating
  BY IsolatingDesigns DEF TurnDesigns
<1> SUFFICES ASSUME seen = {} PROVE Covers(seen)
  BY DEF Covers
<1>1. ASSUME NEW r \in Regimes \ {at}, NEW g \in Model.reads[r] \ Model.frozen
      PROVE  value[g] = before.value[g]
  <2>1. g = Lane(r) \/ (g = Head(r) /\ design \in {"dense_ffn", "factorial"})
    BY <1>0, IsolatedReads
  <2> QED BY <2>1, UnmovedLane, UnmovedOthers
<1>2. ASSUME at = R, NEW r \in Regimes, NEW g \in Model.reads[r] \cap Model.frozen
      PROVE  value[g] = initial[g]
  <2>1. CASE Model.frozen = {}
    BY <2>1
  <2>2. CASE design \in {"dense_ffn", "factorial", "private_lanes"} /\ Moved(initial, {Backbone}) = {}
    <3>1. Model.frozen \subseteq {Backbone, PublicHead}
      BY <2>2, ModelOfDesign DEF DenseFfnModel, FactorialModel, PrivateLanesModel
    <3>2. g # PublicHead
      <4>1. g \in {Backbone, Lane(r), Head(r)}
        BY <1>0, IsolatedReads
      <4>2. Backbone # PublicHead /\ Lane(r) # PublicHead /\ Head(r) # PublicHead
        BY LanesApart, RegimesAreNumbers DEF Backbone, PublicHead
      <4> QED BY <4>1, <4>2
    <3>3. g = Backbone
      BY <3>1, <3>2
    <3> QED BY <2>2, <3>3 DEF Moved
  <2>3. CASE Moved(initial, Model.frozen) = {}
    BY <2>3 DEF Moved
  <2> QED BY <1>2, <2>1, <2>2, <2>3
<1> QED BY <1>1, <1>2 DEF Covers

LEMMA MeasuredEndCovers ==
  ASSUME design \in InTurn, MeasuredEnd
  PROVE  \E seen, rows, next :
           /\ EndPhase(seen, rows, next) /\ Covers(seen)
           /\ next \in {"score", "report"}
           /\ design \in LocalDesigns => rows = {at}
           /\ design \notin LocalDesigns /\ next = "report" => rows = Regimes
<1>1. CASE DenseFfnMeasure
  <2>1. design = "dense_ffn" /\ EndPhase(DenseFfnMeasured, {}, "score")
    BY <1>1 DEF DenseFfnMeasure
  <2>2. Covers(DenseFfnMeasured)
    BY <2>1, CoversBySnapshot DEF DenseFfnMeasured
  <2> QED BY <2>1, <2>2 DEF LocalDesigns
<1>2. CASE LocalDenseMeasure
  <2> DEFINE seen == Moved(before.value, Others(Lanes)) \cup Stirred(Others(Lanes))
  <2>1. design = "local_dense" /\ EndPhase(seen, {at}, "report")
    BY <1>2 DEF LocalDenseMeasure
  <2>2. Model.frozen = {}
    BY <2>1, ModelOfDesign DEF LocalDenseModel
  <2>3. Covers(seen)
    BY <2>1, <2>2, CoversBySnapshot
  <2> QED BY <2>1, <2>3 DEF LocalDesigns
<1>3. CASE DepositionMeasure
  <2> DEFINE seen == IF at < R THEN {} ELSE Moved(initial, Model.frozen)
  <2>1. design = "deposition" /\ EndPhase(seen, Regimes, "report") /\ OffPartition = {}
    BY <1>3 DEF DepositionMeasure
  <2>2. Moved(before.value, Others(Lanes)) = {}
    BY <2>1 DEF OffPartition
  <2>3. at = R => Moved(initial, Model.frozen) \subseteq seen
    BY BoundAssumption
  <2> HIDE DEF seen
  <2>4. Covers(seen)
    BY <2>1, <2>2, <2>3, CoversBySnapshot
  <2> QED BY <2>1, <2>4 DEF LocalDesigns
<1>4. CASE TenantMeasure
  <2> DEFINE seen == Moved(initial, {Backbone}) \cup Moved(before.value, Others(Lanes \cup Heads))
                       \cup Stirred(Others(Lanes))
  <2>1. design = "factorial" /\ EndPhase(seen, {}, "score")
    BY <1>4 DEF TenantMeasure
  <2>2. Covers(seen)
    BY <2>1, CoversBySnapshot
  <2> QED BY <2>1, <2>2 DEF LocalDesigns
<1>5. CASE design = "local_modules" /\ EndPhase(Moved(before.value, Others(Lanes)), {at}, "report")
  <2>1. Model.frozen = {}
    BY <1>5, ModelOfDesign DEF LocalModulesModel
  <2>2. Covers(Moved(before.value, Others(Lanes)))
    BY <1>5, <2>1, CoversBySnapshot
  <2> QED BY <1>5, <2>2 DEF LocalDesigns
<1>6. CASE /\ design = "private_lanes"
           /\ EndPhase(Moved(before.value, Others(Lanes)) \cup Moved(initial, {Backbone}), {}, "score")
  <2> DEFINE seen == Moved(before.value, Others(Lanes)) \cup Moved(initial, {Backbone})
  <2>1. Covers(seen)
    BY <1>6, CoversBySnapshot
  <2> QED BY <1>6, <2>1 DEF LocalDesigns
<1> QED BY <1>1, <1>2, <1>3, <1>4, <1>5, <1>6 DEF MeasuredEnd

LEMMA EndKeeps ==
  ASSUME TypeOK, Turns, Learning, ScoredRows, design \in InTurn, NEW seen, NEW rows, NEW next,
         EndPhase(seen, rows, next), Covers(seen), next \in {"score", "report"},
         design \in LocalDesigns => rows = {at},
         design \notin LocalDesigns /\ next = "report" => rows = Regimes, Model' = Model
  PROVE  Learning' /\ FrozenMeasured' /\ ScoredRows'
<1>1. /\ pc = "train" /\ pc' = (IF at < R THEN "next" ELSE next)
      /\ found' = found \cup seen
      /\ learnt' = [learnt EXCEPT ![at] = Computed(at)]
      /\ score' = [r \in Regimes |-> IF r \in rows THEN Computed(r) ELSE score[r]]
      /\ UNCHANGED <<design, at, value, initial, before>>
  BY DEF EndPhase
<1>2. /\ at \in Regimes /\ R \in Nat /\ at \in Nat /\ at <= R
      /\ DOMAIN learnt = Regimes
      /\ \A g \in Groups : initial[g].n <= value[g].n
      /\ \A r \in Regimes : Ended(r) => Kept(r)
  BY <1>1, BoundAssumption, RegimesAreNumbers DEF Turns, TurnDesigns, Learning, Running
<1>3. pc' # "train" /\ pc' \in Running /\ LastSeen' = value
  BY <1>1 DEF Running, LastSeen
<1>4. ASSUME NEW r \in Regimes, Ended(r)' PROVE r = at \/ (r # at /\ Ended(r))
  BY <1>1, <1>4 DEF Ended
<1>5. found' = {} => found = {} /\ seen = {}
  BY <1>1
<1>6. ASSUME NEW r \in Regimes, r # at, Ended(r) PROVE Kept(r)'
  <2>1. Kept(r) /\ learnt'[r] = learnt[r]
    BY <1>1, <1>2, <1>6
  <2>2. ASSUME found' = {}, NEW g \in Model.reads[r] \ Model.frozen
        PROVE  learnt'[r][g] = LastSeen'[g]
    <3>1. learnt[r][g] = before.value[g]
      BY <1>1, <1>5, <2>1, <2>2 DEF Kept, LastSeen
    <3>2. value[g] = before.value[g]
      BY <1>5, <1>6, <2>2 DEF Covers
    <3> QED BY <1>3, <2>1, <3>1, <3>2
  <2>3. learnt'[r] = [g \in Model.reads[r] |-> learnt'[r][g]]
    BY <2>1 DEF Kept
  <2>4. \A g \in Model.reads[r] \cap Model.frozen : Between(initial'[g], learnt'[r][g], value'[g])
    BY <1>1, <2>1 DEF Kept
  <2> QED BY <2>2, <2>3, <2>4 DEF Kept
<1>7. Kept(at)'
  <2>1. learnt'[at] = Computed(at)
    BY <1>1, <1>2
  <2>2. learnt'[at] = [g \in Model.reads[at] |-> value[g]]
    BY <2>1 DEF Computed
  <2>3. ASSUME NEW g \in Model.reads[at] \cap Model.frozen
        PROVE  Between(initial'[g], learnt'[at][g], value'[g])
    <3>1. g \in Groups
      BY <1>2, ModelGroups DEF TypeOK
    <3>2. value[g].n \in Nat /\ initial[g].n \in Nat /\ initial[g].n <= value[g].n
      BY <1>2, <3>1, ContentsAt DEF TypeOK, Contents
    <3>3. learnt'[at][g] = value[g]
      BY <2>2
    <3> QED BY <1>1, <3>2, <3>3 DEF Between
  <2>4. \A g \in Model.reads[at] \ Model.frozen : learnt'[at][g] = LastSeen'[g]
    BY <1>3, <2>2
  <2>5. learnt'[at] = [g \in Model.reads[at] |-> learnt'[at][g]]
    BY <2>2
  <2>6. PICK q \in Regimes : q = at
    BY <1>2
  <2>7. Kept(q)'
    BY <2>3, <2>4, <2>5, <2>6 DEF Kept
  <2> QED BY <1>1, <2>6, <2>7
<1>8. Learning'
  <2>1. \A g \in Groups : initial'[g].n <= value'[g].n
    BY <1>1, <1>2
  <2>2. ASSUME NEW r \in Regimes, Ended(r)' PROVE Kept(r)'
    BY <1>1, <1>4, <1>6, <1>7, <2>2
  <2>3. DOMAIN learnt' = Regimes
    BY <1>1, <1>2
  <2> QED BY <2>1, <2>2, <2>3 DEF Learning
<1>9. FrozenMeasured'
  <2> SUFFICES ASSUME pc' \in {"score", "report"}, found' = {},
                      NEW r \in Regimes, NEW g \in Model.reads[r] \cap Model.frozen
               PROVE  value[g] = initial[g]
    BY <1>1 DEF FrozenMeasured
  <2>1. at = R
    BY <1>1, <1>2
  <2> QED BY <1>5, <2>1 DEF Covers
<1>10. ScoredRows'
  <2>0. DOMAIN score' = Regimes
    BY <1>1
  <2>1. ASSUME design \in LocalDesigns, NEW r \in Regimes, Ended(r)' PROVE score'[r] = learnt'[r]
    <3>1. rows = {at}
      BY <2>1
    <3>2. CASE r = at
      BY <1>1, <1>2, <3>1, <3>2
    <3>3. CASE r # at
      <4>1. Ended(r)
        BY <1>4, <2>1, <3>3
      <4>2. score[r] = learnt[r]
        BY <1>1, <2>1, <4>1 DEF ScoredRows, Running
      <4>3. score'[r] = score[r]
        BY <1>1, <3>1, <3>3
      <4>4. learnt'[r] = learnt[r]
        BY <1>1, <1>2, <3>3
      <4> QED BY <4>2, <4>3, <4>4
    <3> QED BY <3>2, <3>3
  <2>2. ASSUME design \notin LocalDesigns, pc' = "report", NEW r \in Regimes
        PROVE  score'[r] = Computed(r)'
    <3>1. rows = Regimes
      BY <1>1, <2>2
    <3>2. score'[r] = Computed(r)
      BY <1>1, <3>1
    <3> QED BY <1>1, <3>2 DEF Computed
  <2> QED BY <1>1, <2>0, <2>1, <2>2 DEF ScoredRows
<1> QED BY <1>8, <1>9, <1>10

LEMMA StageKeeps ==
  ASSUME TypeOK, Turns, Learning, ScoredRows, design \in InTurn, TenantStage, Model' = Model
  PROVE  Learning' /\ FrozenMeasured' /\ ScoredRows'
<1>1. /\ pc' = "next" /\ pc \in {"adapt", "stage"} /\ initial' = value'
      /\ UNCHANGED <<design, at, found, score, learnt>>
  BY DEF TenantStage, result
<1>2. at = 0
  BY <1>1 DEF Turns, TurnDesigns
<1>3. \A r \in Regimes : ~Ended(r)'
  BY <1>1, <1>2, RegimesAreNumbers DEF Ended
<1>4. \A g \in Groups : initial'[g].n <= value'[g].n
  <2>1. value' \in [Groups -> Contents]
    BY StageTyped DEF TypeOK
  <2>2. \A g \in Groups : value'[g].n \in Nat
    BY <2>1 DEF Contents
  <2> QED BY <1>1, <2>2
<1>5. Learning'
  BY <1>1, <1>3, <1>4 DEF Learning
<1>6. FrozenMeasured'
  BY <1>1 DEF FrozenMeasured
<1>7. ScoredRows'
  BY <1>1, <1>3 DEF ScoredRows
<1> QED BY <1>5, <1>6, <1>7

LEMMA ScoreKeeps ==
  ASSUME Learning, FrozenMeasured, ScoredRows, FinalScore, Model' = Model
  PROVE  Learning' /\ FrozenMeasured' /\ ScoredRows'
<1>1. /\ pc = "score" /\ pc' = "report" /\ score' = [r \in Regimes |-> Computed(r)]
      /\ UNCHANGED <<design, at, value, initial, before, found, learnt>>
      /\ design \notin LocalDesigns
  BY DEF FinalScore, Score, LocalDesigns
<1>2. LastSeen' = LastSeen
  BY <1>1 DEF LastSeen
<1>3. \A r : (Ended(r)' <=> Ended(r)) /\ (Kept(r)' <=> Kept(r)) /\ Computed(r)' = Computed(r)
  BY <1>1, <1>2 DEF Ended, Kept, Computed
<1>4. Learning'
  BY <1>1, <1>3 DEF Learning, Running
<1>5. FrozenMeasured'
  BY <1>1 DEF FrozenMeasured
<1>6. ScoredRows'
  BY <1>1, <1>3 DEF ScoredRows
<1> QED BY <1>4, <1>5, <1>6

\* Outside the run of the regimes nothing is claimed.
LEMMA OutsideKeeps ==
  ASSUME Learning, ScoredRows, pc' \notin Running, UNCHANGED <<design, learnt>>,
         UNCHANGED score
  PROVE  Learning' /\ FrozenMeasured' /\ ScoredRows'
  BY DEF Learning, FrozenMeasured, ScoredRows, Running

LEMMA InitLearning == Init => Learning /\ FrozenMeasured /\ ScoredRows
<1> SUFFICES ASSUME Init PROVE Learning /\ FrozenMeasured /\ ScoredRows
  OBVIOUS
<1>1. pc # "score" /\ pc # "report" /\ at = 0 /\ value = Fresh /\ initial = Fresh
      /\ DOMAIN learnt = Regimes /\ DOMAIN score = Regimes
  <2>1. design \in InTurn => pc \in {"public", "next"}
    <3>1. CASE design = "factorial"
      BY <3>1 DEF Init
    <3>2. CASE design \in InTurn \ {"factorial"}
      BY <3>2 DEF Init, InTurn
    <3> QED BY <3>1, <3>2
  <2>2. pc \in {"public", "next", "probe", "load", "start", "control"}
    BY DEF Init
  <2> QED BY <2>2 DEF Init
<1>2. ASSUME design \in InTurn PROVE \A r \in Regimes : ~Ended(r)
  BY <1>1, RegimesAreNumbers DEF Ended
<1>3. \A g \in Groups : initial[g].n <= value[g].n
  BY <1>1 DEF Fresh, Untrained
<1> QED BY <1>1, <1>2, <1>3 DEF Learning, FrozenMeasured, ScoredRows

LEMMA NextLearning ==
  ASSUME TypeOK, Turns, Learning, FrozenMeasured, ScoredRows, Next
  PROVE  Learning' /\ FrozenMeasured' /\ ScoredRows'
<1> SUFFICES ASSUME design' \in InTurn PROVE Learning' /\ FrozenMeasured' /\ ScoredRows'
  BY DEF Learning, FrozenMeasured, ScoredRows
<1>0. design \in InTurn /\ design \in TurnDesigns
  BY DesignStays DEF TurnDesigns
<1>m. Model' = Model /\ design' = design
  BY <1>0, InTurnStays
<1>t. pc = "train" => at \in Regimes
  BY <1>0 DEF Turns
<1>1. CASE BlankBegin \/ DepositionPhase
  <2>1. PICK m : Begin(m)
    BY <1>1 DEF BlankBegin, DepositionPhase
  <2> QED BY <1>0, <1>m, <2>1, BeginKeeps
<1>2. CASE OwnBatch \/ DepositionBatch
  <2>1. PICK entries, decay : Batch(entries, decay)
    BY <1>2 DEF OwnBatch, DepositionBatch
  <2>2. at \in Regimes
    BY <1>t, <2>1 DEF Batch
  <2> QED BY <1>0, <1>m, <2>1, <2>2, BatchKeeps
<1>3. CASE MeasuredEnd
  <2>1. PICK seen, rows, next :
           /\ EndPhase(seen, rows, next) /\ Covers(seen)
           /\ next \in {"score", "report"}
           /\ design \in LocalDesigns => rows = {at}
           /\ design \notin LocalDesigns /\ next = "report" => rows = Regimes
    BY <1>0, <1>3, MeasuredEndCovers
  <2> QED BY <1>0, <1>m, <2>1, EndKeeps
<1>4. CASE FinalScore
  BY <1>4, <1>m, ScoreKeeps
<1>5. CASE FinalVerdict
  <2>1. pc' = "done" /\ UNCHANGED <<design, learnt, score>>
    BY <1>5 DEF FinalVerdict, Verdict
  <2> QED BY <2>1, OutsideKeeps DEF Running
<1>6. CASE Stops
  <2>1. pc' = "done" /\ UNCHANGED <<design, learnt, score>>
    BY <1>6 DEF Stops
  <2> QED BY <2>1, OutsideKeeps DEF Running
<1>7. CASE TrainPublicTeacher \/ AdaptPublic
  <2>1. pc' \in {"adapt", "stage"} /\ UNCHANGED <<design, learnt, score>>
    BY <1>7 DEF TrainPublicTeacher, AdaptPublic, TrainPublic, result
  <2> QED BY <2>1, OutsideKeeps DEF Running
<1>8. CASE TenantStage
  BY <1>8, <1>0, <1>m, StageKeeps
<1>9. ~PackedEnd /\ ~BankStep
  BY <1>0 DEF PackedEnd, BankStep, InTurn, PackedDesigns
<1> QED BY <1>0, <1>1, <1>2, <1>3, <1>4, <1>5, <1>6, <1>7, <1>8, <1>9, TurnActions

--------------------------------------------------------------------------------
(* The banks of packed lanes, and the lanes of the attention experiment. *)

\* A lane keeps what it had learnt while the next ones train, the bank holds it, and the
\* scores are of the bank.
Banked ==
  design \in PackedDesigns =>
    /\ DOMAIN learnt = Regimes
    /\ pc # "done" => \A r \in Regimes : Ended(r) => learnt[r] = Computed(r)
    /\ pc \in {"score", "spoof", "audit", "report"} => \A r \in Regimes : lone[r] = value[Lane(r)]
    /\ pc \in {"spoof", "audit", "report"} =>
         \A r \in Regimes : score[r] = [g \in {Lane(r)} |-> lone[r]]

LEMMA PackedReads ==
  ASSUME design \in PackedDesigns, NEW r \in Regimes
  PROVE  Model.reads[r] = {Lane(r)} /\ Computed(r) = [g \in {Lane(r)} |-> value[Lane(r)]]
<1>1. Model.reads[r] = {Lane(r)}
  BY ModelOfDesign DEF PackedModel
<1> QED BY <1>1 DEF Computed

LEMMA InitBanked == Init => Banked
<1> SUFFICES ASSUME Init, design \in PackedDesigns PROVE Banked
  BY DEF Banked
<1>1. pc = "next" /\ at = 0 /\ DOMAIN learnt = Regimes
  BY DEF Init, PackedDesigns
<1>2. \A r \in Regimes : ~Ended(r)
  BY <1>1, RegimesAreNumbers DEF Ended
<1> QED BY <1>1, <1>2 DEF Banked

LEMMA NextBanked == ASSUME TypeOK, Turns, Banked, Next PROVE Banked'
<1> SUFFICES ASSUME design' \in PackedDesigns PROVE Banked'
  BY DEF Banked
<1>0. design \in PackedDesigns /\ design \in TurnDesigns /\ design' = design /\ at \in Nat
  BY DesignStays DEF TurnDesigns, TypeOK
<1>m. Model' = Model
  BY <1>0, ModelStays DEF PackedDesigns, TypeOK
<1>d. DOMAIN learnt = Regimes
  BY <1>0 DEF Banked
<1>1. CASE BlankBegin
  <2>1. /\ pc = "next" /\ pc' = "train" /\ at' = at + 1 /\ UNCHANGED <<value, learnt>>
    BY <1>1 DEF BlankBegin, Begin, result
  <2>2. ASSUME NEW r \in Regimes, Ended(r)' PROVE Ended(r)
    <3>1. r < at + 1 /\ r \in Nat
      BY <2>1, <2>2, RegimesAreNumbers DEF Ended
    <3>2. r < at \/ r = at
      BY <1>0, <3>1
    <3> QED BY <2>1, <3>2 DEF Ended
  <2>3. \A r : Computed(r)' = Computed(r)
    BY <1>m, <2>1 DEF Computed
  <2> QED BY <1>0, <1>d, <2>1, <2>2, <2>3 DEF Banked
<1>2. CASE OwnBatch
  <2>1. /\ pc = "train" /\ UNCHANGED <<pc, at, learnt>>
    BY <1>2 DEF OwnBatch, Batch, result
  <2>2. at \in Regimes
    BY <1>0, <2>1 DEF Turns
  <2>3. PICK leak :
           /\ leak = {} \/ \E x \in Present : leak = {x}
           /\ \A r \in Regimes \ {at} : \A g \in Model.reads[r] : g \notin leak => value'[g] = value[g]
    BY <1>2, <2>2, BatchSpares
  <2>4. leak \subseteq {Lane(at)}
    BY <1>0, <2>3 DEF Present
  <2>5. ASSUME NEW r \in Regimes, r < at PROVE learnt'[r] = Computed(r)'
    <3>1. r # at
      BY <1>0, <2>5, RegimesAreNumbers
    <3>2. Lane(r) \notin leak
      BY <2>4, <3>1, LanesApart
    <3>3. value'[Lane(r)] = value[Lane(r)]
      BY <1>0, <2>3, <3>1, <3>2, PackedReads
    <3>4. learnt[r] = [g \in {Lane(r)} |-> value[Lane(r)]]
      BY <1>0, <2>1, <2>5, PackedReads DEF Banked, Ended
    <3>5. Computed(r)' = [g \in {Lane(r)} |-> value'[g]]
      BY <1>0, <1>m, PackedReads DEF Computed
    <3> QED BY <2>1, <3>3, <3>4, <3>5
  <2> QED BY <1>d, <2>1, <2>5 DEF Banked, Ended
<1>3. CASE PackedEnd
  <2>1. /\ pc = "train" /\ pc' \in {"next", "pack"}
        /\ learnt' = [learnt EXCEPT ![at] = Computed(at)] /\ UNCHANGED <<at, value>>
    BY <1>3 DEF PackedEnd, EndPhase
  <2>2. \A r : Computed(r)' = Computed(r)
    BY <1>m, <2>1 DEF Computed
  <2>3. ASSUME NEW r \in Regimes, Ended(r)' PROVE learnt'[r] = Computed(r)
    <3>1. CASE r = at
      BY <1>d, <2>1, <3>1
    <3>2. CASE r # at
      BY <1>0, <1>d, <2>1, <2>3, <3>2 DEF Banked, Ended
    <3> QED BY <3>1, <3>2
  <2> QED BY <1>d, <2>1, <2>2, <2>3 DEF Banked
<1>4. CASE BankStep
  <2>1. UNCHANGED <<design, at, value, learnt>>
    BY <1>4 DEF BankStep, Packs, ScoresBank, SpoofProbe, AuditsBank, ReportsBank
  <2>2. \A r : Computed(r)' = Computed(r)
    BY <1>m, <2>1 DEF Computed
  <2>3. pc # "train" /\ pc # "done"
    BY <1>4 DEF BankStep, Packs, ScoresBank, SpoofProbe, AuditsBank, ReportsBank
  <2>4. pc' # "done" => \A r \in Regimes : Ended(r)' => learnt'[r] = Computed(r)'
    BY <1>0, <2>1, <2>2, <2>3 DEF Banked, Ended
  <2>5. CASE Packs
    <3>1. pc' = "score" /\ lone' = [r \in Regimes |-> value[Lane(r)]]
      BY <2>5 DEF Packs
    <3> QED BY <1>d, <2>1, <2>4, <3>1 DEF Banked
  <2>6. CASE \E next \in {"audit", "spoof"} : ScoresBank(next)
    <3>1. pc = "score" /\ lone' = lone /\ score' = [r \in Regimes |-> [g \in {Lane(r)} |-> lone[r]]]
      BY <2>6 DEF ScoresBank
    <3>2. \A r \in Regimes : score'[r] = [g \in {Lane(r)} |-> lone'[r]]
      BY <3>1
    <3>3. \A r \in Regimes : lone'[r] = value'[Lane(r)]
      BY <1>0, <2>1, <3>1 DEF Banked
    <3> QED BY <1>d, <2>1, <2>4, <3>2, <3>3 DEF Banked
  <2>7. CASE SpoofProbe \/ AuditsBank
    <3>1. pc \in {"spoof", "audit"} /\ UNCHANGED <<lone, score>>
      BY <2>7 DEF SpoofProbe, AuditsBank
    <3> QED BY <1>0, <1>d, <2>1, <2>4, <3>1 DEF Banked
  <2>8. CASE ReportsBank
    <3>1. pc' = "done"
      BY <2>8 DEF ReportsBank
    <3> QED BY <1>d, <2>1, <3>1 DEF Banked
  <2> QED BY <1>4, <2>5, <2>6, <2>7, <2>8 DEF BankStep
<1>5. CASE Stops
  BY <1>5, <1>d DEF Stops, Banked
<1>6. /\ ~DepositionPhase /\ ~DepositionBatch /\ ~FinalScore /\ ~FinalVerdict
      /\ ~TrainPublicTeacher /\ ~AdaptPublic /\ ~TenantStage
  BY <1>0, Guards DEF FinalScore, FinalVerdict, InTurn, PackedDesigns
<1>7. ~MeasuredEnd
  BY <1>0, Guards DEF MeasuredEnd, PackedDesigns
<1> QED BY <1>0, <1>1, <1>2, <1>3, <1>4, <1>5, <1>6, <1>7, TurnActions

\* What the attention lanes were scored with when the controls began.
Compared ==
  design = "attention" /\ pc = "control" =>
    \A r \in Regimes : learnt[r] = Computed(r) /\ score[r] = Computed(r)

LEMMA AttentionActions ==
  ASSUME Next, design = "attention"
  PROVE  \/ AttentionProbe \/ AttentionBegin \/ AttentionBatch \/ AttentionScore \/ TrainSeparate
         \/ CompareSeparate \/ Stops
<1>1. \/ AttentionProbe \/ AttentionBegin \/ AttentionBatch \/ AttentionScore \/ TrainSeparate
      \/ CompareSeparate \/ Fail
  BY Guards DEF Next
<1>2. Fail => Stops
  BY DEF Fail, Stops
<1> QED BY <1>1, <1>2

LEMMA NextCompared == ASSUME TypeOK, Compared, Next PROVE Compared'
<1> SUFFICES ASSUME design' = "attention", pc' = "control" PROVE Compared'
  BY DEF Compared
<1>0. design = "attention" /\ design' = design
  BY DesignStays
<1>m. Model' = Model
  BY <1>0, ModelStays DEF TypeOK
<1>1. AttentionScore \/ TrainSeparate
  BY <1>0, AttentionActions
  DEF AttentionProbe, AttentionBegin, AttentionBatch, CompareSeparate, Stops
<1>2. UNCHANGED value
  BY <1>1 DEF AttentionScore, TrainSeparate
<1>3. \A r : Computed(r)' = Computed(r)
  BY <1>m, <1>2 DEF Computed
<1>4. CASE AttentionScore
  BY <1>3, <1>4 DEF AttentionScore, Compared
<1>5. CASE TrainSeparate
  BY <1>3, <1>5 DEF TrainSeparate, Compared
<1> QED BY <1>1, <1>4, <1>5

LEMMA InitCompared == Init => Compared
  BY DEF Init, Compared

--------------------------------------------------------------------------------
(* A run that reports separation had it. *)

\* The verdict is the last thing an isolating experiment does.
Verdicts == design \in Isolating /\ report \in {"pass", "complete"} => pc = "done"

\* A step that gives no verdict, or gives a negative one, claims nothing.
LEMMA NoVerdictYet ==
  ASSUME Verdicts, Next, pc # "done", UNCHANGED report \/ report' = "failed"
  PROVE  Verdicts' /\ PassIsSeparated'
<1>1. design' = design
  BY DesignStays
<1>2. ~(design' \in Isolating /\ report' \in {"pass", "complete"})
  BY <1>1 DEF Verdicts, Isolating
<1> QED BY <1>2 DEF Verdicts, PassIsSeparated

\* What a regime had learnt is what it computes with, if nothing was found.
LEMMA KeptIsComputed ==
  ASSUME TypeOK, FrozenMeasured, design \in InTurn, pc \in {"score", "report"}, found = {},
         NEW r \in Regimes, Kept(r)
  PROVE  learnt[r] = Computed(r)
<1>1. ASSUME NEW g \in Model.reads[r] PROVE learnt[r][g] = value[g]
  <2>1. CASE g \in Model.frozen
    <3>1. g \in Groups /\ value[g] = initial[g]
      BY <1>1, <2>1, ModelGroups DEF TypeOK, FrozenMeasured
    <3>2. Between(value[g], learnt[r][g], value[g])
      BY <1>1, <2>1, <3>1 DEF Kept
    <3>3. PICK low, middle : low = value[g].n /\ middle = learnt[r][g].n
      OBVIOUS
    <3>4. low \in Nat /\ middle \in Nat /\ low <= middle /\ middle <= low
      BY <3>2, <3>3 DEF Between
    <3>5. middle = low
      BY <3>4
    <3> QED BY <3>2, <3>3, <3>5 DEF Between
  <2>2. CASE g \notin Model.frozen
    BY <1>1, <2>2 DEF Kept, LastSeen
  <2> QED BY <2>1, <2>2
<1>2. learnt[r] = [g \in Model.reads[r] |-> learnt[r][g]]
  BY DEF Kept
<1>3. learnt[r] = [g \in Model.reads[r] |-> value[g]]
  BY <1>1, <1>2
<1> QED BY <1>3 DEF Computed

LEMMA FinalVerdictSeparated ==
  ASSUME TypeOK, Turns, Learning, FrozenMeasured, ScoredRows, FinalVerdict, Next
  PROVE  Verdicts' /\ PassIsSeparated'
<1>1. /\ design \in InTurn /\ pc = "report" /\ pc' = "done"
      /\ UNCHANGED <<design, at, value, found, score, learnt, lone>>
  BY DEF FinalVerdict, Verdict
<1>2. Verdicts'
  BY <1>1 DEF Verdicts
<1>3. Model' = Model
  BY <1>1, InTurnStays
<1>4. at = R /\ design \notin PackedDesigns \cup {"attention"}
  BY <1>1 DEF Turns, TurnDesigns, Late, InTurn, PackedDesigns
<1>5. ASSUME found = {}, NEW r \in Regimes
      PROVE  learnt[r] = Computed(r) /\ score[r] = Computed(r)
  <2>1. Ended(r)
    <3>1. r < R \/ r = R
      BY RegimesAreNumbers, BoundAssumption
    <3> QED BY <1>1, <1>4, <3>1 DEF Ended
  <2>2. Kept(r)
    BY <1>1, <2>1 DEF Learning, Running
  <2>3. learnt[r] = Computed(r)
    BY <1>1, <1>5, <2>2, KeptIsComputed
  <2>4. CASE design \in LocalDesigns
    BY <1>1, <2>1, <2>3, <2>4 DEF ScoredRows, Running
  <2>5. CASE design \notin LocalDesigns
    BY <1>1, <2>3, <2>5 DEF ScoredRows
  <2> QED BY <2>3, <2>4, <2>5
<1>6. \A r : Computed(r)' = Computed(r)
  BY <1>1, <1>3 DEF Computed
<1> QED BY <1>1, <1>2, <1>4, <1>5, <1>6 DEF PassIsSeparated

LEMMA BankSeparated ==
  ASSUME TypeOK, Turns, Banked, design \in PackedDesigns, ReportsBank
  PROVE  Verdicts' /\ PassIsSeparated'
<1>1. /\ pc = "report" /\ pc' = "done"
      /\ UNCHANGED <<design, at, value, found, score, learnt, lone>>
  BY DEF ReportsBank
<1>2. Verdicts'
  BY <1>1 DEF Verdicts
<1>3. Model' = Model
  BY <1>1, ModelStays DEF TypeOK, PackedDesigns
<1>4. at = R
  BY <1>1 DEF Turns, TurnDesigns, Late
<1>5. ASSUME NEW r \in Regimes
      PROVE  learnt[r] = Computed(r) /\ score[r] = Computed(r) /\ value[Lane(r)] = lone[r]
  <2>1. Ended(r)
    <3>1. r < R \/ r = R
      BY RegimesAreNumbers, BoundAssumption
    <3> QED BY <1>1, <1>4, <3>1 DEF Ended
  <2>2. learnt[r] = Computed(r) /\ lone[r] = value[Lane(r)]
        /\ score[r] = [g \in {Lane(r)} |-> lone[r]]
    BY <1>1, <2>1 DEF Banked
  <2>3. Computed(r) = [g \in {Lane(r)} |-> value[Lane(r)]]
    BY PackedReads
  <2> QED BY <2>2, <2>3
<1>6. \A r : Computed(r)' = Computed(r)
  BY <1>1, <1>3 DEF Computed
<1> QED BY <1>1, <1>2, <1>5, <1>6 DEF PassIsSeparated

LEMMA ComparisonSeparated ==
  ASSUME TypeOK, Compared, CompareSeparate
  PROVE  Verdicts' /\ PassIsSeparated'
<1>1. /\ design = "attention" /\ pc = "control" /\ pc' = "done"
      /\ found' = {Lane(r) : r \in {q \in Regimes : value[Lane(q)] # lone[q]}}
      /\ UNCHANGED <<design, at, value, score, learnt, lone>>
  BY DEF CompareSeparate
<1>2. Verdicts'
  BY <1>1 DEF Verdicts
<1>3. Model' = Model
  BY <1>1, ModelStays DEF TypeOK
<1>4. found' = {} => \A r \in Regimes : value[Lane(r)] = lone[r]
  BY <1>1
<1>5. \A r \in Regimes : learnt[r] = Computed(r) /\ score[r] = Computed(r)
  BY <1>1 DEF Compared
<1>6. \A r : Computed(r)' = Computed(r)
  BY <1>1, <1>3 DEF Computed
<1> QED BY <1>1, <1>2, <1>4, <1>5, <1>6 DEF PassIsSeparated

LEMMA NextSeparated ==
  ASSUME TypeOK, Turns, Learning, FrozenMeasured, ScoredRows, Banked, Compared, Verdicts, Next
  PROVE  Verdicts' /\ PassIsSeparated'
<1>0. design' = design
  BY DesignStays
<1>1. CASE design \notin Isolating
  BY <1>0, <1>1 DEF Verdicts, PassIsSeparated
<1>2. CASE design = "attention"
  <2>1. CASE CompareSeparate
    BY <2>1, ComparisonSeparated
  <2>2. CASE AttentionProbe
    <3>1. pc # "done" /\ (UNCHANGED report \/ report' = "failed")
      BY <2>2 DEF AttentionProbe
    <3> QED BY <3>1, NoVerdictYet
  <2>3. CASE AttentionBegin \/ AttentionBatch \/ AttentionScore \/ TrainSeparate
    <3>1. pc # "done" /\ UNCHANGED report
      BY <2>3 DEF AttentionBegin, AttentionBatch, AttentionScore, TrainSeparate, result
    <3> QED BY <3>1, NoVerdictYet
  <2>4. CASE Stops
    BY <2>4, <1>0 DEF Stops, Verdicts, PassIsSeparated
  <2> QED BY <1>2, <2>1, <2>2, <2>3, <2>4, AttentionActions
<1>3. CASE design \in TurnDesigns
  <2>1. CASE FinalVerdict
    BY <2>1, FinalVerdictSeparated
  <2>2. CASE BankStep
    <3>1. CASE ReportsBank
      BY <2>2, <3>1, BankSeparated DEF BankStep
    <3>2. CASE Packs \/ (\E next \in {"audit", "spoof"} : ScoresBank(next)) \/ SpoofProbe \/ AuditsBank
      <4>1. pc # "done" /\ UNCHANGED report
        BY <3>2 DEF Packs, ScoresBank, SpoofProbe, AuditsBank
      <4> QED BY <4>1, NoVerdictYet
    <3> QED BY <2>2, <3>1, <3>2 DEF BankStep
  <2>3. CASE BlankBegin \/ DepositionPhase \/ OwnBatch \/ DepositionBatch
    <3>1. pc # "done" /\ UNCHANGED report
      BY <2>3 DEF BlankBegin, DepositionPhase, OwnBatch, DepositionBatch, Begin, Batch, result
    <3> QED BY <3>1, NoVerdictYet
  <2>4. CASE MeasuredEnd \/ PackedEnd
    <3>1. PICK seen, rows, next : EndPhase(seen, rows, next)
      BY <2>4 DEF MeasuredEnd, PackedEnd, DenseFfnMeasure, LocalDenseMeasure, DepositionMeasure,
                  TenantMeasure
    <3>2. pc # "done" /\ UNCHANGED report
      BY <3>1 DEF EndPhase
    <3> QED BY <3>2, NoVerdictYet
  <2>5. CASE FinalScore \/ TrainPublicTeacher \/ AdaptPublic \/ TenantStage
    <3>1. pc # "done" /\ UNCHANGED report
      BY <2>5 DEF FinalScore, Score, TrainPublicTeacher, AdaptPublic, TrainPublic, TenantStage,
                  result
    <3> QED BY <3>1, NoVerdictYet
  <2>6. CASE Stops
    BY <2>6, <1>0 DEF Stops, Verdicts, PassIsSeparated
  <2> QED BY <1>3, <2>1, <2>2, <2>3, <2>4, <2>5, <2>6, TurnActions
<1> QED BY <1>1, <1>2, <1>3, IsolatingDesigns

\* The invariant of the verdict; each part holds because of those before it.
Separation ==
  /\ TypeOK /\ Turns
  /\ Learning /\ FrozenMeasured /\ ScoredRows
  /\ Banked /\ Compared
  /\ Verdicts /\ PassIsSeparated

LEMMA SeparationStutters == ASSUME Separation, UNCHANGED vars PROVE Separation'
<1>1. UNCHANGED <<design, pc, at, steps, value, grad, moment, initial, before, lone, found, score,
                  report, learnt, leaks>>
  BY DEF vars
<1>2. Model' = Model
  BY <1>1 DEF Model, IntermediateModel
<1>3. \A r : (Ended(r)' <=> Ended(r)) /\ Computed(r)' = Computed(r)
  BY <1>1, <1>2 DEF Ended, Computed
<1>4. \A r : Kept(r)' <=> Kept(r)
  BY <1>1, <1>2 DEF Kept, LastSeen
<1>5. (TypeOK /\ Turns)'
  BY <1>1 DEF Separation, TypeOK, Turns
<1>6. (Learning /\ FrozenMeasured /\ ScoredRows)'
  BY <1>1, <1>2, <1>3, <1>4 DEF Separation, Learning, FrozenMeasured, ScoredRows
<1>7. (Banked /\ Compared)'
  BY <1>1, <1>3 DEF Separation, Banked, Compared
<1>8. (Verdicts /\ PassIsSeparated)'
  BY <1>1, <1>3 DEF Separation, Verdicts, PassIsSeparated
<1> QED BY <1>5, <1>6, <1>7, <1>8 DEF Separation

\* Whatever the optimizer wrote, a run of an isolating experiment that reports separation
\* with nothing found left every regime with what it had learnt, scored it on that, and
\* agrees with the lanes it was compared with.
THEOREM ReportedSeparationHolds == Spec => []PassIsSeparated
<1>1. Init => Separation
  <2>1. Init => Verdicts /\ PassIsSeparated
    BY DEF Init, Verdicts, PassIsSeparated
  <2> QED BY <2>1, InitTyped, InitTurns, InitLearning, InitBanked, InitCompared DEF Separation
<1>2. Separation /\ Next => Separation'
  BY NextTyped, NextTurns, NextLearning, NextBanked, NextCompared, NextSeparated DEF Separation
<1>3. Separation /\ UNCHANGED vars => Separation'
  BY SeparationStutters
<1>4. Separation => PassIsSeparated
  BY DEF Separation
<1> QED BY <1>1, <1>2, <1>3, <1>4, PTL DEF Spec
================================================================================
