------------------------------ MODULE TrainingStep -----------------------------
(***************************************************************************)
(* What the training experiments of research/cdp/experiments have in common:  *)
(* several regimes train lanes of one model, and the run ends with a verdict. *)
(* One behaviour runs one experiment.                                       *)
(*                                                                         *)
(* Parameters are taken in groups: the backbone, the lane of a regime (the   *)
(* slice of every FFN its mask selects, or its own modules), and the heads.  *)
(* A group holds how often it moved and whose data its value depends on.     *)
(* The gradient of a group is absent (None), zero ({}), or the data it       *)
(* depends on; so is what the moments of an optimizer remember.              *)
(*                                                                         *)
(* An optimizer is a library, or a class built on one: the experiments       *)
(* measure what it wrote and do not assume it.  Up to MaxLeaks of its steps   *)
(* write a group that they should not.                                      *)
(***************************************************************************)
EXTENDS Integers, FiniteSets

CONSTANTS
  Designs,     \* the experiments that may run
  R,           \* regimes
  Steps,       \* batches of a training phase
  MaxLeaks,    \* bound on the steps that write a group they should not
  None

ASSUME BoundAssumption == R \in Nat \ {0} /\ Steps \in Nat \ {0} /\ MaxLeaks \in Nat

\* Regimes that train after one another, or all in one step.
InTurn == {"dense_ffn", "local_dense", "local_modules", "private_lanes", "deposition", "factorial"}
PackedDesigns == {"authorized_moe", "token_moe"}
Cotrained == {"intermediate", "wide", "distilbert", "generative_ffn", "generative_full"}
Experiments == InTurn \cup PackedDesigns \cup Cotrained \cup {"attention"}
ASSUME DesignAssumption == Designs \subseteq Experiments

Regimes == 1..R
PublicData == 0
Leak == -1
Sources == Regimes \cup {PublicData, Leak}
ASSUME NoneAssumption == \A sources \in SUBSET Sources : sources # None

Backbone == <<"backbone", 0>>
PublicHead == <<"head", 0>>
Lane(r) == <<"lane", r>>
Head(r) == <<"head", r>>
Lanes == {Lane(r) : r \in Regimes}
Heads == {Head(r) : r \in Regimes}
Groups == {Backbone, PublicHead} \cup Lanes \cup Heads

VARIABLES
  design,     \* the experiment
  pc,         \* where its run is
  at,         \* the regime in training (of "intermediate": the condition)
  steps,      \* batches of this phase so far
  value,      \* what the parameters hold
  grad,       \* what backward left in the parameters
  moment,     \* what the optimizer remembers of each group
  initial,    \* the parameters before the regimes train
  before,     \* parameters and moments when the phase began
  lone,       \* lanes outside the model: trained each alone, or copied into a bank
  found,      \* groups a measurement found changed
  score,      \* by regime, the parameters its reported score was computed from
  report,     \* the verdict
  learnt,     \* by regime, the parameters it reads, when its training ended
  leaks       \* steps that wrote a group they should not

vars == <<design, pc, at, steps, value, grad, moment, initial, before, lone, found, score,
          report, learnt, leaks>>
result == <<lone, found, score, report, learnt>>

Contents == [n : Nat, from : SUBSET Sources]
Traces == {None} \cup SUBSET Sources
Untrained == [n |-> 0, from |-> {}]
Fresh == [g \in Groups |-> Untrained]
NoTrace == [g \in Groups |-> None]

--------------------------------------------------------------------------------
\* The models: the groups the forward pass of each regime reads, the groups that do
\* not require gradients, and whether lanes are slices of one tensor or modules.

DenseFfnModel == [reads |-> [r \in Regimes |-> {Backbone, Lane(r), Head(r)}],
                  frozen |-> {Backbone}, lanes |-> "slices"]
LocalDenseModel == [reads |-> [r \in Regimes |-> {Lane(r)}], frozen |-> {}, lanes |-> "slices"]
LocalModulesModel == [reads |-> [r \in Regimes |-> {Lane(r)}], frozen |-> {}, lanes |-> "modules"]
PrivateLanesModel == [reads |-> [r \in Regimes |-> {Backbone, Lane(r)}],
                      frozen |-> {Backbone}, lanes |-> "modules"]
DepositionModel == [reads |-> [r \in Regimes |-> {Backbone, Lane(r), Head(r)}],
                    frozen |-> {Backbone} \cup Heads, lanes |-> "modules"]
AttentionModel == [reads |-> [r \in Regimes |-> {Lane(r)}], frozen |-> {}, lanes |-> "modules"]
FactorialModel == [reads |-> [r \in Regimes |-> {Backbone, Lane(r), Head(r)}],
                   frozen |-> {Backbone, PublicHead}, lanes |-> "slices"]
\* The second condition of "intermediate" installs no hooks: every lane is read.
IntermediateModel ==
  [reads |-> [r \in Regimes |-> {Backbone} \cup (IF at = 2 THEN Lanes ELSE {Lane(r)})],
   frozen |-> {}, lanes |-> "slices"]

\* A packed lane is a model of its own; the token lanes hold their prefix as well.
PackedModel == [reads |-> [r \in Regimes |-> {Lane(r)}], frozen |-> {}, lanes |-> "modules"]
\* Rows of the two matrices and, for all regimes, one output bias.
WideModel == [reads |-> [r \in Regimes |-> {Lane(r), PublicHead}], frozen |-> {},
              lanes |-> "slices"]
DistilBertModel == [reads |-> [r \in Regimes |-> {Backbone, Lane(r), PublicHead}],
                    frozen |-> {}, lanes |-> "slices"]
\* The mask of a regime on the output of every FFN; in the full experiment on the
\* output of every attention as well.
GenerativeFfnModel == [reads |-> [r \in Regimes |-> {Backbone, Lane(r)}], frozen |-> {},
                       lanes |-> "slices"]
GenerativeFullModel == GenerativeFfnModel

Model ==
  CASE design = "dense_ffn" -> DenseFfnModel
    [] design = "local_dense" -> LocalDenseModel
    [] design = "local_modules" -> LocalModulesModel
    [] design = "private_lanes" -> PrivateLanesModel
    [] design = "deposition" -> DepositionModel
    [] design = "attention" -> AttentionModel
    [] design = "factorial" -> FactorialModel
    [] design = "intermediate" -> IntermediateModel
    [] design \in PackedDesigns -> PackedModel
    [] design = "wide" -> WideModel
    [] design = "distilbert" -> DistilBertModel
    [] design = "generative_ffn" -> GenerativeFfnModel
    [] design = "generative_full" -> GenerativeFullModel

\* What the forward pass of r computes with, and the groups an optimizer could write:
\* those of the model it was made for, which is the whole one unless lanes are packed.
Computed(r) == [g \in Model.reads[r] |-> value[g]]
Present == IF design \in PackedDesigns THEN {Lane(at)}
           ELSE (UNION {Model.reads[r] : r \in Regimes}) \cup Model.frozen

\* The groups whose gradient tensors are those of the groups gs.
Tensors(gs) == gs \cup (IF Model.lanes = "slices" /\ gs \cap Lanes # {} THEN Lanes ELSE {})

--------------------------------------------------------------------------------
\* The preflight of execution_preflight.py, which a model callback has to pass: a frame
\* names a model, dimensions and a regime.

Runtime(authorized) == [model |-> "configured", dimensions |-> 1, authorized |-> authorized]
Frame(r) == [model |-> "configured", dimensions |-> 1, regime |-> r]

Validates(runtime, frame) ==
  /\ runtime.authorized # {}
  /\ frame.model = runtime.model /\ frame.dimensions = runtime.dimensions
  /\ frame.regime \in runtime.authorized

\* The probe: a regime after the last one, another model, other dimensions, and the
\* authority of nobody; none of the four may pass.
RejectionProbe(runtime) ==
  LET first == CHOOSE r \in runtime.authorized : \A q \in runtime.authorized : r <= q
      last == CHOOSE r \in runtime.authorized : \A q \in runtime.authorized : r >= q IN
  /\ \A frame \in {Frame(last + 1), [Frame(first) EXCEPT !.model = "other"],
                   [Frame(first) EXCEPT !.dimensions = 2]} : ~Validates(runtime, frame)
  /\ ~Validates(Runtime({}), Frame(first))

\* The packed experiments give every regime a runtime of its own.
RuntimeOf(r) == Runtime(IF design \in PackedDesigns THEN {r} ELSE Regimes)
Authorized(r) == Validates(RuntimeOf(r), Frame(r))
Probed == \A r \in Regimes : RejectionProbe(RuntimeOf(r))

--------------------------------------------------------------------------------
\* One batch: zero_grad, backward, step.

\* zero_grad: the gradients of the optimizer's tensors are dropped.
ZeroGrad(entries) == [g \in Groups |-> IF g \in Tensors(entries) THEN None ELSE grad[g]]

\* What the gradients of a loss of regime r depend on: its batch and all it reads.
Flow(r) == {r} \cup UNION {value[g].from : g \in Model.reads[r]}

\* backward of a loss of regime r: the tensors it reaches hold a gradient, which is
\* zero but for the groups of live.
Backward(old, r, live, from) ==
  [g \in Groups |->
     IF g \notin Tensors(Model.reads[r] \ Model.frozen) THEN old[g]
     ELSE (IF old[g] = None THEN {} ELSE old[g]) \cup (IF g \in live THEN from ELSE {})]

\* The moments after a step of Adam over entries: a group without a gradient is
\* passed over, its moments are kept.
AdamMoments(entries, got) ==
  [g \in Groups |->
     IF g \in entries /\ got[g] # None
     THEN (IF moment[g] = None THEN {} ELSE moment[g]) \cup got[g] ELSE moment[g]]

\* The groups that step moves: those whose moments or weight decay are not zero.
AdamMoves(entries, decay, got) ==
  {g \in entries : got[g] # None /\ (AdamMoments(entries, got)[g] # {} \/ decay = "decay")}

\* A step: the moved groups come to depend on what their moments remember.
Step(entries, decay, got) ==
  \E leak \in {{}} \cup {{g} : g \in Present} :
    /\ leak # {} => leaks < MaxLeaks
    /\ leaks' = leaks + Cardinality(leak)
    /\ moment' = AdamMoments(entries, got)
    /\ value' = [g \in Groups |->
         LET moved == g \in AdamMoves(entries, decay, got) IN
         [n |-> value[g].n + (IF moved THEN 1 ELSE 0) + (IF g \in leak THEN 1 ELSE 0),
          from |-> value[g].from \cup (IF moved THEN AdamMoments(entries, got)[g] ELSE {})
                                 \cup (IF g \in leak THEN {Leak} ELSE {})]]

\* The moments of a new optimizer of the library, and of a scoped one, which makes
\* zero moments for the whole of its tensors.
NewMoments == NoTrace
NewScopedMoments(entries) == [g \in Groups |-> IF g \in Tensors(entries) THEN {} ELSE None]

\* A regime begins its phase with the moments given, after the snapshots.
Begin(moments) ==
  /\ pc = "next" /\ at < R
  /\ at' = at + 1 /\ steps' = 0 /\ pc' = "train"
  /\ before' = [value |-> value, moment |-> moments]
  /\ moment' = moments
  /\ UNCHANGED <<design, value, grad, initial, result, leaks>>

\* One batch of the regime in training; a gradient may come out zero.
Batch(entries, decay) ==
  /\ pc = "train" /\ steps < Steps
  /\ steps' = steps + 1
  /\ \E live \in SUBSET (Model.reads[at] \ Model.frozen) :
       LET got == Backward(ZeroGrad(entries), at, live, Flow(at)) IN
       grad' = got /\ Step(entries, decay, got)
  /\ UNCHANGED <<design, pc, at, initial, before, result>>

\* The phase of a regime has ended: the groups seen were found changed, and the rows
\* of the regimes rows are computed before the run goes on.
EndPhase(seen, rows, next) ==
  /\ pc = "train" /\ steps = Steps
  /\ found' = found \cup seen
  /\ learnt' = [learnt EXCEPT ![at] = Computed(at)]
  /\ score' = [r \in Regimes |-> IF r \in rows THEN Computed(r) ELSE score[r]]
  /\ pc' = IF at < R THEN "next" ELSE next
  /\ UNCHANGED <<design, at, steps, value, grad, moment, initial, before, lone, report, leaks>>

\* Groups of gs that differ from a snapshot, and those with moments that are not zero.
Moved(old, gs) == {g \in gs : value[g] # old[g]}
Stirred(gs) == {g \in gs : moment[g] \notin {None, {}}}
Others(gs) == gs \ {Lane(at), Head(at)}

\* The rows of all regimes are computed from the final model.
Score ==
  /\ pc = "score"
  /\ \A r \in Regimes : Authorized(r)
  /\ score' = [r \in Regimes |-> Computed(r)]
  /\ pc' = "report"
  /\ UNCHANGED <<design, at, steps, value, grad, moment, initial, before, lone, found, report,
                 learnt, leaks>>

Verdict(yes, no) ==
  /\ pc = "report"
  /\ report' = IF found = {} /\ Probed THEN yes ELSE no
  /\ pc' = "done"
  /\ UNCHANGED <<design, at, steps, value, grad, moment, initial, before, lone, found, score,
                 learnt, leaks>>
================================================================================
