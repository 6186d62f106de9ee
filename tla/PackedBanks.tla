------------------------------ MODULE PackedBanks ------------------------------
(***************************************************************************)
(* The experts with a learned router (train_authorized_moe.py) and the token *)
(* lanes with an internal prefix (train_capability_token_moe.py): lanes are  *)
(* trained each by itself, copied into a bank, compared with their copies,    *)
(* and one step through a copy of the bank is audited.                       *)
(***************************************************************************)
EXTENDS TrainingStep

\* A regime may use a range of the bank's experts; a lane counts its own from zero.
ExpertsPerRegime == 2
Local == 0..ExpertsPerRegime - 1
AllowedExperts(r) == (r - 1) * ExpertsPerRegime..r * ExpertsPerRegime - 1
Offset(r) == CHOOSE x \in AllowedExperts(r) : \A y \in AllowedExperts(r) : x <= y

\* The experts that a forward through the bank picked, given the lane's own choice, and
\* those that a router over all lanes picks when the others are masked before softmax.
Dispatched(r, choice) == {Offset(r) + e : e \in choice}
DenseRoute(r, choice) ==
  {x \in 0..R * ExpertsPerRegime - 1 : x \in AllowedExperts(r) /\ x - Offset(r) \in choice}
Strayed(choice) ==
  {Lane(r) : r \in {q \in Regimes : \/ ~(Dispatched(q, choice[q]) \subseteq AllowedExperts(q))
                                    \/ Dispatched(q, choice[q]) # DenseRoute(q, choice[q])}}
Choices == [Regimes -> (SUBSET Local) \ {{}}]

\* A lane is made when its turn comes and trained with an AdamW of its own.
TrainsLanes ==
  \/ Begin(NewMoments)
  \/ Batch({Lane(at)}, "decay")
  \/ EndPhase({}, {}, "pack")

\* The bank holds deep copies of the trained lanes.
Packs ==
  /\ pc = "pack"
  /\ lone' = [r \in Regimes |-> value[Lane(r)]]
  /\ pc' = "score"
  /\ UNCHANGED <<design, at, steps, value, grad, moment, initial, before, found, score, report,
                 learnt, leaks>>

\* Every regime is scored through the bank, after its own preflight, and the answers of
\* the bank are compared with those of the lane.
ScoresBank(next) ==
  /\ pc = "score"
  /\ \A r \in Regimes : Authorized(r)
  /\ \E choice \in Choices :
       found' = found \cup Strayed(choice)
                      \cup {Lane(r) : r \in {q \in Regimes : lone[q] # value[Lane(q)]}}
  /\ score' = [r \in Regimes |-> [g \in {Lane(r)} |-> lone[r]]]
  /\ pc' = next
  /\ UNCHANGED <<design, at, steps, value, grad, moment, initial, before, lone, report, learnt,
                 leaks>>

\* One batch of regime 1 through a copy of the bank, with one AdamW for all its lanes: a
\* lane without a gradient is passed over.  What moved, holds a gradient or has
\* optimizer state in another lane is found; the bank stays as it was scored.
AuditsBank ==
  /\ pc = "audit"
  /\ \E leak \in {{}} \cup {{g} : g \in Lanes} :
       LET got == Backward(NoTrace, 1, {Lane(1)}, {1} \cup lone[1].from)
           changed == {r \in Regimes : got[Lane(r)] # None \/ Lane(r) \in leak} IN
       /\ leak # {} => leaks < MaxLeaks
       /\ leaks' = leaks + Cardinality(leak)
       /\ found' = found \cup {Lane(r) : r \in changed \ {1}}
  /\ pc' = "report"
  /\ UNCHANGED <<design, at, steps, value, grad, moment, initial, before, lone, score, report,
                 learnt>>

\* Every router moved, nothing was found, no probe passed; the floors of accuracy and of
\* use are up to the data.
ReportsBank ==
  /\ pc = "report"
  /\ \E floors \in BOOLEAN :
       report' = IF /\ floors /\ found = {} /\ Probed
                    /\ \A r \in Regimes : Moved(initial, {Lane(r)}) # {}
                 THEN "pass" ELSE "failed"
  /\ pc' = "done"
  /\ UNCHANGED <<design, at, steps, value, grad, moment, initial, before, lone, found, score,
                 learnt, leaks>>

ExpertTrain == design = "authorized_moe" /\ TrainsLanes
ExpertPack == design = "authorized_moe" /\ Packs
ExpertScore == design = "authorized_moe" /\ ScoresBank("audit")
ExpertAudit == design = "authorized_moe" /\ AuditsBank
ExpertReport == design = "authorized_moe" /\ ReportsBank

TokenTrain == design = "token_moe" /\ TrainsLanes
TokenPack == design = "token_moe" /\ Packs
TokenScore == design = "token_moe" /\ ScoresBank("spoof")

\* A text that names every regime is data: the runtime's regime selects the lane, the
\* text what the lane's own router picks.
SpoofProbe ==
  /\ design = "token_moe" /\ pc = "spoof"
  /\ \E choice \in Choices : found' = found \cup Strayed(choice)
  /\ pc' = "audit"
  /\ UNCHANGED <<design, at, steps, value, grad, moment, initial, before, lone, score, report,
                 learnt, leaks>>

TokenAudit == design = "token_moe" /\ AuditsBank
TokenReport == design = "token_moe" /\ ReportsBank
================================================================================
