--------------------------- MODULE MCRecertification ---------------------------
(* Two evidence roots and two operators, with one CPU canary and one GPU job, the
   factorial, which is planned as modal-recertification.json plans it for a
   compatibility campaign. *)
EXTENDS Recertification, SequencesExt, TLC

MCPlan == [stage \in Stages |->
  IF stage = "canary" THEN <<"ai-pki-cpu-canary", "public-gate-adaptation-factorial">>
  ELSE <<"public-gate-adaptation-factorial">>]

\* The factorial runs a pilot before its full run.
Remote(stage, j) == IF stage = "full" /\ j = "public-gate-adaptation-factorial" THEN 2 ELSE 1

\* modal-recertification.json: one ratio and one seed, and both designs, of each job.
PlannedFor(stage, j) ==
  [variant |-> stage,
   options |-> [size |-> IF stage = "canary" THEN "smoke" ELSE "full", seeds |-> <<42>>,
                ratios |-> <<8>>, designs |-> <<"adapter", "expert">>],
   records |-> IF stage = "full" /\ j = "private-transformer-lanes" THEN 2 ELSE 1,
   remote  |-> IF stage = "full" /\ j = "private-transformer-lanes" THEN 2 ELSE Remote(stage, j)]
MCPlanned == [stage \in Stages |-> [j \in Collected |-> PlannedFor(stage, j)]]

AssetsOf(j) == CASE j = "cargo-transformer-authorization" -> "cargo"
                 [] j = "generative-intermediate" -> "wikitext"
                 [] j = "distilbert-service-consolidation" -> "sst2"
                 [] OTHER -> "ag_news"
ConfigsOf(j, o) == CASE j = "dense-ffn-cotenancy" -> DenseConfigs(o)
                     [] j = "private-transformer-lanes" -> PrivateConfigs(o)
                     [] j = "public-gate-adaptation-factorial" -> FactorialConfigs(o)
                     [] j = "runtime-orthogonal-superposition" -> {OrthogonalConfig(o)}
                     [] j = "generative-intermediate" -> GenerativeConfigs(o)
                     [] OTHER -> {ServiceConfig(o)}

\* The report of a run in which each record shows these facts.
Report(stage, j, facts) ==
  LET o == PlannedFor(stage, j).options
      Ran(configs) == SetToSeq({[config |-> c, assets |-> AssetsOf(j), holds |-> facts] : c \in configs})
  IN  [experiment |-> j, head |-> "sealed", holds |-> {"source", "summary"},
       pilot |-> IF Remote(stage, j) = 2 THEN Ran({PilotConfig(o)}) ELSE <<>>,
       records |-> Ran(ConfigsOf(j, o))]

\* Every validator accepts the report of a run in which everything holds, in both
\* stages, and rejects one in which the refusals were not shown.
ASSUME ReportsAreJudged ==
  \A stage \in Stages, j \in Experiments :
    /\ Accepts(Report(stage, j, Facts), j, PlannedFor(stage, j))
    /\ ~Accepts(Report(stage, j, Facts \ {"refusals", "attacks"}), j, PlannedFor(stage, j))

\* The facts that the factorial demands, with and without its refusals.
Wanted == {"source", "identity", "status", "placement", "algorithm", "splits", "compute",
           "conditions", "zeroes", "refusals"}
MCOutcomes == [stage \in Stages |-> [j \in Collected |->
  {Report(stage, j, Wanted), Report(stage, j, Wanted \ {"refusals"})}]]

MCCost == [low |-> 3, high |-> 4, ceiling |-> 8]
MCRequests == [plan : {"this", "other"}, usd : {3, 4}, has : {Provider, {}}]

\* A canary, a full stage that is cut short, and another attempt; or two that overlap.
MCMaxStarts == [m \in {"alone", "together"} |-> IF m = "alone" THEN 4 ELSE 2]

\* HEAD moves away and back; while executions overlap, away.
MCMaxMoves == [m \in {"alone", "together"} |-> IF m = "alone" THEN 2 ELSE 1]

Symmetry == Permutations(Roots) \cup Permutations(Executors)
================================================================================
