------------------------------- MODULE Acceptance ------------------------------
(***************************************************************************)
(* What a re-certification plan demands of an experiment artifact:          *)
(* validate_artifact and the seven validators that it chooses from          *)
(* (scripts/modal_recertification.py).                                      *)
(*                                                                         *)
(* An artifact is a report: the experiment that it names, the checkout that *)
(* it was written from, and one record for each remote execution.  A record *)
(* has the configuration and the assets that it ran with, and the facts that *)
(* its fields show: "refusals", for one, when its rejection probe refused    *)
(* every request and called no model.  A validator demands facts of records; *)
(* how fields, rows and measurements show a fact is left out.               *)
(***************************************************************************)
EXTENDS Integers, Sequences, FiniteSets, Functions

Single == {"cargo-transformer-authorization", "runtime-orthogonal-superposition",
           "distilbert-service-consolidation"}
Experiments == Single \cup {"dense-ffn-cotenancy", "private-transformer-lanes",
                            "public-gate-adaptation-factorial", "generative-intermediate"}

Sizes == {"smoke", "full"}
Designs == {"adapter", "expert"}

\* The launcher arguments of a planned step, parsed: lists have no repetition.
Options == [size : Sizes, seeds : Seq(Nat), ratios : Seq(Nat), designs : Seq(Designs)]
Listed(s) == s # <<>> /\ IsInjective(s)

\* A planned step of a job with an artifact.
Steps == [variant : {"canary", "full"}, options : Options, records : Nat, remote : Nat]

Configs == [size : Sizes, seeds : SUBSET Nat, ratios : SUBSET Nat, designs : SUBSET Designs]
Facts == {"source", "identity", "status", "placement", "zeroes", "refusals", "algorithm",
          "splits", "compute", "conditions", "recall", "docks", "receipts", "owners",
          "attacks", "ratios", "determinism", "partition", "matched", "schedule",
          "confinement", "extraction", "measurements"}
Assets == {"ag_news", "cargo", "wikitext", "sst2", "other"}
Records == [config : Configs, assets : Assets, holds : SUBSET Facts]

\* holds: the combined report has the source that its records have, and its summary
\* says that everything passed.
Reports == [experiment : Experiments \cup {"none"}, head : {"sealed", "other"},
            holds : SUBSET {"source", "summary"}, pilot : Seq(Records), records : Seq(Records)]

\* load_json: a file that is empty, cut short, or not strict JSON names no experiment.
Unreadable == [experiment |-> "none", head |-> "other", holds |-> {}, pilot |-> <<>>,
               records |-> <<>>]

--------------------------------------------------------------------------------
(* The configurations that the planned arguments stand for. *)

Config(size, seeds, ratios, designs) ==
  [size |-> size, seeds |-> seeds, ratios |-> ratios, designs |-> designs]

DenseConfigs(o) ==
  LET ratios == IF o.size = "smoke" THEN {2} ELSE Range(o.ratios)
      seeds  == IF o.size = "smoke" THEN {42} ELSE Range(o.seeds)
  IN  {Config(o.size, {run[1]}, {run[2]}, {}) : run \in seeds \X ratios}

\* A smoke run takes the first design and the first seed.
PrivateConfigs(o) ==
  LET designs == IF o.size = "smoke" THEN {o.designs[1]} ELSE Range(o.designs)
      seeds   == IF o.size = "smoke" THEN {o.seeds[1]} ELSE Range(o.seeds)
  IN  {Config(o.size, {run[1]}, {4}, {run[2]}) : run \in seeds \X designs}

PilotConfig(o) == Config("smoke", {o.seeds[1]}, {8}, {})
FactorialConfigs(o) ==
  IF o.size = "smoke" THEN {Config("smoke", {42}, {8}, {})}
  ELSE {Config("full", {s}, {8}, {}) : s \in Range(o.seeds)}

OrthogonalConfig(o) ==
  Config(o.size, {0}, IF o.size = "smoke" THEN {8} ELSE Range(o.ratios), {})

GenerativeConfigs(o) == {Config(o.size, {s}, Range(o.ratios), {}) : s \in Range(o.seeds)}

ServiceConfig(o) == Config(o.size, {42}, {8}, {})

--------------------------------------------------------------------------------
(* The validators. *)

Shows(records, facts) == \A k \in DOMAIN records : facts \subseteq records[k].holds

\* _require_config_multiset; planned configurations do not repeat.
RanAs(records, configs) ==
  /\ Len(records) = Cardinality(configs)
  /\ {records[k].config : k \in DOMAIN records} = configs

Uses(records, assets) == \A k \in DOMAIN records : records[k].assets = assets

Identified == {"identity", "status"}
Dense(report, o) ==
  /\ RanAs(report.records, DenseConfigs(o)) /\ Uses(report.records, "ag_news")
  /\ Shows(report.records, Identified \cup {"placement", "algorithm", "zeroes", "refusals"})

Private(report, o) ==
  /\ RanAs(report.records, PrivateConfigs(o)) /\ Uses(report.records, "ag_news")
  /\ Shows(report.records, Identified \cup {"placement", "zeroes", "refusals"})

\* Every result, and the pilot of a full run.
FactorialResults(records) ==
  /\ Uses(records, "ag_news")
  /\ Shows(records, Identified \cup {"placement", "algorithm", "splits", "compute",
                                     "conditions", "zeroes", "refusals"})
Factorial(report, o) ==
  /\ "summary" \in report.holds
  /\ RanAs(report.records, FactorialConfigs(o)) /\ FactorialResults(report.records)
  /\ o.size = "full" => /\ RanAs(report.pilot, {PilotConfig(o)})
                        /\ FactorialResults(report.pilot)

\* Nothing is asked of a configuration, and no runtime probe; instead each dock that
\* must be refused is a row of its own.
Cargo(report) ==
  /\ Uses(report.records, "cargo")
  /\ Shows(report.records, Identified \cup {"recall", "docks", "receipts", "owners", "attacks"})

Orthogonal(report, o) ==
  /\ RanAs(report.records, {OrthogonalConfig(o)}) /\ Uses(report.records, "ag_news")
  /\ Shows(report.records, Identified \cup {"placement", "ratios", "zeroes", "refusals"})

Generative(report, o) ==
  /\ "summary" \in report.holds
  /\ RanAs(report.records, GenerativeConfigs(o)) /\ Uses(report.records, "wikitext")
  /\ Shows(report.records, Identified \cup {"determinism", "partition", "matched", "schedule",
                                            "confinement", "zeroes", "refusals"})

Service(report, o) ==
  /\ RanAs(report.records, {ServiceConfig(o)}) /\ Uses(report.records, "sst2")
  /\ Shows(report.records, Identified \cup {"extraction", "conditions", "measurements",
                                            "refusals"})

Validated(report, job, o) ==
  \/ job = "dense-ffn-cotenancy" /\ Dense(report, o)
  \/ job = "private-transformer-lanes" /\ Private(report, o)
  \/ job = "public-gate-adaptation-factorial" /\ Factorial(report, o)
  \/ job = "cargo-transformer-authorization" /\ Cargo(report)
  \/ job = "runtime-orthogonal-superposition" /\ Orthogonal(report, o)
  \/ job = "generative-intermediate" /\ Generative(report, o)
  \/ job = "distilbert-service-consolidation" /\ Service(report, o)

--------------------------------------------------------------------------------
(* validate_artifact. *)

\* The records of the remote executions: only the factorial has a pilot.
Executed(report, job) ==
  IF job = "public-gate-adaptation-factorial" THEN report.pilot \o report.records
  ELSE report.records

Counted(report, job, step) ==
  /\ step.records > 0 /\ step.remote > 0
  /\ Len(report.records) = step.records
  /\ Len(Executed(report, job)) = step.remote
  /\ job \in Single => step.records = 1
  /\ job = "public-gate-adaptation-factorial" => (step.variant = "canary" <=> report.pilot = <<>>)

\* Launcher, library tree and commit of every record are those of the plan, and what
\* ran remotely is what was sent.
Sourced(report, job) ==
  /\ report.head = "sealed"
  /\ Shows(Executed(report, job), {"source"})
  /\ job \notin {"dense-ffn-cotenancy", "cargo-transformer-authorization"}
       => "source" \in report.holds

Accepts(report, job, step) ==
  /\ report.experiment = job
  /\ Counted(report, job, step)
  /\ Sourced(report, job)
  /\ Validated(report, job, step.options)
================================================================================
