----------------------------- MODULE Recertification ---------------------------
(***************************************************************************)
(* The execution of a sealed re-certification plan: execute() of            *)
(* scripts/modal_recertify.py with the launchers it starts and the           *)
(* validation of their artifacts (scripts/modal_recertification.py).        *)
(*                                                                         *)
(* An execution runs one stage of the plan for one evidence root: it makes   *)
(* the directory of the stage, then for every planned job writes a record   *)
(* into the ledger, runs a launcher, and takes the artifact that is new in   *)
(* the results directory into custody.  The results directory belongs to    *)
(* the checkout, so that executions, and launchers that outlive an           *)
(* execution, share it.                                                     *)
(*                                                                         *)
(* One plan.  What is refused before the stage is made, an approval or a     *)
(* provider among it, changes nothing and is a Start that is absent.         *)
(* An artifact is the number of the launcher that wrote it and its content,  *)
(* a report that Acceptance judges.                                         *)
(***************************************************************************)
EXTENDS Acceptance

CONSTANTS
  Roots,          \* evidence roots, each with a directory for this plan
  Executors,      \* processes that may run execute()
  Jobs,           \* jobs of the plan
  Plan,           \* jobs_for_stage: the jobs of each stage in order
  Collected,      \* the jobs with an artifact_prefix
  Planned,        \* what a stage plans for each of them
  Outcomes,       \* the artifacts that its launcher may write
  Cost,           \* expected_gross_usd and campaign_approval_ceiling_usd of the plan
  Requests,       \* what an operator approves, and what the provider has when he does
  Modes,          \* whether executions may overlap
  None,
  MaxStarts,      \* bounds on executions and moves of HEAD (by mode), launchers and crashes
  MaxLaunches,
  MaxCrashes,
  MaxMoves

Stages == {"canary", "full"}
Ids == 1..MaxLaunches

ASSUME PlanAssumption ==
  /\ Plan \in [Stages -> Seq(Jobs)]
  /\ \A s \in Stages : \A i, k \in DOMAIN Plan[s] : Plan[s][i] = Plan[s][k] => i = k
  /\ Collected \subseteq Jobs \cap Experiments
  /\ Modes \subseteq {"alone", "together"}

\* load_config: each variant of a collected job has arguments and counts, no two lists
\* of a job repeat, and jobs without a prefix have none.
Configured(stage, j) ==
  LET step == Planned[stage][j] IN
  /\ step \in Steps /\ (step.variant = "canary" <=> stage = "canary")
  /\ step.records > 0 /\ step.remote > 0
  /\ \A list \in {step.options.seeds, step.options.ratios} : Listed(list)
  /\ Listed(step.options.designs)
ASSUME ConfigAssumption ==
  /\ DOMAIN Planned = Stages
  /\ \A stage \in Stages : DOMAIN Planned[stage] = Collected
  /\ \A stage \in Stages, j \in Collected : Configured(stage, j)

\* _cost_contract.
ASSUME CostAssumption ==
  /\ Cost \in [low : Nat, high : Nat, ceiling : Nat]
  /\ 0 < Cost.low /\ Cost.low <= Cost.high /\ Cost.high <= Cost.ceiling

Provider == {"outside", "binary", "version", "token"}
ASSUME RequestAssumption ==
  Requests \subseteq [plan : {"this", "other"}, usd : Nat, has : SUBSET Provider]

ASSUME BoundAssumption ==
  MaxStarts \in [Modes -> Nat] /\ MaxLaunches \in Nat /\ MaxCrashes \in Nat
  /\ MaxMoves \in [Modes -> Nat]

\* A file whose content is not written yet is no JSON.
Contents == Reports \cup {Unreadable}
ASSUME OutcomeAssumption ==
  \A stage \in Stages, j \in Collected : Outcomes[stage][j] \subseteq Reports
Artifacts == [id : Ids, content : Contents]

\* modal-recertification.json runs a canary, and nothing else, with --smoke; Cargo, whose
\* configuration nobody checks, has no canary.  A launcher records how it was run.
CargoJob == "cargo-transformer-authorization"
ASSUME StageAssumption ==
  /\ \A k \in DOMAIN Plan["canary"] : Plan["canary"][k] # CargoJob
  /\ \A j \in Collected \ {CargoJob} :
       /\ Planned["canary"][j].options.size # Planned["full"][j].options.size
       /\ \A stage \in Stages : \A report \in Outcomes[stage][j] :
            \A k \in DOMAIN report.records :
              report.records[k].config.size = Planned[stage][j].options.size
Places == Roots \X Stages

VARIABLES
  mode,       \* "alone": the operators run one execution at a time
  head,       \* the checkout: "sealed" at the commit of the plan, or "other"
  results,    \* content of the results directory, by launcher
  launcher,   \* the launchers started so far
  dir,        \* the stage directories of the evidence roots
  ex,         \* the executions
  count       \* starts, launches, crashes and moves so far

vars == <<mode, head, results, launcher, dir, ex, count>>

Launchers == [at : Places, job : Jobs, head : {"sealed", "other"},
              state : {"running", "writing", "written", "ok", "failed", "killed"}]
ASSUME NoneAssumption == None \notin Artifacts \cup Contents \cup Places \cup Ids \cup Launchers

Dirs == [ledger : {"absent", "unwritten", "running", "pass", "fail"},
         jobs : [Jobs -> {"none", "running", "pass", "fail"}],
         receipt : [Jobs -> Artifacts \cup {None}],
         artifacts : SUBSET Artifacts, rejected : SUBSET Artifacts]
Executions ==
  [pc : {"idle", "ready", "made", "next", "launch", "running", "validate", "custody", "unlink",
         "conclude", "reject", "unlink_rejected", "failing"},
   at : Places \cup {None}, k : Nat, id : Ids \cup {None}, before : SUBSET Ids, new : SUBSET Ids,
   held : Artifacts \cup {None}]

NoDir == [ledger |-> "absent", jobs |-> [j \in Jobs |-> "none"],
          receipt |-> [j \in Jobs |-> None], artifacts |-> {}, rejected |-> {}]
Idle == [pc |-> "idle", at |-> None, k |-> 0, id |-> None, before |-> {}, new |-> {}, held |-> None]

TypeOK ==
  /\ mode \in Modes
  /\ head \in {"sealed", "other"}
  /\ results \in [Ids -> Contents \cup {None}]
  /\ launcher \in [Ids -> Launchers \cup {None}]
  /\ dir \in [Places -> Dirs]
  /\ ex \in [Executors -> Executions]
  /\ count \in [starts : Nat, launches : 0..MaxLaunches, crashes : 0..MaxCrashes,
                moves : Nat]

--------------------------------------------------------------------------------
(* The checkout, the artifacts and the canary. *)

Present == {i \in Ids : results[i] # None}

\* _assert_checkout: HEAD is the sealed commit, and git status lists no file.
CleanCheckout == head = "sealed" /\ Present = {}

\* _matching_artifacts: the files whose name has the prefix of the job.
Matching(j) == {i \in Present : launcher[i].job = j}

Valid(artifact, stage, j) == Accepts(artifact.content, j, Planned[stage][j])

JobsOf(stage) == {Plan[stage][k] : k \in DOMAIN Plan[stage]}

\* _validate_canary_ledger: every canary job passed, and what its receipt names is
\* still in custody and still valid.
CanaryHolds(root) ==
  LET canary == dir[<<root, "canary">>] IN
  /\ canary.ledger = "pass"
  /\ \A j \in JobsOf("canary") :
       /\ canary.jobs[j] = "pass"
       /\ j \in Collected => /\ canary.receipt[j] \in canary.artifacts
                             /\ Valid(canary.receipt[j], "canary", j)

--------------------------------------------------------------------------------
(* An execution. *)

Init ==
  /\ mode \in Modes
  /\ head = "sealed"
  /\ results = [i \in Ids |-> None]
  /\ launcher = [i \in Ids |-> None]
  /\ dir = [p \in Places |-> NoDir]
  /\ ex = [e \in Executors |-> Idle]
  /\ count = [starts |-> 0, launches |-> 0, crashes |-> 0, moves |-> 0]

Job(e) == Plan[ex[e].at[2]][ex[e].k]
Go(e, pc) == ex' = [ex EXCEPT ![e].pc = pc]
World == <<mode, head, launcher, count>>

\* _validate_approval: this plan, for what it is expected to cost at most and no more
\* than its ceiling.
Approves(request) ==
  /\ request.plan = "this"
  /\ Cost.high <= request.usd /\ request.usd <= Cost.ceiling

\* An evidence root outside the checkout, an executable modal client of the pinned
\* version, and a token that the provider knows.
Provided(request) == Provider \subseteq request.has

\* execute() up to the mkdir of the stage: approval, checkout, the canary of a full
\* stage, provider.
Start(e, root, stage) ==
  /\ ex[e].pc = "idle" /\ count.starts < MaxStarts[mode]
  /\ mode = "alone" => \A f \in Executors : ex[f].pc = "idle"
  /\ CleanCheckout
  /\ \E request \in Requests : Approves(request) /\ Provided(request)
  /\ stage = "full" => CanaryHolds(root)
  /\ ex' = [ex EXCEPT ![e] = [Idle EXCEPT !.pc = "ready", !.at = <<root, stage>>]]
  /\ count' = [count EXCEPT !.starts = @ + 1]
  /\ UNCHANGED <<mode, head, results, launcher, dir>>

\* mkdir of the stage without exist_ok.
FaultMakeStage(e) ==
  LET p == ex[e].at IN
  /\ ex[e].pc = "ready"
  /\ Go(e, "made")
  /\ dir' = [dir EXCEPT ![p] = [NoDir EXCEPT !.ledger = "unwritten"]]
  /\ UNCHANGED <<World, results>>
MakeStage(e) ==
  LET p == ex[e].at IN
  /\ ex[e].pc = "ready"
  /\ IF dir[p].ledger = "absent"
     THEN Go(e, "made") /\ dir' = [dir EXCEPT ![p].ledger = "unwritten"]
     ELSE ex' = [ex EXCEPT ![e] = Idle] /\ UNCHANGED dir
  /\ UNCHANGED <<World, results>>

\* The first _write_ledger.
OpenLedger(e) ==
  /\ ex[e].pc = "made"
  /\ dir' = [dir EXCEPT ![ex[e].at].ledger = "running"]
  /\ ex' = [ex EXCEPT ![e].pc = "next", ![e].k = 1]
  /\ UNCHANGED <<World, results>>

\* _run_job up to the second _write_ledger: the record says running before anything runs.
BeginJob(e) ==
  /\ ex[e].pc = "next" /\ ex[e].k \in DOMAIN Plan[ex[e].at[2]]
  /\ IF CleanCheckout
     THEN /\ dir' = [dir EXCEPT ![ex[e].at].jobs[Job(e)] = "running"]
          /\ ex' = [ex EXCEPT ![e].pc = "launch", ![e].new = {}, ![e].held = None]
     ELSE Go(e, "failing") /\ UNCHANGED dir
  /\ UNCHANGED <<World, results>>

\* The snapshot before, then the client starts or cannot be started.
Launch(e) ==
  /\ ex[e].pc = "launch" /\ count.launches < MaxLaunches
  /\ LET i == count.launches + 1 IN
     \/ /\ launcher' = [launcher EXCEPT ![i] = [at |-> ex[e].at, job |-> Job(e), head |-> head,
                                                state |-> "running"]]
        /\ ex' = [ex EXCEPT ![e].pc = "running", ![e].id = i,
                            ![e].before = IF Job(e) \in Collected THEN Matching(Job(e)) ELSE {}]
        /\ count' = [count EXCEPT !.launches = i]
     \/ Go(e, "failing") /\ UNCHANGED <<launcher, count>>
  /\ UNCHANGED <<mode, head, results, dir>>

New(e) == IF Job(e) \in Collected THEN Matching(Job(e)) \ ex[e].before ELSE {}

\* The client exited: exactly one new artifact goes on to validation.
Returned(e) ==
  LET ok == launcher[ex[e].id].state = "ok"
      next == CASE ok /\ Job(e) \notin Collected -> "conclude"
                [] ok /\ Job(e) \in Collected /\ Cardinality(New(e)) = 1 -> "validate"
                [] OTHER -> "reject"
  IN
  /\ ex[e].pc = "running" /\ launcher[ex[e].id].state \in {"ok", "failed"}
  /\ ex' = [ex EXCEPT ![e].pc = next, ![e].new = New(e)]
  /\ UNCHANGED <<World, results, dir>>

\* subprocess.run kills the client at its limit, or when it is interrupted; after an
\* interrupt the new artifacts stay where they are.
Cut(e, pc, new) ==
  /\ ex[e].pc = "running" /\ launcher[ex[e].id].state \in {"running", "writing", "written"}
  /\ launcher' = [launcher EXCEPT ![ex[e].id].state = "killed"]
  /\ ex' = [ex EXCEPT ![e].pc = pc, ![e].new = new]
  /\ UNCHANGED <<mode, head, results, dir, count>>
TimedOut(e) == Cut(e, "reject", New(e))
Interrupted(e) == Cut(e, "failing", {})

FaultValidate(e) ==
  /\ ex[e].pc = "validate"
  /\ Go(e, "custody")
  /\ UNCHANGED <<World, results, dir>>
Validate(e) ==
  /\ ex[e].pc = "validate"
  /\ \E i \in ex[e].new :
       IF results[i] # None /\ Valid([id |-> i, content |-> results[i]], ex[e].at[2], Job(e))
       THEN Go(e, "custody") ELSE Go(e, "reject")
  /\ UNCHANGED <<World, results, dir>>

\* _copy_to_custody up to os.replace.  It fails on a file that is gone, and may fail
\* on one that is still being written.
Copy(e) ==
  /\ ex[e].pc \in {"custody", "reject"}
  /\ \E i \in ex[e].new :
       \/ /\ results[i] # None
          /\ LET copy == [id |-> i, content |-> results[i]] IN
             IF ex[e].pc = "custody"
             THEN /\ dir' = [dir EXCEPT ![ex[e].at].artifacts = @ \cup {copy}]
                  /\ ex' = [ex EXCEPT ![e].pc = "unlink", ![e].held = copy]
             ELSE /\ dir' = [dir EXCEPT ![ex[e].at].rejected = @ \cup {copy}]
                  /\ ex' = [ex EXCEPT ![e].pc = "unlink_rejected", ![e].held = copy]
       \/ /\ results[i] = None \/ launcher[i].state = "writing"
          /\ ex' = [ex EXCEPT ![e].pc = "failing", ![e].held = None]
          /\ UNCHANGED dir
  /\ UNCHANGED <<World, results>>

\* The unlink that ends _copy_to_custody: it fails when another execution was faster.
Unlink(e) ==
  LET i == ex[e].held.id IN
  /\ ex[e].pc \in {"unlink", "unlink_rejected"}
  /\ results' = [results EXCEPT ![i] = None]
  /\ CASE results[i] = None -> ex' = [ex EXCEPT ![e].pc = "failing", ![e].held = None]
       [] results[i] # None /\ ex[e].pc = "unlink" -> Go(e, "conclude")
       [] results[i] # None /\ ex[e].pc = "unlink_rejected" ->
            ex' = [ex EXCEPT ![e].pc = "reject", ![e].new = @ \ {i}, ![e].held = None]
  /\ UNCHANGED <<World, dir>>

\* Everything that was new is among the rejected: _fail.
Rejected(e) ==
  /\ ex[e].pc = "reject" /\ ex[e].new = {}
  /\ Go(e, "failing")
  /\ UNCHANGED <<World, results, dir>>

\* The last lines of _run_job: the checkout is clean again and the record says pass.
Conclude(e) ==
  /\ ex[e].pc = "conclude"
  /\ IF CleanCheckout
     THEN /\ dir' = [dir EXCEPT ![ex[e].at] = [@ EXCEPT !.jobs[Job(e)] = "pass",
                                                     !.receipt[Job(e)] = ex[e].held]]
          /\ ex' = [ex EXCEPT ![e].pc = "next", ![e].k = @ + 1]
     ELSE Go(e, "failing") /\ UNCHANGED dir
  /\ UNCHANGED <<World, results>>

\* _fail, and the handler of execute() for every other error: the first uncertainty
\* ends the stage.
Fail(e) ==
  LET p == ex[e].at IN
  /\ ex[e].pc = "failing"
  /\ dir' = [dir EXCEPT ![p].ledger = "fail",
                        ![p].jobs = [j \in Jobs |-> IF @[j] = "running" THEN "fail" ELSE @[j]],
                        ![p].receipt = [j \in Jobs |-> IF dir[p].jobs[j] = "running"
                                                       THEN ex[e].held ELSE @[j]]]
  /\ ex' = [ex EXCEPT ![e] = Idle]
  /\ UNCHANGED <<World, results>>

\* The last _write_ledger.
Finish(e) ==
  /\ ex[e].pc = "next" /\ ex[e].k \notin DOMAIN Plan[ex[e].at[2]]
  /\ dir' = [dir EXCEPT ![ex[e].at].ledger = "pass"]
  /\ ex' = [ex EXCEPT ![e] = Idle]
  /\ UNCHANGED <<World, results>>

\* The process dies; a launcher that it had started does not.  An interrupt outside
\* subprocess.run ends in the same state.
Crash(e) ==
  /\ ex[e].pc # "idle" /\ count.crashes < MaxCrashes
  /\ ex' = [ex EXCEPT ![e] = Idle]
  /\ count' = [count EXCEPT !.crashes = @ + 1]
  /\ UNCHANGED <<mode, head, results, launcher, dir>>

--------------------------------------------------------------------------------
(* Launchers, and the operators of the checkout. *)

Client(i, from, to) ==
  /\ launcher[i] # None /\ launcher[i].state \in from
  /\ launcher' = [launcher EXCEPT ![i].state = to]
  /\ UNCHANGED <<mode, head, dir, ex, count>>

\* Path.write_text: the file is there before its content is.
BeginWrite(i) ==
  /\ Client(i, {"running"}, "writing") /\ launcher[i].job \in Collected
  /\ results' = [results EXCEPT ![i] = Unreadable]

\* A file that was moved away meanwhile is written to no more.  A report names the
\* checkout that its launcher found when it started.
EndWrite(i) ==
  /\ Client(i, {"writing"}, "written") /\ launcher[i].job \in Collected
  /\ IF results[i] = None THEN UNCHANGED results
     ELSE \E report \in Outcomes[launcher[i].at[2]][launcher[i].job] :
            results' = [results EXCEPT ![i] = [report EXCEPT !.head = launcher[i].head]]

\* A launcher with an artifact exits with 0 only after it wrote it.
Exit(i) ==
  /\ \/ Client(i, {"running", "writing", "written"}, "failed")
     \/ /\ launcher[i] # None
        /\ Client(i, IF launcher[i].job \in Collected THEN {"written"} ELSE {"running"}, "ok")
  /\ UNCHANGED results

\* Somebody commits or edits, or returns to the sealed commit.
Move ==
  /\ count.moves < MaxMoves[mode]
  /\ head' = IF head = "sealed" THEN "other" ELSE "sealed"
  /\ count' = [count EXCEPT !.moves = @ + 1]
  /\ UNCHANGED <<mode, results, launcher, dir, ex>>

\* Between executions an operator takes a file that was left out of the checkout.
Tidy(i) ==
  /\ \A e \in Executors : ex[e].pc = "idle"
  /\ results[i] # None
  /\ results' = [results EXCEPT ![i] = None]
  /\ UNCHANGED <<mode, head, launcher, dir, ex, count>>

ExecNext(e) ==
  \/ \E root \in Roots, stage \in Stages : Start(e, root, stage)
  \/ MakeStage(e) \/ OpenLedger(e) \/ BeginJob(e) \/ Launch(e) \/ Returned(e) \/ TimedOut(e)
  \/ Interrupted(e) \/ Validate(e) \/ Copy(e) \/ Unlink(e) \/ Rejected(e) \/ Conclude(e)
  \/ Fail(e) \/ Finish(e) \/ Crash(e)

Next ==
  \/ \E e \in Executors : ExecNext(e)
  \/ \E i \in Ids : BeginWrite(i) \/ EndWrite(i) \/ Exit(i) \/ Tidy(i)
  \/ Move

Spec == Init /\ [][Next]_vars

--------------------------------------------------------------------------------
(* Properties. *)

\* No job of a stage is launched twice for one evidence root, whatever crashes,
\* limits or operators come in between ("never retries automatically").
LaunchedOnce ==
  \A i, k \in Ids : i # k /\ launcher[i] # None /\ launcher[k] # None =>
    launcher[i].at # launcher[k].at \/ launcher[i].job # launcher[k].job

Passed(p, j) == dir[p].jobs[j] = "pass"

\* A job that passed has in its custody an artifact that a launcher of this job and
\* stage wrote at the sealed commit, that shows for each of its records that refused
\* requests called no model, and that no other job that passed shows, also where
\* executions share the results directory; if they never overlap, its own launcher
\* wrote it.  A stage that passed has passed in every planned job.
PassRestsOnEvidence ==
  \A p \in Places :
    /\ dir[p].ledger = "pass" => \A j \in JobsOf(p[2]) : Passed(p, j)
    /\ \A j \in Collected : Passed(p, j) =>
         LET shown == dir[p].receipt[j] IN
         /\ shown \in dir[p].artifacts
         /\ launcher[shown.id].job = j /\ launcher[shown.id].at[2] = p[2]
         /\ launcher[shown.id].head = "sealed"
         /\ \A k \in DOMAIN shown.content.records :
              shown.content.records[k].holds \cap {"refusals", "attacks"} # {}
         /\ \A q \in Places \ {p} : Passed(q, j) => dir[q].receipt[j].id # shown.id
         /\ mode = "alone" => launcher[shown.id].at = p

================================================================================
