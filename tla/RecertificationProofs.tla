------------------------- MODULE RecertificationProofs -------------------------
(* Proofs about Recertification: types, that no job is launched twice, and what *)
(* the record of a passed job rests on.                                         *)
EXTENDS Recertification, FiniteSetTheorems, TLAPS

Pcs == {"idle", "ready", "made", "next", "launch", "running", "validate", "custody", "unlink",
        "conclude", "reject", "unlink_rejected", "failing"}

Middle == {"launch", "running", "validate", "custody", "unlink", "conclude", "reject",
           "unlink_rejected", "failing"}

Started == {i \in Ids : launcher[i] # None}

\* What is sure of an execution with record y between two steps.
Sure(y, started) ==
  y.pc # "idle" =>
    /\ y.at \in Places
    /\ y.pc \in Middle => y.k \in DOMAIN Plan[y.at[2]]
    /\ y.pc = "running" => y.id \in started
    /\ y.pc \in {"unlink", "unlink_rejected"} => y.held \in Artifacts

ExecInv == \A e \in Executors : Sure(ex[e], Started)

LEMMA PlanTypes ==
  ASSUME NEW p \in Places
  PROVE  /\ p[2] \in Stages
         /\ \A k \in DOMAIN Plan[p[2]] : Plan[p[2]][k] \in Jobs
  BY PlanAssumption DEF Places

\* A report that names the checkout it was written from.
Named(report, h) == [report EXCEPT !.head = h]

LEMMA NamedReport ==
  ASSUME NEW report \in Reports, NEW h \in {"sealed", "other"}
  PROVE  Named(report, h) \in Reports
  BY DEF Named, Reports

\* The updates of an execution's record.
WithPc(x, pc) == [x EXCEPT !.pc = pc]
WithK(x, pc, k) == [x EXCEPT !.pc = pc, !.k = k]
WithNew(x, pc, n) == [x EXCEPT !.pc = pc, !.new = n]
WithHeld(x, pc, h) == [x EXCEPT !.pc = pc, !.held = h]
WithBoth(x, pc, n, h) == [x EXCEPT !.pc = pc, !.new = n, !.held = h]
WithId(x, pc, i, b) == [x EXCEPT !.pc = pc, !.id = i, !.before = b]

LEMMA UpdatePc ==
  ASSUME NEW x \in Executions, NEW pc \in Pcs
  PROVE  /\ WithPc(x, pc) \in Executions
         /\ LET y == WithPc(x, pc) IN /\ y.pc = pc /\ y.at = x.at /\ y.k = x.k /\ y.id = x.id
                                      /\ y.held = x.held /\ y.new = x.new
  BY DEF WithPc, Executions, Pcs

LEMMA UpdateK ==
  ASSUME NEW x \in Executions, NEW pc \in Pcs, NEW k \in Nat
  PROVE  /\ WithK(x, pc, k) \in Executions
         /\ LET y == WithK(x, pc, k) IN y.pc = pc /\ y.at = x.at /\ y.k = k
  BY DEF WithK, Executions, Pcs

LEMMA UpdateNew ==
  ASSUME NEW x \in Executions, NEW pc \in Pcs, NEW n \in SUBSET Ids
  PROVE  /\ WithNew(x, pc, n) \in Executions
         /\ LET y == WithNew(x, pc, n) IN y.pc = pc /\ y.at = x.at /\ y.k = x.k /\ y.new = n
  BY DEF WithNew, Executions, Pcs

LEMMA UpdateHeld ==
  ASSUME NEW x \in Executions, NEW pc \in Pcs, NEW h \in Artifacts \cup {None}
  PROVE  /\ WithHeld(x, pc, h) \in Executions
         /\ LET y == WithHeld(x, pc, h) IN y.pc = pc /\ y.at = x.at /\ y.k = x.k /\ y.held = h
  BY DEF WithHeld, Executions, Pcs

LEMMA UpdateBoth ==
  ASSUME NEW x \in Executions, NEW pc \in Pcs, NEW n \in SUBSET Ids, NEW h \in Artifacts \cup {None}
  PROVE  /\ WithBoth(x, pc, n, h) \in Executions
         /\ LET y == WithBoth(x, pc, n, h) IN y.pc = pc /\ y.at = x.at /\ y.k = x.k
  BY DEF WithBoth, Executions, Pcs

LEMMA UpdateId ==
  ASSUME NEW x \in Executions, NEW pc \in Pcs, NEW i \in Ids, NEW b \in SUBSET Ids
  PROVE  /\ WithId(x, pc, i, b) \in Executions
         /\ LET y == WithId(x, pc, i, b) IN /\ y.pc = pc /\ y.at = x.at /\ y.k = x.k /\ y.id = i
                                            /\ y.before = b
  BY DEF WithId, Executions, Pcs

LEMMA IdleType == Idle \in Executions /\ \A p \in Places : [Idle EXCEPT !.pc = "ready", !.at = p] \in Executions
  BY DEF Idle, Executions

\* The updates of a stage directory.
WithLedger(d, l) == [d EXCEPT !.ledger = l]

LEMMA DirLedger ==
  ASSUME NEW d \in Dirs, NEW l \in {"absent", "unwritten", "running", "pass", "fail"}
  PROVE  LET w == WithLedger(d, l) IN /\ w \in Dirs /\ w.ledger = l /\ w.jobs = d.jobs
                                           /\ w.receipt = d.receipt /\ w.artifacts = d.artifacts
  BY DEF Dirs, WithLedger

LEMMA DirArtifacts ==
  ASSUME NEW d \in Dirs, NEW a \in SUBSET Artifacts
  PROVE  LET w == [d EXCEPT !.artifacts = a] IN /\ w \in Dirs /\ w.ledger = d.ledger /\ w.jobs = d.jobs
                                                /\ w.receipt = d.receipt /\ w.artifacts = a
  BY DEF Dirs

LEMMA DirRejected ==
  ASSUME NEW d \in Dirs, NEW a \in SUBSET Artifacts
  PROVE  LET w == [d EXCEPT !.rejected = a] IN /\ w \in Dirs /\ w.ledger = d.ledger /\ w.jobs = d.jobs
                                               /\ w.receipt = d.receipt /\ w.artifacts = d.artifacts
  BY DEF Dirs

LEMMA DirJobs ==
  ASSUME NEW d \in Dirs, NEW f \in [Jobs -> {"none", "running", "pass", "fail"}]
  PROVE  LET w == [d EXCEPT !.jobs = f] IN /\ w \in Dirs /\ w.ledger = d.ledger /\ w.jobs = f
                                           /\ w.receipt = d.receipt /\ w.artifacts = d.artifacts
  BY DEF Dirs

WithRecords(d, f, r) == [d EXCEPT !.jobs = f, !.receipt = r]
WithFailure(d, f, r) == [d EXCEPT !.ledger = "fail", !.jobs = f, !.receipt = r]

LEMMA DirRecords ==
  ASSUME NEW d \in Dirs, NEW f \in [Jobs -> {"none", "running", "pass", "fail"}],
         NEW r \in [Jobs -> Artifacts \cup {None}]
  PROVE  LET w == WithRecords(d, f, r) IN /\ w \in Dirs /\ w.ledger = d.ledger /\ w.jobs = f
                                          /\ w.receipt = r /\ w.artifacts = d.artifacts
  BY DEF Dirs, WithRecords

PassRecord(d, j, h) == [d EXCEPT !.jobs[j] = "pass", !.receipt[j] = h]

LEMMA RecordPath ==
  ASSUME NEW d \in Dirs, NEW j \in Jobs, NEW h
  PROVE  PassRecord(d, j, h)
           = WithRecords(d, [d.jobs EXCEPT ![j] = "pass"], [d.receipt EXCEPT ![j] = h])
  BY DEF Dirs, WithRecords, PassRecord

LEMMA DirFails ==
  ASSUME NEW d \in Dirs, NEW f \in [Jobs -> {"none", "running", "pass", "fail"}],
         NEW r \in [Jobs -> Artifacts \cup {None}]
  PROVE  LET w == WithFailure(d, f, r) IN /\ w \in Dirs /\ w.ledger = "fail" /\ w.jobs = f
                                          /\ w.receipt = r /\ w.artifacts = d.artifacts
  BY DEF Dirs, WithFailure

\* The step of an execution: its record becomes y, and its stage directory d.
Wrote(e, y) == ex' = [ex EXCEPT ![e] = y]
Filed(p, d) == dir' = [dir EXCEPT ![p] = d]

LEMMA ExecAt ==
  ASSUME TypeOK, ExecInv, NEW e \in Executors
  PROVE  /\ ex[e] \in Executions /\ Sure(ex[e], Started)
         /\ ex[e].pc # "idle" => ex[e].at \in Places /\ dir[ex[e].at] \in Dirs
         /\ ex[e].pc \in Middle => Job(e) \in Jobs
<1>1. ex[e] \in Executions /\ Sure(ex[e], Started)
  BY DEF TypeOK, ExecInv
<1>2. ex[e].pc # "idle" => ex[e].at \in Places /\ dir[ex[e].at] \in Dirs
  BY <1>1 DEF Sure, TypeOK
<1>3. ASSUME ex[e].pc \in Middle PROVE Job(e) \in Jobs
  <2>1. ex[e].at \in Places /\ ex[e].k \in DOMAIN Plan[ex[e].at[2]]
    BY <1>1, <1>3 DEF Sure, Middle
  <2> QED BY <2>1, PlanTypes DEF Job
<1> QED BY <1>1, <1>2, <1>3

\* Steps that only move the execution on.
LEMMA GoWrites ==
  ASSUME TypeOK, NEW e \in Executors, NEW pc \in Pcs, Go(e, pc)
  PROVE  \E y \in Executions :
           /\ Wrote(e, y) /\ y.pc = pc /\ y.at = ex[e].at /\ y.k = ex[e].k
           /\ y.id = ex[e].id /\ y.held = ex[e].held /\ y.new = ex[e].new
<1>1. ex[e] \in Executions
  BY DEF TypeOK
<1>2. Wrote(e, WithPc(ex[e], pc))
  BY DEF Go, Wrote, WithPc
<1> QED BY <1>1, <1>2, UpdatePc

\* The directories after a step of the middle of a job: only custody may have grown.
SameLedgers ==
  /\ dir' \in [Places -> Dirs]
  /\ \A p \in Places : dir'[p].ledger = dir[p].ledger /\ dir'[p].jobs = dir[p].jobs

\* The launchers after a step that starts none.
SameLaunchers ==
  /\ launcher' \in [Ids -> Launchers \cup {None}] /\ Started' = Started
  /\ \A i \in Started : launcher'[i].at = launcher[i].at /\ launcher'[i].job = launcher[i].job

LEMMA SameKept ==
  ASSUME TypeOK
  PROVE  (UNCHANGED dir => SameLedgers) /\ (UNCHANGED launcher => SameLaunchers)
  BY DEF TypeOK, SameLedgers, SameLaunchers, Started

\* A step in the middle of a job, which stays that job.
Goes(e) ==
  \E y \in Executions :
    /\ Wrote(e, y) /\ Sure(y, Started) /\ y.pc \in Middle \ {"launch"}
    /\ y.at = ex[e].at /\ y.k = ex[e].k

WithState(l, s) == [l EXCEPT !.state = s]

LEMMA StateUpdates ==
  ASSUME NEW l \in Launchers, NEW s \in {"running", "writing", "written", "ok", "failed", "killed"}
  PROVE  /\ WithState(l, s) \in Launchers
         /\ WithState(l, s).at = l.at /\ WithState(l, s).job = l.job
         /\ WithState(l, s).head = l.head /\ WithState(l, s).state = s
  BY DEF Launchers, WithState

LEMMA LauncherState ==
  ASSUME TypeOK, NEW i \in Started,
         NEW s \in {"running", "writing", "written", "ok", "failed", "killed"},
         launcher' = [launcher EXCEPT ![i].state = s]
  PROVE  SameLaunchers
<1>1. launcher[i] \in Launchers /\ i \in Ids
  BY DEF Started, TypeOK
<1>2. launcher' = [launcher EXCEPT ![i] = WithState(launcher[i], s)]
  BY DEF WithState
<1>0. PICK was \in Launchers : was = launcher[i]
  BY <1>1
<1>3. PICK l \in Launchers : /\ l = WithState(was, s)
                             /\ l.at = was.at /\ l.job = was.job /\ l.head = was.head
                             /\ l.state = s
  BY StateUpdates
<1>4. l # None
  BY NoneAssumption
<1>5. launcher' = [launcher EXCEPT ![i] = l] /\ launcher \in [Ids -> Launchers \cup {None}]
  BY <1>0, <1>2, <1>3 DEF TypeOK
<1>6. launcher' \in [Ids -> Launchers \cup {None}] /\ \A k \in Ids : launcher'[k] = IF k = i THEN l ELSE launcher[k]
  BY <1>1, <1>5
<1>7. Started' = Started
  BY <1>1, <1>4, <1>6 DEF Started
<1> QED BY <1>0, <1>3, <1>6, <1>7 DEF SameLaunchers, Started

\* The steps in the middle of a job, one lemma for each kind.
LEMMA MovesOn ==
  ASSUME TypeOK, ExecInv, NEW e \in Executors, NEW pc \in Middle \ {"launch", "running"}, Go(e, pc),
         ex[e].pc \in Middle \/ (ex[e].pc = "next" /\ ex[e].k \in DOMAIN Plan[ex[e].at[2]]),
         pc \notin {"unlink", "unlink_rejected"}
  PROVE  Goes(e)
<1>0. pc \in Pcs
  BY DEF Middle, Pcs
<1>1. PICK y \in Executions : Wrote(e, y) /\ y.pc = pc /\ y.at = ex[e].at /\ y.k = ex[e].k
  BY <1>0, GoWrites
<1>2. Sure(y, Started)
  BY <1>1, ExecAt DEF Sure, Middle
<1> QED BY <1>1, <1>2 DEF Goes

LEMMA MovesWith ==
  ASSUME TypeOK, ExecInv, NEW e \in Executors, NEW pc \in Middle \ {"launch", "running"},
         ex[e].pc \in Middle, NEW y \in Executions, Wrote(e, y), y.pc = pc, y.at = ex[e].at,
         y.k = ex[e].k, pc \in {"unlink", "unlink_rejected"} => y.held \in Artifacts
  PROVE  Goes(e)
<1>1. Sure(y, Started)
  BY ExecAt DEF Sure, Middle
<1> QED BY <1>1 DEF Goes

LEMMA ReturnedGoes ==
  ASSUME TypeOK, ExecInv, NEW e \in Executors, Returned(e)
  PROVE  Goes(e) /\ SameLedgers /\ SameLaunchers
<1>0. \A a, b, c : (CASE a /\ b -> "conclude" [] a /\ ~b /\ c -> "validate" [] OTHER -> "reject")
                   \in {"reject", "conclude", "validate"}
  OBVIOUS
<1>1. PICK pc \in {"reject", "conclude", "validate"} :
        ex' = [ex EXCEPT ![e].pc = pc, ![e].new = New(e)]
  BY <1>0 DEF Returned
<1>2. New(e) \subseteq Ids /\ ex[e] \in Executions
  BY ExecAt DEF New, Matching, Present
<1>3. PICK n \in SUBSET Ids : n = New(e)
  BY <1>2
<1>p. pc \in Pcs
  BY DEF Pcs
<1>4. PICK y \in Executions : y = WithNew(ex[e], pc, n) /\ y.pc = pc /\ y.at = ex[e].at /\ y.k = ex[e].k
  BY <1>2, <1>p, UpdateNew
<1>5. Wrote(e, y)
  BY <1>1, <1>3, <1>4 DEF Wrote, WithNew
<1>6. ex[e].pc \in Middle
  BY DEF Returned, Middle
<1>7. Goes(e)
  BY <1>4, <1>5, <1>6, MovesWith DEF Middle
<1> QED BY <1>7, SameKept DEF Returned, World

LEMMA CutGoes ==
  ASSUME TypeOK, ExecInv, NEW e \in Executors, NEW pc \in {"reject", "failing"}, NEW n \in SUBSET Ids,
         Cut(e, pc, n)
  PROVE  Goes(e) /\ SameLedgers /\ SameLaunchers
<1>1. ex[e] \in Executions /\ ex[e].id \in Started
  BY ExecAt DEF Cut, Sure
<1>p. pc \in Pcs
  BY DEF Pcs
<1>2. PICK y \in Executions : y = WithNew(ex[e], pc, n) /\ y.pc = pc /\ y.at = ex[e].at /\ y.k = ex[e].k
  BY <1>1, <1>p, UpdateNew
<1>3. Wrote(e, y)
  BY <1>2 DEF Cut, Wrote, WithNew
<1>4. ex[e].pc \in Middle
  BY DEF Cut, Middle
<1>5. Goes(e)
  BY <1>2, <1>3, <1>4, MovesWith DEF Middle
<1>6. SameLaunchers
  <2>1. PICK i \in Started : i = ex[e].id
    BY <1>1
  <2> QED BY <2>1, LauncherState DEF Cut
<1> QED BY <1>5, <1>6, SameKept DEF Cut

LEMMA CopyGoes ==
  ASSUME TypeOK, ExecInv, NEW e \in Executors, Copy(e)
  PROVE  Goes(e) /\ SameLedgers /\ SameLaunchers
<1>1. /\ ex[e] \in Executions /\ ex[e].at \in Places /\ ex[e].pc \in Middle
      /\ dir[ex[e].at] \in Dirs /\ ex[e].new \subseteq Ids
  BY ExecAt DEF Copy, Middle, Executions
<1>2. SameLaunchers
  BY SameKept DEF Copy, World
<1>3. PICK i \in Ids :
        \/ /\ results[i] # None
           /\ LET copy == [id |-> i, content |-> results[i]] IN
              \/ /\ dir' = [dir EXCEPT ![ex[e].at].artifacts = @ \cup {copy}]
                 /\ ex' = [ex EXCEPT ![e].pc = "unlink", ![e].held = copy]
              \/ /\ dir' = [dir EXCEPT ![ex[e].at].rejected = @ \cup {copy}]
                 /\ ex' = [ex EXCEPT ![e].pc = "unlink_rejected", ![e].held = copy]
        \/ /\ ex' = [ex EXCEPT ![e].pc = "failing", ![e].held = None]
           /\ UNCHANGED dir
  BY <1>1 DEF Copy
<1>4. ASSUME NEW pc \in {"unlink", "unlink_rejected", "failing"}, NEW h \in Artifacts \cup {None},
             ex' = [ex EXCEPT ![e].pc = pc, ![e].held = h], pc # "failing" => h # None
      PROVE  Goes(e)
  <2>p. pc \in Pcs
    BY DEF Pcs
  <2>1. PICK y \in Executions : y = WithHeld(ex[e], pc, h) /\ y.pc = pc /\ y.at = ex[e].at /\ y.k = ex[e].k /\ y.held = h
    BY <1>1, <2>p, UpdateHeld
  <2>2. Wrote(e, y)
    BY <1>4, <2>1 DEF Wrote, WithHeld
  <2> QED BY <1>1, <1>4, <2>1, <2>2, MovesWith DEF Middle
<1>5. CASE results[i] # None
  <2>1. PICK copy \in Artifacts : copy = [id |-> i, content |-> results[i]]
    BY <1>5 DEF TypeOK, Artifacts
  <2>2. copy # None
    BY <2>1, NoneAssumption
  <2>3. PICK d \in Dirs : d = dir[ex[e].at]
    BY <1>1
  <2>4. d.artifacts \subseteq Artifacts /\ d.rejected \subseteq Artifacts
    BY DEF Dirs
  <2>5. CASE /\ dir' = [dir EXCEPT ![ex[e].at].artifacts = @ \cup {copy}]
             /\ ex' = [ex EXCEPT ![e].pc = "unlink", ![e].held = copy]
    <3>1. dir' = [dir EXCEPT ![ex[e].at] = [d EXCEPT !.artifacts = d.artifacts \cup {copy}]]
      BY <2>3, <2>5
    <3>0. PICK a \in SUBSET Artifacts : a = d.artifacts \cup {copy}
      BY <2>4
    <3>2. PICK w \in Dirs : /\ w = [d EXCEPT !.artifacts = a]
                            /\ w.jobs = d.jobs /\ w.ledger = d.ledger
      BY DirArtifacts
    <3>3. SameLedgers
      BY <1>1, <2>3, <3>0, <3>1, <3>2 DEF SameLedgers, TypeOK
    <3> QED BY <1>2, <1>4, <2>2, <2>5, <3>3
  <2>6. CASE /\ dir' = [dir EXCEPT ![ex[e].at].rejected = @ \cup {copy}]
             /\ ex' = [ex EXCEPT ![e].pc = "unlink_rejected", ![e].held = copy]
    <3>1. dir' = [dir EXCEPT ![ex[e].at] = [d EXCEPT !.rejected = d.rejected \cup {copy}]]
      BY <2>3, <2>6
    <3>0. PICK a \in SUBSET Artifacts : a = d.rejected \cup {copy}
      BY <2>4
    <3>2. PICK w \in Dirs : /\ w = [d EXCEPT !.rejected = a]
                            /\ w.jobs = d.jobs /\ w.ledger = d.ledger
      BY DirRejected
    <3>3. SameLedgers
      BY <1>1, <2>3, <3>0, <3>1, <3>2 DEF SameLedgers, TypeOK
    <3> QED BY <1>2, <1>4, <2>2, <2>6, <3>3
  <2>7. CASE /\ ex' = [ex EXCEPT ![e].pc = "failing", ![e].held = None]
             /\ UNCHANGED dir
    BY <1>2, <1>4, <2>7, SameKept
  <2> QED BY <1>3, <2>1, <2>5, <2>6, <2>7
<1>6. CASE results[i] = None
  BY <1>2, <1>3, <1>4, <1>6, SameKept
<1> QED BY <1>5, <1>6

LEMMA UnlinkGoes ==
  ASSUME TypeOK, ExecInv, NEW e \in Executors, Unlink(e)
  PROVE  Goes(e) /\ SameLedgers /\ SameLaunchers /\ results' \in [Ids -> Contents \cup {None}]
<1>1. /\ ex[e] \in Executions /\ ex[e].pc \in Middle /\ ex[e].held \in Artifacts
      /\ ex[e].new \subseteq Ids
  BY ExecAt DEF Unlink, Sure, Middle, Executions
<1>2. SameLedgers /\ SameLaunchers /\ results' \in [Ids -> Contents \cup {None}]
  BY SameKept DEF Unlink, World, TypeOK
<1>3. CASE ex' = [ex EXCEPT ![e].pc = "failing", ![e].held = None]
  <2>p. "failing" \in Pcs /\ None \in Artifacts \cup {None}
    BY DEF Pcs
  <2>1. PICK y \in Executions : y = WithHeld(ex[e], "failing", None) /\ y.pc = "failing" /\ y.at = ex[e].at /\ y.k = ex[e].k
    BY <1>1, <2>p, UpdateHeld
  <2>2. Wrote(e, y)
    BY <1>3, <2>1 DEF Wrote, WithHeld
  <2> QED BY <1>1, <1>2, <2>1, <2>2, MovesWith DEF Middle
<1>4. CASE Go(e, "conclude")
  BY <1>1, <1>2, <1>4, MovesOn DEF Middle
<1>5. CASE ex' = [ex EXCEPT ![e].pc = "reject", ![e].new = @ \ {ex[e].held.id}, ![e].held = None]
  <2>1. PICK n \in SUBSET Ids : n = ex[e].new \ {ex[e].held.id}
    BY <1>1
  <2>p. "reject" \in Pcs /\ None \in Artifacts \cup {None}
    BY DEF Pcs
  <2>2. PICK y \in Executions : y = WithBoth(ex[e], "reject", n, None) /\ y.pc = "reject" /\ y.at = ex[e].at /\ y.k = ex[e].k
    BY <1>1, <2>p, UpdateBoth
  <2>3. Wrote(e, y)
    BY <1>5, <2>1, <2>2 DEF Wrote, WithBoth
  <2> QED BY <1>1, <1>2, <2>2, <2>3, MovesWith DEF Middle
<1> QED BY <1>3, <1>4, <1>5 DEF Unlink

--------------------------------------------------------------------------------
(* Who owns a stage directory, and what its ledger says of the jobs to come. *)

Owns(y) == y.pc \notin {"idle", "ready"}

\* An execution past its mkdir is the only one in that directory.
ClaimInv ==
  /\ \A e \in Executors : Owns(ex[e]) => dir[ex[e].at].ledger # "absent"
  /\ \A e, f \in Executors : e # f /\ Owns(ex[e]) /\ Owns(ex[f]) => ex[e].at # ex[f].at

\* The first job that an execution with record y has not recorded.
From(y) == IF y.pc = "made" THEN 1 ELSE IF y.pc = "next" THEN y.k ELSE y.k + 1

JobAt(y) == Plan[y.at[2]][y.k]

Clean(y, jobs) ==
  Owns(y) => \A n \in DOMAIN Plan[y.at[2]] : n >= From(y) => jobs[Plan[y.at[2]][n]] = "none"

Unlaunched(y) ==
  y.pc = "launch" => \A i \in Started : launcher[i].at # y.at \/ launcher[i].job # JobAt(y)

JobsInv ==
  /\ \A p \in Places : dir[p].ledger = "absent" => \A j \in Jobs : dir[p].jobs[j] = "none"
  /\ \A e \in Executors : Clean(ex[e], dir[ex[e].at].jobs)
  /\ \A e \in Executors : ex[e].pc = "launch" => dir[ex[e].at].jobs[JobAt(ex[e])] = "running"

LaunchInv ==
  /\ \A i \in Started : i <= count.launches /\ dir[launcher[i].at].jobs[launcher[i].job] # "none"
  /\ \A e \in Executors : Unlaunched(ex[e])
  /\ LaunchedOnce

\* A step of execution e that touches no directory but p keeps them, if it owns p or
\* makes it, and forgets no record.
LEMMA OneStep ==
  ASSUME TypeOK, ExecInv, ClaimInv, JobsInv, LaunchInv,
         NEW e \in Executors, NEW y \in Executions, Wrote(e, y), NEW p \in Places,
         SameLaunchers, UNCHANGED count.launches,
         \A q \in Places : q # p => dir'[q].ledger = dir[q].ledger /\ dir'[q].jobs = dir[q].jobs,
         dir[p].ledger # "absent" => dir'[p].ledger # "absent",
         dir'[p].ledger = "absent" => dir'[p].jobs = dir[p].jobs,
         \A j \in Jobs : dir[p].jobs[j] # "none" => dir'[p].jobs[j] # "none",
         \/ Owns(ex[e]) /\ ex[e].at = p
         \/ dir[p].ledger = "absent"
         \/ dir'[p].jobs = dir[p].jobs,
         Owns(y) => /\ y.at = p /\ dir'[p].ledger # "absent"
                    /\ (Owns(ex[e]) /\ ex[e].at = p) \/ dir[p].ledger = "absent",
         Owns(y) => Clean(y, dir'[p].jobs),
         y.pc = "launch" => dir'[p].jobs[JobAt(y)] = "running",
         Unlaunched(y)
  PROVE  ClaimInv' /\ JobsInv' /\ LaunchInv'
<1>1. ex' \in [Executors -> Executions] /\ \A f \in Executors : ex'[f] = IF f = e THEN y ELSE ex[f]
  BY DEF Wrote, TypeOK
<1>2. ASSUME NEW f \in Executors, f # e, Owns(ex[f])
      PROVE  /\ ex[f].at \in Places /\ dir[ex[f].at].ledger # "absent"
             /\ dir'[ex[f].at].ledger # "absent"
             /\ dir'[ex[f].at].jobs = dir[ex[f].at].jobs
             /\ Owns(y) => ex[f].at # y.at
  <2>1. ex[f].at \in Places
    BY <1>2, ExecAt DEF Owns
  <2>2. dir[ex[f].at].ledger # "absent" /\ (Owns(ex[e]) => ex[e].at # ex[f].at)
    BY <1>2 DEF ClaimInv
  <2> QED BY <2>1, <2>2
<1>3. ClaimInv'
  BY <1>1, <1>2 DEF ClaimInv
<1>4. JobsInv'
  <2>1. ASSUME NEW q \in Places, dir'[q].ledger = "absent", NEW j \in Jobs
        PROVE  dir'[q].jobs[j] = "none"
    BY <2>1 DEF JobsInv
  <2>2. ASSUME NEW f \in Executors
        PROVE  /\ Clean(ex'[f], dir'[ex'[f].at].jobs)
               /\ ex'[f].pc = "launch" => dir'[ex'[f].at].jobs[JobAt(ex'[f])] = "running"
    <3>1. CASE f = e
      BY <1>1, <3>1 DEF Clean, Owns
    <3>2. CASE f # e
      <4>1. ex'[f] = ex[f]
        BY <1>1, <3>2
      <4>2. CASE Owns(ex[f])
        <5>1. dir'[ex[f].at].jobs = dir[ex[f].at].jobs
          BY <1>2, <3>2, <4>2
        <5> QED BY <4>1, <5>1 DEF JobsInv
      <4>3. CASE ~Owns(ex[f])
        BY <4>1, <4>3 DEF Clean, Owns
      <4> QED BY <4>2, <4>3
    <3> QED BY <3>1, <3>2
  <2> QED BY <2>1, <2>2 DEF JobsInv, JobAt, Clean, Owns, From
<1>5. LaunchInv'
  <2>1. ASSUME NEW i \in Started
        PROVE  /\ i <= count.launches'
               /\ dir'[launcher'[i].at].jobs[launcher'[i].job] # "none"
    <3>1. launcher[i] \in Launchers /\ i <= count.launches
      BY DEF Started, TypeOK, LaunchInv
    <3>2. launcher[i].at \in Places /\ launcher[i].job \in Jobs
      BY <3>1 DEF Launchers
    <3>3. dir'[launcher[i].at].jobs[launcher[i].job] # "none"
      BY <3>2 DEF LaunchInv
    <3> QED BY <3>1, <3>3 DEF SameLaunchers
  <2>2. ASSUME NEW f \in Executors, ex'[f].pc = "launch", NEW i \in Started
        PROVE  launcher'[i].at # ex'[f].at \/ launcher'[i].job # JobAt(ex'[f])
    BY <1>1, <2>2 DEF LaunchInv, Unlaunched, SameLaunchers
  <2>3. LaunchedOnce'
    BY DEF LaunchInv, LaunchedOnce, SameLaunchers, Started
  <2> QED BY <2>1, <2>2, <2>3 DEF LaunchInv, Unlaunched, JobAt, SameLaunchers
<1> QED BY <1>3, <1>4, <1>5

Kept == ClaimInv' /\ JobsInv' /\ LaunchInv'

LEMMA MiddleKeeps ==
  ASSUME TypeOK, ExecInv, ClaimInv, JobsInv, LaunchInv, NEW e \in Executors,
         ex[e].pc \in Middle \cup {"next"}, Goes(e), SameLedgers, SameLaunchers,
         UNCHANGED count
  PROVE  Kept
<1>1. PICK y \in Executions : /\ Wrote(e, y) /\ y.pc \in Middle \ {"launch"}
                              /\ y.at = ex[e].at /\ y.k = ex[e].k
  BY DEF Goes
<1>2. PICK p \in Places : p = ex[e].at
  BY ExecAt DEF Middle
<1>3. Owns(ex[e]) /\ dir[p].ledger # "absent" /\ Clean(ex[e], dir[p].jobs)
  BY <1>2 DEF Owns, Middle, ClaimInv, JobsInv
<1>4. y.k \in Nat
  BY DEF Executions
<1>5. Clean(y, dir'[p].jobs)
  <2>1. ASSUME NEW n \in DOMAIN Plan[y.at[2]], n >= From(y) PROVE n >= From(ex[e])
    <3>1. DOMAIN Plan[y.at[2]] \subseteq Nat
      BY <1>1, <1>2, PlanTypes, PlanAssumption
    <3> QED BY <1>1, <1>4, <2>1, <3>1 DEF From, Middle
  <2> QED BY <1>1, <1>2, <1>3, <2>1 DEF Clean, SameLedgers
<1>6. Unlaunched(y) /\ y.pc # "launch"
  BY <1>1 DEF Unlaunched
<1> QED BY <1>1, <1>2, <1>3, <1>5, <1>6, OneStep DEF SameLedgers, Kept

\* The same for a step that makes w of the directory of an execution.
LEMMA DirStep ==
  ASSUME TypeOK, ExecInv, ClaimInv, JobsInv, LaunchInv,
         NEW e \in Executors, NEW y \in Executions, Wrote(e, y), NEW p \in Places, NEW w \in Dirs,
         dir' = [dir EXCEPT ![p] = w], UNCHANGED <<launcher, count>>,
         Owns(y), y.at = p, w.ledger # "absent",
         \A j \in Jobs : dir[p].jobs[j] # "none" => w.jobs[j] # "none",
         (Owns(ex[e]) /\ ex[e].at = p) \/ dir[p].ledger = "absent",
         Clean(y, w.jobs),
         y.pc = "launch" => w.jobs[JobAt(y)] = "running",
         Unlaunched(y)
  PROVE  Kept /\ dir' \in [Places -> Dirs]
<1>1. /\ dir'[p] = w /\ dir' \in [Places -> Dirs]
      /\ \A q \in Places : q # p => dir'[q] = dir[q]
  BY DEF TypeOK
<1>2. SameLaunchers
  BY SameKept
<1>3. /\ \A q \in Places : q # p => dir'[q].ledger = dir[q].ledger /\ dir'[q].jobs = dir[q].jobs
      /\ dir'[p].ledger # "absent"
      /\ \A j \in Jobs : dir[p].jobs[j] # "none" => dir'[p].jobs[j] # "none"
      /\ Clean(y, dir'[p].jobs)
      /\ y.pc = "launch" => dir'[p].jobs[JobAt(y)] = "running"
  BY <1>1
<1>4. \/ Owns(ex[e]) /\ ex[e].at = p
      \/ dir[p].ledger = "absent"
      \/ dir'[p].jobs = dir[p].jobs
  OBVIOUS
<1>5. ClaimInv' /\ JobsInv' /\ LaunchInv'
  BY <1>2, <1>3, <1>4, OneStep
<1> QED BY <1>1, <1>5 DEF Kept

\* Leaving: the record of the execution is gone, and no job's record becomes "none".
LEMMA LeaveKeeps ==
  ASSUME TypeOK, ExecInv, ClaimInv, JobsInv, LaunchInv, NEW e \in Executors, Wrote(e, Idle),
         ex[e].pc # "idle", SameLaunchers, UNCHANGED count.launches,
         dir' \in [Places -> Dirs],
         \A q \in Places : q # ex[e].at => dir'[q].ledger = dir[q].ledger /\ dir'[q].jobs = dir[q].jobs,
         dir[ex[e].at].ledger # "absent" => dir'[ex[e].at].ledger # "absent",
         dir'[ex[e].at].ledger = "absent" => dir'[ex[e].at].jobs = dir[ex[e].at].jobs,
         \A j \in Jobs : dir[ex[e].at].jobs[j] # "none" => dir'[ex[e].at].jobs[j] # "none",
         Owns(ex[e]) \/ dir'[ex[e].at].jobs = dir[ex[e].at].jobs
  PROVE  Kept
<1>1. PICK p \in Places : p = ex[e].at
  BY ExecAt
<1>2. PICK y \in Executions : y = Idle
  BY IdleType
<1>3. y.pc = "idle"
  BY <1>2 DEF Idle
<1> QED BY <1>1, <1>2, <1>3, OneStep DEF Kept, Owns, Unlaunched

LEMMA StartKeeps ==
  ASSUME TypeOK, ExecInv, ClaimInv, JobsInv, LaunchInv, NEW e \in Executors,
         NEW root \in Roots, NEW stage \in Stages, Start(e, root, stage)
  PROVE  Kept /\ \E y \in Executions : Wrote(e, y) /\ Sure(y, Started)
<1>1. PICK p \in Places : p = <<root, stage>>
  BY DEF Places
<1>2. PICK y \in Executions : y = [Idle EXCEPT !.pc = "ready", !.at = p]
  BY IdleType
<1>3. y.pc = "ready" /\ y.at = p
  BY <1>2 DEF Idle
<1>4. Wrote(e, y)
  BY <1>1, <1>2 DEF Start, Wrote
<1>5. UNCHANGED <<dir, launcher>> /\ UNCHANGED count.launches
  BY DEF Start, TypeOK
<1>6. Sure(y, Started)
  BY <1>3 DEF Sure, Middle
<1> QED BY <1>3, <1>4, <1>5, <1>6, SameKept, OneStep DEF Kept, Owns, Unlaunched

\* What a step of execution e leaves besides: types, and what is sure of e.
Lands(e) ==
  /\ dir' \in [Places -> Dirs]
  /\ \E y \in Executions : Wrote(e, y) /\ Sure(y, Started')

LEMMA IdleLands == Idle \in Executions /\ \A started : Sure(Idle, started)
  BY IdleType DEF Idle, Sure

LEMMA MakeStageKeeps ==
  ASSUME TypeOK, ExecInv, ClaimInv, JobsInv, LaunchInv, NEW e \in Executors, MakeStage(e)
  PROVE  Kept /\ Lands(e)
<1>1. ex[e].pc = "ready" /\ UNCHANGED <<launcher, count>>
  BY DEF MakeStage, World
<1>2. PICK p \in Places : p = ex[e].at /\ dir[p] \in Dirs
  BY <1>1, ExecAt
<1>3. CASE dir[p].ledger # "absent"
  <2>1. Wrote(e, Idle) /\ UNCHANGED dir
    BY <1>2, <1>3 DEF MakeStage, Wrote
  <2>2. SameLedgers /\ SameLaunchers
    BY <1>1, <2>1, SameKept
  <2>3. Kept
    BY <1>1, <1>2, <2>1, <2>2, LeaveKeeps DEF SameLedgers
  <2> QED BY <2>1, <2>2, <2>3, IdleLands DEF Lands, SameLedgers
<1>4. CASE dir[p].ledger = "absent"
  <2>1. Go(e, "made") /\ dir' = [dir EXCEPT ![p].ledger = "unwritten"]
    BY <1>2, <1>4 DEF MakeStage
  <2>2. PICK w \in Dirs : /\ w = WithLedger(dir[p], "unwritten")
                          /\ w.ledger = "unwritten" /\ w.jobs = dir[p].jobs
    BY <1>2, DirLedger
  <2>3. dir' = [dir EXCEPT ![p] = w] /\ dir \in [Places -> Dirs]
    BY <2>1, <2>2 DEF TypeOK, WithLedger
  <2>4. PICK y \in Executions : Wrote(e, y) /\ y.pc = "made" /\ y.at = p
    <3>1. "made" \in Pcs
      BY DEF Pcs
    <3> QED BY <1>2, <2>1, <3>1, GoWrites
  <2>5. Clean(y, w.jobs)
    <3>1. \A n \in DOMAIN Plan[p[2]] : Plan[p[2]][n] \in Jobs
      BY PlanTypes
    <3> QED BY <1>4, <2>2, <2>4, <3>1 DEF JobsInv, Clean
  <2>6. SameLaunchers
    BY <1>1, SameKept
  <2>7. Unlaunched(y) /\ y.pc # "launch" /\ Owns(y) /\ Sure(y, Started')
    BY <2>4 DEF Unlaunched, Owns, Sure, Middle
  <2>8. /\ dir'[p] = w /\ dir' \in [Places -> Dirs]
        /\ \A q \in Places : q # p => dir'[q] = dir[q]
    BY <2>3
  <2>9. /\ \A j \in Jobs : dir[p].jobs[j] # "none" => w.jobs[j] # "none"
        /\ w.ledger # "absent" /\ y.at = p
        /\ (Owns(ex[e]) /\ ex[e].at = p) \/ dir[p].ledger = "absent"
        /\ y.pc = "launch" => w.jobs[JobAt(y)] = "running"
    BY <1>4, <2>2, <2>4
  <2>10. Kept
    BY <1>1, <2>3, <2>4, <2>5, <2>7, <2>9, DirStep
  <2> QED BY <2>4, <2>7, <2>8, <2>10 DEF Lands
<1> QED BY <1>3, <1>4

LEMMA OpenLedgerKeeps ==
  ASSUME TypeOK, ExecInv, ClaimInv, JobsInv, LaunchInv, NEW e \in Executors, OpenLedger(e)
  PROVE  Kept /\ Lands(e)
<1>1. ex[e].pc = "made" /\ UNCHANGED <<launcher, count>>
  BY DEF OpenLedger, World
<1>2. PICK p \in Places : p = ex[e].at /\ dir[p] \in Dirs
  BY <1>1, ExecAt
<1>3. PICK w \in Dirs : /\ w = WithLedger(dir[p], "running")
                        /\ w.ledger = "running" /\ w.jobs = dir[p].jobs
  BY <1>2, DirLedger
<1>4. dir' = [dir EXCEPT ![p] = w] /\ dir \in [Places -> Dirs]
  BY <1>2, <1>3 DEF TypeOK, OpenLedger, WithLedger
<1>5. PICK y \in Executions : y = WithK(ex[e], "next", 1) /\ y.pc = "next" /\ y.at = p /\ y.k = 1
  <2>1. "next" \in Pcs /\ ex[e] \in Executions /\ 1 \in Nat
    BY ExecAt DEF Pcs
  <2> QED BY <1>2, <2>1, UpdateK
<1>6. Wrote(e, y)
  BY <1>5 DEF OpenLedger, Wrote, WithK
<1>7. Owns(ex[e]) /\ dir[p].ledger # "absent"
  BY <1>1, <1>2 DEF Owns, ClaimInv
<1>8. Clean(y, w.jobs)
  BY <1>1, <1>2, <1>3, <1>5, <1>7 DEF JobsInv, Clean, From
<1>9. SameLaunchers
  BY <1>1, SameKept
<1>10. Unlaunched(y) /\ y.pc # "launch" /\ Owns(y) /\ Sure(y, Started')
  BY <1>5 DEF Unlaunched, Owns, Sure, Middle
<1>11. /\ dir'[p] = w /\ dir' \in [Places -> Dirs]
       /\ \A q \in Places : q # p => dir'[q] = dir[q]
  BY <1>4
<1>12. /\ \A j \in Jobs : dir[p].jobs[j] # "none" => w.jobs[j] # "none"
       /\ w.ledger # "absent" /\ y.at = p
       /\ (Owns(ex[e]) /\ ex[e].at = p) \/ dir[p].ledger = "absent"
       /\ y.pc = "launch" => w.jobs[JobAt(y)] = "running"
  BY <1>2, <1>3, <1>5, <1>7
<1>13. Kept
  BY <1>1, <1>4, <1>6, <1>8, <1>10, <1>12, DirStep
<1> QED BY <1>6, <1>10, <1>11, <1>13 DEF Lands

LEMMA GoesLands ==
  ASSUME NEW e \in Executors, Goes(e), SameLedgers, SameLaunchers
  PROVE  Lands(e)
  BY DEF Goes, SameLedgers, SameLaunchers, Lands

LEMMA BeginJobKeeps ==
  ASSUME TypeOK, ExecInv, ClaimInv, JobsInv, LaunchInv, NEW e \in Executors, BeginJob(e)
  PROVE  Kept /\ Lands(e)
<1>1. /\ ex[e].pc = "next" /\ ex[e].k \in DOMAIN Plan[ex[e].at[2]] /\ UNCHANGED <<launcher, count>>
      /\ ex[e] \in Executions
  BY ExecAt DEF BeginJob, World
<1>2. PICK p \in Places : p = ex[e].at /\ dir[p] \in Dirs
  BY <1>1, ExecAt
<1>3. SameLaunchers
  BY <1>1, SameKept
<1>4. CASE Go(e, "failing") /\ UNCHANGED dir
  <2>1. Goes(e)
    BY <1>1, <1>4, MovesOn DEF Middle
  <2>2. SameLedgers
    BY <1>4, SameKept
  <2> QED BY <1>1, <1>3, <2>1, <2>2, MiddleKeeps, GoesLands
<1>5. CASE /\ dir' = [dir EXCEPT ![ex[e].at].jobs[Job(e)] = "running"]
           /\ ex' = [ex EXCEPT ![e].pc = "launch", ![e].new = {}, ![e].held = None]
  <2>1. PICK j \in Jobs : j = Job(e)
    BY <1>1, <1>2, PlanTypes DEF Job
  <2>2. PICK f \in [Jobs -> {"none", "running", "pass", "fail"}] : f = [dir[p].jobs EXCEPT ![j] = "running"]
    BY <1>2 DEF Dirs
  <2>3. PICK w \in Dirs : w = [dir[p] EXCEPT !.jobs = f] /\ w.ledger = dir[p].ledger /\ w.jobs = f
    BY <1>2, DirJobs
  <2>4. dir' = [dir EXCEPT ![p] = w] /\ dir \in [Places -> Dirs]
    BY <1>2, <1>5, <2>1, <2>2, <2>3 DEF TypeOK
  <2>5. PICK y \in Executions : /\ y = WithBoth(ex[e], "launch", {}, None)
                                /\ y.pc = "launch" /\ y.at = p /\ y.k = ex[e].k
    <3>1. "launch" \in Pcs /\ {} \in SUBSET Ids /\ None \in Artifacts \cup {None}
      BY DEF Pcs
    <3> QED BY <1>1, <1>2, <3>1, UpdateBoth
  <2>6. Wrote(e, y)
    BY <1>5, <2>5 DEF Wrote, WithBoth
  <2>7. Owns(ex[e]) /\ dir[p].ledger # "absent" /\ Clean(ex[e], dir[p].jobs)
    BY <1>1, <1>2 DEF Owns, ClaimInv, JobsInv
  <2>8. /\ dir[p].jobs \in [Jobs -> {"none", "running", "pass", "fail"}]
        /\ \A i \in Jobs : f[i] = IF i = j THEN "running" ELSE dir[p].jobs[i]
        /\ j = Plan[p[2]][y.k] /\ y.k \in DOMAIN Plan[p[2]]
    BY <1>1, <1>2, <2>1, <2>2, <2>5 DEF Dirs, Job
  <2>9. Clean(y, f)
    <3>1. /\ DOMAIN Plan[p[2]] \subseteq Nat /\ y.k \in Nat
          /\ \A n \in DOMAIN Plan[p[2]] : Plan[p[2]][n] \in Jobs
          /\ \A n \in DOMAIN Plan[p[2]] : n # y.k => Plan[p[2]][n] # j
      BY <2>8, PlanTypes, PlanAssumption
    <3>2. ASSUME NEW n \in DOMAIN Plan[p[2]], n >= y.k + 1 PROVE f[Plan[p[2]][n]] = "none"
      <4>1. n >= y.k /\ n # y.k
        BY <3>1, <3>2
      <4>2. dir[p].jobs[Plan[p[2]][n]] = "none"
        BY <1>1, <1>2, <2>5, <2>7, <4>1 DEF Clean, From
      <4> QED BY <2>8, <3>1, <4>1, <4>2
    <3> QED BY <2>5, <3>2 DEF Clean, From
  <2>10. y.pc = "launch" => f[JobAt(y)] = "running"
    BY <2>5, <2>8 DEF JobAt, Job
  <2>11. Unlaunched(y)
    <3>0. y.k \in Nat
      BY <2>8, PlanTypes, PlanAssumption
    <3>1. dir[p].jobs[j] = "none"
      BY <1>1, <1>2, <2>5, <2>7, <2>8, <3>0 DEF Clean, From
    <3> QED BY <2>5, <2>8, <3>1 DEF Unlaunched, JobAt, LaunchInv
  <2>12. Owns(y) /\ Sure(y, Started')
    BY <2>5, <2>8 DEF Owns, Sure, Middle
  <2>13. /\ dir'[p] = w /\ dir' \in [Places -> Dirs]
         /\ \A q \in Places : q # p => dir'[q] = dir[q]
    BY <2>4
  <2>14. /\ \A i \in Jobs : dir[p].jobs[i] # "none" => w.jobs[i] # "none"
         /\ w.ledger # "absent" /\ y.at = p
         /\ (Owns(ex[e]) /\ ex[e].at = p) \/ dir[p].ledger = "absent"
         /\ y.pc = "launch" => w.jobs[JobAt(y)] = "running"
         /\ Clean(y, w.jobs)
    BY <1>2, <2>3, <2>5, <2>7, <2>8, <2>9, <2>10
  <2>15. Kept
    BY <1>1, <2>4, <2>6, <2>11, <2>12, <2>14, DirStep
  <2> QED BY <2>6, <2>12, <2>13, <2>15 DEF Lands
<1> QED BY <1>4, <1>5 DEF BeginJob

\* A new launcher is the first for its stage directory and job.
LEMMA NewLauncher ==
  ASSUME TypeOK, ExecInv, ClaimInv, JobsInv, LaunchInv, NEW e \in Executors, ex[e].pc = "launch",
         NEW i \in Ids, i = count.launches + 1, NEW p \in Places, p = ex[e].at,
         NEW j \in Jobs, j = JobAt(ex[e]), NEW l \in Launchers, l.at = p, l.job = j,
         launcher' = [launcher EXCEPT ![i] = l],
         NEW y \in Executions, Wrote(e, y), y.pc = "running", y.at = p, y.k = ex[e].k,
         count'.launches = i, UNCHANGED dir
  PROVE  Kept
<1>1. ex' \in [Executors -> Executions] /\ \A f \in Executors : ex'[f] = IF f = e THEN y ELSE ex[f]
  BY DEF Wrote, TypeOK
<1>2. /\ l # None /\ launcher \in [Ids -> Launchers \cup {None}]
      /\ \A n \in Ids : launcher'[n] = IF n = i THEN l ELSE launcher[n]
  BY NoneAssumption DEF TypeOK
<1>3. i \notin Started /\ Started' = Started \cup {i} /\ count.launches \in Nat
  BY <1>2 DEF Started, LaunchInv, TypeOK
<1>4. Owns(ex[e]) /\ Owns(y) /\ dir[p].jobs[j] = "running"
  BY DEF Owns, JobsInv
<1>5. ClaimInv'
  BY <1>1, <1>4 DEF ClaimInv, Owns
<1>6. JobsInv'
  <2>1. Clean(y, dir[p].jobs)
    BY <1>4 DEF JobsInv, Clean, From
  <2>2. \A f \in Executors : Clean(ex'[f], dir'[ex'[f].at].jobs)
    BY <1>1, <2>1 DEF JobsInv
  <2>3. \A f \in Executors : ex'[f].pc = "launch" => dir'[ex'[f].at].jobs[JobAt(ex'[f])] = "running"
    BY <1>1 DEF JobsInv
  <2>4. \A q \in Places : dir'[q].ledger = "absent" => \A n \in Jobs : dir'[q].jobs[n] = "none"
    BY DEF JobsInv
  <2> QED BY <2>2, <2>3, <2>4 DEF JobsInv, Clean, JobAt, Owns, From
<1>7. LaunchInv'
  <2>1. \A n \in Started : launcher[n].at # p \/ launcher[n].job # j
    BY DEF LaunchInv, Unlaunched
  <2>2. ASSUME NEW n \in Started'
        PROVE  n <= count'.launches /\ dir'[launcher'[n].at].jobs[launcher'[n].job] # "none"
    <3>1. CASE n = i
      BY <1>2, <1>4, <3>1
    <3>2. CASE n \in Started
      <4>1. n <= count.launches /\ n \in Ids /\ launcher'[n] = launcher[n]
        BY <1>2, <1>3, <3>2 DEF LaunchInv, Started
      <4>2. n <= i
        BY <1>3, <4>1, BoundAssumption DEF Ids
      <4>3. dir[launcher[n].at].jobs[launcher[n].job] # "none"
        BY <3>2 DEF LaunchInv
      <4> QED BY <4>1, <4>2, <4>3
    <3> QED BY <1>3, <2>2, <3>1, <3>2
  <2>3. ASSUME NEW f \in Executors, ex'[f].pc = "launch", NEW n \in Started'
        PROVE  launcher'[n].at # ex'[f].at \/ launcher'[n].job # JobAt(ex'[f])
    <3>1. f # e /\ ex'[f] = ex[f]
      BY <1>1, <2>3
    <3>2. ex[f].at # p
      BY <1>4, <2>3, <3>1 DEF ClaimInv, Owns
    <3>3. CASE n = i
      BY <1>2, <3>1, <3>2, <3>3
    <3>4. CASE n \in Started
      BY <1>2, <1>3, <2>3, <3>1, <3>4 DEF LaunchInv, Unlaunched, Started
    <3> QED BY <1>3, <2>3, <3>3, <3>4
  <2>4. LaunchedOnce'
    BY <1>2, <1>3, <2>1 DEF LaunchInv, LaunchedOnce, Started
  <2> QED BY <2>2, <2>3, <2>4 DEF LaunchInv, Unlaunched, JobAt
<1> QED BY <1>5, <1>6, <1>7 DEF Kept

LEMMA LaunchKeeps ==
  ASSUME TypeOK, ExecInv, ClaimInv, JobsInv, LaunchInv, NEW e \in Executors, Launch(e)
  PROVE  /\ Kept /\ Lands(e)
         /\ launcher' \in [Ids -> Launchers \cup {None}] /\ Started \subseteq Started'
         /\ count' \in [starts : Nat, launches : 0..MaxLaunches, crashes : 0..MaxCrashes,
                        moves : Nat]
<1>1. ex[e].pc = "launch" /\ ex[e] \in Executions /\ UNCHANGED dir
  BY ExecAt DEF Launch
<1>2. PICK p \in Places : p = ex[e].at
  BY <1>1, ExecAt
<1>3. PICK j \in Jobs : j = Job(e)
  BY <1>1, ExecAt DEF Middle
<1>4. CASE Go(e, "failing") /\ UNCHANGED <<launcher, count>>
  <2>1. Goes(e)
    BY <1>1, <1>4, MovesOn DEF Middle
  <2>2. SameLedgers /\ SameLaunchers
    BY <1>1, <1>4, SameKept
  <2>3. Kept /\ Lands(e)
    BY <1>1, <1>4, <2>1, <2>2, MiddleKeeps, GoesLands DEF Middle
  <2> QED BY <1>4, <2>2, <2>3 DEF SameLaunchers, TypeOK
<1>5. CASE /\ launcher' = [launcher EXCEPT ![count.launches + 1] =
                              [at |-> ex[e].at, job |-> Job(e), head |-> head, state |-> "running"]]
           /\ ex' = [ex EXCEPT ![e].pc = "running", ![e].id = count.launches + 1,
                               ![e].before = IF Job(e) \in Collected THEN Matching(Job(e)) ELSE {}]
           /\ count' = [count EXCEPT !.launches = count.launches + 1]
  <2>1. PICK i \in Ids : i = count.launches + 1
    BY BoundAssumption DEF Launch, Ids, TypeOK
  <2>2. PICK b \in SUBSET Ids : b = IF Job(e) \in Collected THEN Matching(Job(e)) ELSE {}
    BY DEF Matching, Present
  <2>3. PICK y \in Executions : /\ y = WithId(ex[e], "running", i, b) /\ y.pc = "running"
                                /\ y.at = p /\ y.k = ex[e].k /\ y.id = i
    <3>1. "running" \in Pcs
      BY DEF Pcs
    <3> QED BY <1>1, <1>2, <3>1, UpdateId
  <2>4. Wrote(e, y)
    BY <1>5, <2>1, <2>2, <2>3 DEF Wrote, WithId
  <2>5. PICK l \in Launchers : /\ l = [at |-> p, job |-> j, head |-> head, state |-> "running"]
                               /\ l.at = p /\ l.job = j
    <3>1. head \in {"sealed", "other"}
      BY DEF TypeOK
    <3>2. [at |-> p, job |-> j, head |-> head, state |-> "running"] \in Launchers
      BY <3>1 DEF Launchers
    <3> QED BY <3>2
  <2>6. launcher' = [launcher EXCEPT ![i] = l]
    BY <1>2, <1>3, <1>5, <2>1, <2>5
  <2>7. /\ count'.launches = i
        /\ count' \in [starts : Nat, launches : 0..MaxLaunches, crashes : 0..MaxCrashes,
                       moves : Nat]
    BY <1>5, <2>1 DEF TypeOK, Ids
  <2>8. Kept
    BY <1>1, <1>2, <1>3, <2>1, <2>3, <2>4, <2>5, <2>6, <2>7, NewLauncher DEF Job, JobAt
  <2>9. /\ launcher' \in [Ids -> Launchers \cup {None}]
        /\ \A n \in Ids : launcher'[n] = IF n = i THEN l ELSE launcher[n]
    BY <2>6 DEF TypeOK
  <2>10. Started \subseteq Started' /\ i \in Started'
    BY <2>9, NoneAssumption DEF Started
  <2>11. Sure(y, Started')
    <3>1. ex[e].k \in DOMAIN Plan[ex[e].at[2]]
      BY <1>1, ExecAt DEF Sure, Middle
    <3> QED BY <1>2, <2>3, <2>10, <3>1 DEF Sure
  <2>12. dir' \in [Places -> Dirs]
    BY <1>1 DEF TypeOK
  <2> QED BY <2>4, <2>7, <2>8, <2>9, <2>10, <2>11, <2>12 DEF Lands
<1> QED BY <1>4, <1>5 DEF Launch

LEMMA ConcludeKeeps ==
  ASSUME TypeOK, ExecInv, ClaimInv, JobsInv, LaunchInv, NEW e \in Executors, Conclude(e)
  PROVE  Kept /\ Lands(e)
<1>1. /\ ex[e].pc = "conclude" /\ UNCHANGED <<launcher, count>> /\ ex[e] \in Executions
  BY ExecAt DEF Conclude, World
<1>2. PICK p \in Places : p = ex[e].at /\ dir[p] \in Dirs
  BY <1>1, ExecAt
<1>3. SameLaunchers
  BY <1>1, SameKept
<1>4. CASE Go(e, "failing") /\ UNCHANGED dir
  <2>1. Goes(e)
    BY <1>1, <1>4, MovesOn DEF Middle
  <2>2. SameLedgers
    BY <1>4, SameKept
  <2> QED BY <1>1, <1>3, <2>1, <2>2, MiddleKeeps, GoesLands DEF Middle
<1>5. CASE /\ dir' = [dir EXCEPT ![ex[e].at] = [@ EXCEPT !.jobs[Job(e)] = "pass",
                                                      !.receipt[Job(e)] = ex[e].held]]
           /\ ex' = [ex EXCEPT ![e].pc = "next", ![e].k = @ + 1]
  <2>1. PICK j \in Jobs : j = Job(e)
    BY <1>1, ExecAt DEF Middle
  <2>2. PICK f \in [Jobs -> {"none", "running", "pass", "fail"}] : f = [dir[p].jobs EXCEPT ![j] = "pass"]
    BY <1>2 DEF Dirs
  <2>3. PICK r \in [Jobs -> Artifacts \cup {None}] : r = [dir[p].receipt EXCEPT ![j] = ex[e].held]
    BY <1>1, <1>2 DEF Dirs, Executions
  <2>4. PICK w \in Dirs : w = WithRecords(dir[p], f, r) /\ w.ledger = dir[p].ledger /\ w.jobs = f
    BY <1>2, DirRecords
  <2>5. dir' = [dir EXCEPT ![p] = w] /\ dir \in [Places -> Dirs]
    <3>1. dir' = [dir EXCEPT ![p] = PassRecord(dir[p], j, ex[e].held)]
      BY <1>2, <1>5, <2>1 DEF TypeOK, PassRecord
    <3>2. PassRecord(dir[p], j, ex[e].held) = WithRecords(dir[p], f, r)
      BY <1>2, <2>2, <2>3, RecordPath
    <3>3. PassRecord(dir[p], j, ex[e].held) = w
      BY <2>4, <3>2
    <3> QED BY <3>1, <3>3 DEF TypeOK
  <2>6. ex[e].k \in Nat /\ ex[e].k + 1 \in Nat
    BY <1>1 DEF Executions
  <2>7. PICK k \in Nat : k = ex[e].k + 1
    BY <2>6
  <2>8. PICK y \in Executions : y = WithK(ex[e], "next", k) /\ y.pc = "next" /\ y.at = p /\ y.k = k
    <3>1. "next" \in Pcs
      BY DEF Pcs
    <3> QED BY <1>1, <1>2, <3>1, UpdateK
  <2>9. Wrote(e, y)
    BY <1>5, <2>7, <2>8 DEF Wrote, WithK
  <2>10. Owns(ex[e]) /\ dir[p].ledger # "absent" /\ Clean(ex[e], dir[p].jobs)
    BY <1>1, <1>2 DEF Owns, ClaimInv, JobsInv
  <2>11. /\ dir[p].jobs \in [Jobs -> {"none", "running", "pass", "fail"}]
         /\ \A i \in Jobs : f[i] = IF i = j THEN "pass" ELSE dir[p].jobs[i]
         /\ j = Plan[p[2]][ex[e].k] /\ ex[e].k \in DOMAIN Plan[p[2]]
    BY <1>1, <1>2, <2>1, <2>2, ExecAt DEF Dirs, Job, Sure, Middle
  <2>12. Clean(y, w.jobs)
    <3>1. /\ DOMAIN Plan[p[2]] \subseteq Nat
          /\ \A n \in DOMAIN Plan[p[2]] : Plan[p[2]][n] \in Jobs
          /\ \A n \in DOMAIN Plan[p[2]] : n # ex[e].k => Plan[p[2]][n] # j
      BY <2>11, PlanTypes, PlanAssumption
    <3>2. ASSUME NEW n \in DOMAIN Plan[p[2]], n >= k PROVE f[Plan[p[2]][n]] = "none"
      <4>1. n >= ex[e].k + 1 /\ n # ex[e].k
        BY <2>6, <2>7, <3>1, <3>2
      <4>2. dir[p].jobs[Plan[p[2]][n]] = "none"
        BY <1>1, <1>2, <2>10, <4>1 DEF Clean, From
      <4> QED BY <2>11, <3>1, <4>1, <4>2
    <3> QED BY <2>4, <2>8, <3>2 DEF Clean, From
  <2>13. /\ \A i \in Jobs : dir[p].jobs[i] # "none" => w.jobs[i] # "none"
         /\ w.ledger # "absent" /\ y.at = p
         /\ (Owns(ex[e]) /\ ex[e].at = p) \/ dir[p].ledger = "absent"
         /\ y.pc = "launch" => w.jobs[JobAt(y)] = "running"
    BY <1>2, <2>4, <2>8, <2>10, <2>11
  <2>14. Unlaunched(y) /\ Owns(y) /\ Sure(y, Started')
    BY <2>8 DEF Unlaunched, Owns, Sure, Middle
  <2>15. Kept /\ dir' \in [Places -> Dirs]
    BY <1>1, <2>5, <2>9, <2>12, <2>13, <2>14, DirStep
  <2> QED BY <2>9, <2>14, <2>15 DEF Lands
<1> QED BY <1>4, <1>5 DEF Conclude

\* The directory of an execution that leaves becomes w.
LEMMA LeaveWith ==
  ASSUME TypeOK, ExecInv, ClaimInv, JobsInv, LaunchInv, NEW e \in Executors, Wrote(e, Idle),
         Owns(ex[e]), SameLaunchers, UNCHANGED count.launches, NEW w \in Dirs,
         dir' = [dir EXCEPT ![ex[e].at] = w], w.ledger # "absent",
         \A j \in Jobs : dir[ex[e].at].jobs[j] # "none" => w.jobs[j] # "none"
  PROVE  Kept /\ Lands(e)
<1>1. PICK p \in Places : p = ex[e].at
  BY ExecAt DEF Owns
<1>2. /\ dir'[p] = w /\ dir' \in [Places -> Dirs]
      /\ \A q \in Places : q # p => dir'[q] = dir[q]
  BY <1>1 DEF TypeOK
<1>3. ex[e].pc # "idle"
  BY DEF Owns
<1>4. Kept
  BY <1>1, <1>2, <1>3, LeaveKeeps
<1> QED BY <1>2, <1>4, IdleLands DEF Lands

LEMMA FailKeeps ==
  ASSUME TypeOK, ExecInv, ClaimInv, JobsInv, LaunchInv, NEW e \in Executors, Fail(e)
  PROVE  Kept /\ Lands(e)
<1>1. ex[e].pc = "failing" /\ UNCHANGED <<launcher, count>> /\ ex[e] \in Executions
  BY ExecAt DEF Fail, World
<1>2. PICK p \in Places : p = ex[e].at /\ dir[p] \in Dirs
  BY <1>1, ExecAt
<1>3. PICK f \in [Jobs -> {"none", "running", "pass", "fail"}] :
        f = [j \in Jobs |-> IF dir[p].jobs[j] = "running" THEN "fail" ELSE dir[p].jobs[j]]
  BY <1>2 DEF Dirs
<1>4. PICK r \in [Jobs -> Artifacts \cup {None}] :
        r = [j \in Jobs |-> IF dir[p].jobs[j] = "running" THEN ex[e].held ELSE dir[p].receipt[j]]
  BY <1>1, <1>2 DEF Dirs, Executions
<1>5. PICK w \in Dirs : /\ w = WithFailure(dir[p], f, r)
                        /\ w.ledger = "fail" /\ w.jobs = f
  BY <1>2, DirFails
<1>6. dir' = [dir EXCEPT ![p] = w]
  BY <1>2, <1>3, <1>4, <1>5 DEF Fail, TypeOK, WithFailure
<1>7. \A j \in Jobs : dir[p].jobs[j] # "none" => w.jobs[j] # "none"
  BY <1>3, <1>5
<1>8. Owns(ex[e]) /\ Wrote(e, Idle) /\ SameLaunchers /\ UNCHANGED count.launches
  BY <1>1, SameKept DEF Owns, Wrote, Fail
<1> QED BY <1>2, <1>5, <1>6, <1>7, <1>8, LeaveWith

LEMMA FinishKeeps ==
  ASSUME TypeOK, ExecInv, ClaimInv, JobsInv, LaunchInv, NEW e \in Executors, Finish(e)
  PROVE  Kept /\ Lands(e)
<1>1. ex[e].pc = "next" /\ UNCHANGED <<launcher, count>>
  BY DEF Finish, World
<1>2. PICK p \in Places : p = ex[e].at /\ dir[p] \in Dirs
  BY <1>1, ExecAt
<1>3. PICK w \in Dirs : w = WithLedger(dir[p], "pass") /\ w.ledger = "pass" /\ w.jobs = dir[p].jobs
  BY <1>2, DirLedger
<1>4. dir' = [dir EXCEPT ![p] = w]
  BY <1>2, <1>3 DEF Finish, TypeOK, WithLedger
<1>5. Owns(ex[e]) /\ Wrote(e, Idle) /\ SameLaunchers /\ UNCHANGED count.launches
  BY <1>1, SameKept DEF Owns, Wrote, Finish
<1>6. w.ledger # "absent" /\ \A j \in Jobs : dir[p].jobs[j] # "none" => w.jobs[j] # "none"
  BY <1>3
<1> QED BY <1>2, <1>4, <1>5, <1>6, LeaveWith

LEMMA CrashKeeps ==
  ASSUME TypeOK, ExecInv, ClaimInv, JobsInv, LaunchInv, NEW e \in Executors, Crash(e)
  PROVE  Kept /\ Lands(e)
<1>1. /\ ex[e].pc # "idle" /\ UNCHANGED <<dir, launcher>> /\ UNCHANGED count.launches
      /\ Wrote(e, Idle)
  BY DEF Crash, TypeOK, Wrote
<1>2. SameLedgers /\ SameLaunchers
  BY <1>1, SameKept
<1>3. PICK p \in Places : p = ex[e].at
  BY <1>1, ExecAt
<1>4. Kept
  BY <1>1, <1>2, <1>3, LeaveKeeps DEF SameLedgers
<1> QED BY <1>1, <1>2, <1>4, IdleLands DEF Lands, SameLedgers

--------------------------------------------------------------------------------
(* The inductive invariant and the theorems. *)

IInv == TypeOK /\ ExecInv /\ ClaimInv /\ JobsInv /\ LaunchInv

Counts == [starts : Nat, launches : 0..MaxLaunches, crashes : 0..MaxCrashes, moves : Nat]

\* What a step keeps of the variables that are not an execution's own.
Rest ==
  /\ mode' \in Modes /\ head' \in {"sealed", "other"}
  /\ results' \in [Ids -> Contents \cup {None}]
  /\ launcher' \in [Ids -> Launchers \cup {None}] /\ Started \subseteq Started'
  /\ count' \in Counts

LEMMA RestUnchanged ==
  ASSUME TypeOK, UNCHANGED <<World, results>>
  PROVE  Rest
  BY DEF TypeOK, World, Rest, Started, Counts

LEMMA MiddleStep ==
  ASSUME IInv, NEW e \in Executors, ex[e].pc \in Middle, Goes(e), SameLedgers, SameLaunchers,
         UNCHANGED <<mode, head, count>>, results' \in [Ids -> Contents \cup {None}]
  PROVE  Kept /\ Lands(e) /\ Rest
<1>1. Kept /\ Lands(e)
  BY MiddleKeeps, GoesLands DEF IInv
<1> QED BY <1>1 DEF IInv, TypeOK, Rest, SameLaunchers, Counts

LEMMA GoStep ==
  ASSUME IInv, NEW e \in Executors, NEW pc \in {"custody", "reject", "failing"}, Go(e, pc),
         ex[e].pc \in Middle, UNCHANGED <<World, results, dir>>
  PROVE  Kept /\ Lands(e) /\ Rest
<1>1. Goes(e)
  BY MovesOn DEF IInv, Middle
<1>2. SameLedgers /\ SameLaunchers
  BY SameKept DEF World, IInv
<1>3. results' \in [Ids -> Contents \cup {None}] /\ UNCHANGED <<mode, head, count>>
  BY DEF IInv, TypeOK, World
<1> QED BY <1>1, <1>2, <1>3, MiddleStep

LEMMA ExecStep ==
  ASSUME IInv, NEW e \in Executors, ExecNext(e)
  PROVE  Kept /\ Lands(e) /\ Rest
<1> USE DEF IInv
<1>1. ASSUME NEW root \in Roots, NEW stage \in Stages, Start(e, root, stage)
      PROVE  Kept /\ Lands(e) /\ Rest
  <2>1. Kept /\ \E y \in Executions : Wrote(e, y) /\ Sure(y, Started)
    BY <1>1, StartKeeps
  <2>2. dir' \in [Places -> Dirs] /\ Started' = Started /\ Rest
    BY <1>1 DEF Start, TypeOK, Started, Rest, Counts
  <2> QED BY <2>1, <2>2 DEF Lands
<1>2. CASE MakeStage(e)
  BY <1>2, MakeStageKeeps, RestUnchanged DEF MakeStage
<1>3. CASE OpenLedger(e)
  BY <1>3, OpenLedgerKeeps, RestUnchanged DEF OpenLedger
<1>4. CASE BeginJob(e)
  BY <1>4, BeginJobKeeps, RestUnchanged DEF BeginJob
<1>5. CASE Launch(e)
  <2>1. mode' \in Modes /\ head' \in {"sealed", "other"} /\ results' \in [Ids -> Contents \cup {None}]
    BY <1>5 DEF Launch, TypeOK
  <2> QED BY <1>5, <2>1, LaunchKeeps DEF Rest, Counts
<1>6. CASE Returned(e)
  <2>1. Goes(e) /\ SameLedgers /\ SameLaunchers
    BY <1>6, ReturnedGoes
  <2>2. ex[e].pc \in Middle /\ UNCHANGED <<mode, head, count>> /\ results' \in [Ids -> Contents \cup {None}]
    BY <1>6 DEF Returned, World, Middle, TypeOK
  <2> QED BY <2>1, <2>2, MiddleStep
<1>7. ASSUME NEW pc \in {"reject", "failing"}, NEW n \in SUBSET Ids, Cut(e, pc, n)
      PROVE  Kept /\ Lands(e) /\ Rest
  <2>1. Goes(e) /\ SameLedgers /\ SameLaunchers
    BY <1>7, CutGoes
  <2>2. ex[e].pc \in Middle /\ UNCHANGED <<mode, head, count>> /\ results' \in [Ids -> Contents \cup {None}]
    BY <1>7 DEF Cut, Middle, TypeOK
  <2> QED BY <2>1, <2>2, MiddleStep
<1>8. CASE TimedOut(e)
  <2>1. PICK n \in SUBSET Ids : n = New(e)
    BY DEF New, Matching, Present
  <2> QED BY <1>7, <1>8, <2>1 DEF TimedOut
<1>9. CASE Interrupted(e)
  <2>1. PICK n \in SUBSET Ids : n = {}
    OBVIOUS
  <2> QED BY <1>7, <1>9, <2>1 DEF Interrupted
<1>10. CASE Validate(e)
  <2>1. /\ Go(e, "custody") \/ Go(e, "reject")
        /\ ex[e].pc \in Middle /\ UNCHANGED <<World, results, dir>>
    BY <1>10 DEF Validate, Middle
  <2> QED BY <2>1, GoStep
<1>11. CASE Copy(e)
  <2>1. Goes(e) /\ SameLedgers /\ SameLaunchers
    BY <1>11, CopyGoes
  <2>2. ex[e].pc \in Middle /\ UNCHANGED <<mode, head, count>> /\ results' \in [Ids -> Contents \cup {None}]
    BY <1>11 DEF Copy, World, Middle, TypeOK
  <2> QED BY <2>1, <2>2, MiddleStep
<1>12. CASE Unlink(e)
  <2>1. /\ Goes(e) /\ SameLedgers /\ SameLaunchers
        /\ results' \in [Ids -> Contents \cup {None}]
    BY <1>12, UnlinkGoes
  <2>2. ex[e].pc \in Middle /\ UNCHANGED <<mode, head, count>>
    BY <1>12 DEF Unlink, World, Middle
  <2> QED BY <2>1, <2>2, MiddleStep
<1>13. CASE Rejected(e)
  <2>1. Go(e, "failing") /\ ex[e].pc \in Middle /\ UNCHANGED <<World, results, dir>>
    BY <1>13 DEF Rejected, Middle
  <2> QED BY <2>1, GoStep
<1>14. CASE Conclude(e)
  BY <1>14, ConcludeKeeps, RestUnchanged DEF Conclude
<1>15. CASE Fail(e)
  BY <1>15, FailKeeps, RestUnchanged DEF Fail
<1>16. CASE Finish(e)
  BY <1>16, FinishKeeps, RestUnchanged DEF Finish
<1>17. CASE Crash(e)
  <2>1. Rest
    BY <1>17, BoundAssumption DEF Crash, TypeOK, Rest, Started, Counts
  <2> QED BY <1>17, <2>1, CrashKeeps
<1> QED BY <1>1, <1>2, <1>3, <1>4, <1>5, <1>6, <1>8, <1>9, <1>10, <1>11, <1>12, <1>13, <1>14,
           <1>15, <1>16, <1>17 DEF ExecNext

LEMMA ExecPreserves ==
  ASSUME IInv, NEW e \in Executors, ExecNext(e)
  PROVE  IInv'
<1>1. Kept /\ Lands(e) /\ Rest
  BY ExecStep
<1>2. PICK y \in Executions : Wrote(e, y) /\ Sure(y, Started')
  BY <1>1 DEF Lands
<1>3. ex' \in [Executors -> Executions] /\ \A f \in Executors : ex'[f] = IF f = e THEN y ELSE ex[f]
  BY <1>2 DEF Wrote, IInv, TypeOK
<1>4. TypeOK'
  BY <1>1, <1>3 DEF TypeOK, Rest, Lands, Counts
<1>5. ExecInv'
  <2>1. Started \subseteq Started'
    BY <1>1 DEF Rest
  <2>2. ASSUME NEW f \in Executors PROVE Sure(ex'[f], Started')
    BY <1>2, <1>3, <2>1 DEF IInv, ExecInv, Sure
  <2> QED BY <2>2 DEF ExecInv, Sure
<1> QED BY <1>1, <1>4, <1>5 DEF IInv, Kept

\* Launchers, operators and time pass by the executions and their directories.
LEMMA OutsideKeeps ==
  ASSUME IInv, UNCHANGED <<ex, dir>>, UNCHANGED count.launches, SameLaunchers
  PROVE  ExecInv' /\ Kept
<1>1. ExecInv'
  BY DEF IInv, ExecInv, SameLaunchers, Sure
<1>2. ClaimInv' /\ JobsInv'
  BY DEF IInv, ClaimInv, JobsInv, Owns, Clean, JobAt, From
<1>3. LaunchInv'
  <2>1. \A i \in Started' : i <= count.launches' /\ dir'[launcher'[i].at].jobs[launcher'[i].job] # "none"
    BY DEF IInv, LaunchInv, SameLaunchers
  <2>2. ASSUME NEW f \in Executors, ex'[f].pc = "launch", NEW i \in Started'
        PROVE  launcher'[i].at # ex'[f].at \/ launcher'[i].job # JobAt(ex'[f])
    BY <2>2 DEF IInv, LaunchInv, Unlaunched, SameLaunchers
  <2>3. LaunchedOnce'
    BY DEF IInv, LaunchInv, LaunchedOnce, SameLaunchers, Started
  <2> QED BY <2>1, <2>2, <2>3 DEF LaunchInv, Unlaunched, JobAt
<1> QED BY <1>1, <1>2, <1>3 DEF Kept

LEMMA ClientPreserves ==
  ASSUME IInv, NEW i \in Ids, NEW from,
         NEW to \in {"running", "writing", "written", "ok", "failed", "killed"}, Client(i, from, to),
         results' \in [Ids -> Contents \cup {None}]
  PROVE  IInv'
<1>1. i \in Started
  BY DEF Client, Started
<1>2. SameLaunchers
  BY <1>1, LauncherState DEF Client, IInv
<1>3. UNCHANGED <<ex, dir>> /\ UNCHANGED count.launches
  BY DEF Client
<1>4. ExecInv' /\ Kept
  BY <1>2, <1>3, OutsideKeeps
<1>5. TypeOK'
  BY <1>2 DEF IInv, TypeOK, Client, SameLaunchers
<1> QED BY <1>4, <1>5 DEF IInv, Kept

LEMMA InitHolds == Init => IInv
<1> SUFFICES ASSUME Init PROVE IInv
  OBVIOUS
<1>1. NoDir \in Dirs /\ NoDir.ledger = "absent" /\ \A j \in Jobs : NoDir.jobs[j] = "none"
  BY DEF NoDir, Dirs
<1>2. Idle.pc = "idle"
  BY DEF Idle
<1>3. TypeOK
  <2>1. dir \in [Places -> Dirs] /\ ex \in [Executors -> Executions]
    BY <1>1, IdleType DEF Init
  <2>2. count \in [starts : Nat, launches : 0..MaxLaunches, crashes : 0..MaxCrashes,
                   moves : Nat]
    BY BoundAssumption DEF Init
  <2> QED BY <2>1, <2>2 DEF Init, TypeOK
<1>4. Started = {}
  BY DEF Init, Started
<1>5. \A e \in Executors : ex[e] = Idle
  BY DEF Init
<1>6. ExecInv
  BY <1>2, <1>5 DEF ExecInv, Sure
<1>7. ClaimInv
  BY <1>2, <1>5 DEF ClaimInv, Owns
<1>8. JobsInv
  BY <1>1, <1>2, <1>5 DEF JobsInv, Init, Clean, Owns
<1>9. LaunchInv
  BY <1>2, <1>4, <1>5 DEF LaunchInv, LaunchedOnce, Unlaunched, Started
<1> QED BY <1>3, <1>6, <1>7, <1>8, <1>9 DEF IInv

LEMMA NextPreserves == IInv /\ [Next]_vars => IInv'
<1> SUFFICES ASSUME IInv, [Next]_vars PROVE IInv'
  OBVIOUS
<1>1. ASSUME NEW e \in Executors, ExecNext(e) PROVE IInv'
  BY <1>1, ExecPreserves
<1>2. ASSUME NEW i \in Ids, BeginWrite(i) PROVE IInv'
  <2>1. Client(i, {"running"}, "writing") /\ results' \in [Ids -> Contents \cup {None}]
    BY <1>2 DEF BeginWrite, IInv, TypeOK, Contents
  <2> QED BY <2>1, ClientPreserves
<1>3. ASSUME NEW i \in Ids, EndWrite(i) PROVE IInv'
  <2>1. Client(i, {"writing"}, "written")
    BY <1>3 DEF EndWrite
  <2>2. results' \in [Ids -> Contents \cup {None}]
    <3>1. results \in [Ids -> Contents \cup {None}]
      BY DEF IInv, TypeOK
    <3>2. CASE results[i] = None
      BY <1>3, <3>1, <3>2 DEF EndWrite
    <3>3. CASE results[i] # None
      <4>1. launcher[i] \in Launchers
        BY <2>1 DEF Client, IInv, TypeOK
      <4>2. launcher[i].head \in {"sealed", "other"} /\ launcher[i].at[2] \in Stages
        BY <4>1 DEF Launchers, Places
      <4>3. PICK report \in Outcomes[launcher[i].at[2]][launcher[i].job] :
               results' = [results EXCEPT ![i] = Named(report, launcher[i].head)]
        BY <1>3, <3>3 DEF EndWrite, Named
      <4>4. report \in Reports
        BY <1>3, <4>2, <4>3, OutcomeAssumption DEF EndWrite
      <4>5. Named(report, launcher[i].head) \in Contents
        BY <4>2, <4>4, NamedReport DEF Contents
      <4> QED BY <3>1, <4>3, <4>5
    <3> QED BY <3>2, <3>3
  <2> QED BY <2>1, <2>2, ClientPreserves
<1>4. ASSUME NEW i \in Ids, Exit(i) PROVE IInv'
  <2>1. results' \in [Ids -> Contents \cup {None}]
    BY <1>4 DEF Exit, IInv, TypeOK
  <2>2. CASE Client(i, {"running", "writing", "written"}, "failed")
    BY <2>1, <2>2, ClientPreserves
  <2>3. CASE Client(i, IF launcher[i].job \in Collected THEN {"written"} ELSE {"running"}, "ok")
    BY <2>1, <2>3, ClientPreserves
  <2> QED BY <1>4, <2>2, <2>3 DEF Exit
<1>5. ASSUME NEW i \in Ids, Tidy(i) PROVE IInv'
  <2>1. UNCHANGED <<ex, dir>> /\ UNCHANGED count.launches /\ SameLaunchers
    BY <1>5, SameKept DEF Tidy, IInv
  <2>2. TypeOK'
    BY <1>5 DEF Tidy, IInv, TypeOK
  <2> QED BY <2>1, <2>2, OutsideKeeps DEF IInv, Kept
<1>6. CASE Move
  <2>1. UNCHANGED <<ex, dir>> /\ UNCHANGED count.launches /\ SameLaunchers
    BY <1>6, SameKept DEF Move, IInv, TypeOK
  <2>2. TypeOK'
    BY <1>6, BoundAssumption DEF Move, IInv, TypeOK
  <2> QED BY <2>1, <2>2, OutsideKeeps DEF IInv, Kept
<1>7. CASE UNCHANGED vars
  <2>1. UNCHANGED <<ex, dir>> /\ UNCHANGED count.launches /\ SameLaunchers
    BY <1>7, SameKept DEF vars, IInv
  <2>2. TypeOK'
    BY <1>7 DEF vars, IInv, TypeOK
  <2> QED BY <2>1, <2>2, OutsideKeeps DEF IInv, Kept
<1> QED BY <1>1, <1>2, <1>3, <1>4, <1>5, <1>6, <1>7 DEF Next

LEMMA Invariance == Spec => []IInv
  BY InitHolds, NextPreserves, PTL DEF Spec

\* The records of execute(), _run_job and the launchers keep their shape.
THEOREM TypeCorrect == Spec => []TypeOK
  BY Invariance, PTL DEF IInv

\* For every plan whose stages name a job once, however many operators, evidence
\* roots, crashes and overlapping executions: no job is launched twice for one stage
\* directory.  The mkdir of execute() and the record that _run_job writes before it
\* starts a client are what the proof rests on.
THEOREM NeverLaunchedTwice == Spec => []LaunchedOnce
  BY Invariance, PTL DEF IInv, LaunchInv

\* Whatever the experiment, an accepted artifact was written at the sealed commit, and
\* each of its records shows that it passed and that refused requests called no model:
\* through the runtime probe, or for Cargo through the docks that were refused.
THEOREM AcceptedShowsRefusals ==
  ASSUME NEW report \in Reports, NEW j \in Experiments, NEW step \in Steps,
         Accepts(report, j, step)
  PROVE  /\ report.head = "sealed" /\ report.records # <<>>
         /\ \A k \in DOMAIN report.records :
              /\ {"identity", "status"} \subseteq report.records[k].holds
              /\ report.records[k].holds \cap {"refusals", "attacks"} # {}
<1>1. report.head = "sealed" /\ report.records # <<>>
  BY DEF Accepts, Sourced, Counted, Reports
<1>2. Validated(report, j, step.options)
  BY DEF Accepts
<1>3. ASSUME NEW k \in DOMAIN report.records
      PROVE  /\ {"identity", "status"} \subseteq report.records[k].holds
             /\ "refusals" \in report.records[k].holds \/ "attacks" \in report.records[k].holds
  <2>1. CASE Dense(report, step.options)
    BY <2>1, <1>3 DEF Dense, Shows, Identified
  <2>2. CASE Private(report, step.options)
    BY <2>2, <1>3 DEF Private, Shows, Identified
  <2>3. CASE Factorial(report, step.options)
    BY <2>3, <1>3 DEF Factorial, FactorialResults, Shows, Identified
  <2>4. CASE Cargo(report)
    BY <2>4, <1>3 DEF Cargo, Shows, Identified
  <2>5. CASE Orthogonal(report, step.options)
    BY <2>5, <1>3 DEF Orthogonal, Shows, Identified
  <2>6. CASE Generative(report, step.options)
    BY <2>6, <1>3 DEF Generative, Shows, Identified
  <2>7. CASE Service(report, step.options)
    BY <2>7, <1>3 DEF Service, Shows, Identified
  <2> QED BY <1>2, <2>1, <2>2, <2>3, <2>4, <2>5, <2>6, <2>7 DEF Validated
<1> QED BY <1>1, <1>3
--------------------------------------------------------------------------------
(* What a passed job rests on. *)

\* Where the content of an artifact came from.
WrittenBy(l, content) ==
  \E report \in Outcomes[l.at[2]][l.job] : content = Named(report, l.head)

\* The file of a launcher with record l: it writes its artifact once, and only while it
\* runs, so that an artifact that was taken away does not come back.
FileAt(l, content) ==
  /\ l = None \/ l.state = "running" => content = None
  /\ l # None =>
       /\ l.state = "writing" => content \in {None, Unreadable}
       /\ content \notin {None, Unreadable} => WrittenBy(l, content)
       /\ l.job \in JobsOf(l.at[2])

FileInv == \A i \in Ids : FileAt(launcher[i], results[i])

Alone == mode = "alone"
AloneInv == Alone => \A e, f \in Executors : e = f \/ ex[e].pc = "idle" \/ ex[f].pc = "idle"

\* A running execution's own launcher is none that it saw before; alone, nobody takes
\* its artifact away.
Own(y) ==
  y.pc = "running" =>
    /\ y.id \notin y.before /\ launcher[y.id].at = y.at /\ launcher[y.id].job = JobAt(y)
    /\ Alone /\ JobAt(y) \in Collected /\ launcher[y.id].state \in {"writing", "written", "ok"}
         => results[y.id] # None

OwnInv == \A e \in Executors : Own(ex[e])

\* The launcher of an artifact, as far as the name and the time of the file tell.
Comes(i, p, j) ==
  /\ launcher[i].state # "running" /\ launcher[i].job = j
  /\ Alone => launcher[i].at = p

Evidence(a, p, j) ==
  /\ a \in Artifacts /\ a.id \in Started /\ Comes(a.id, p, j)
  /\ launcher[a.id].at[2] = p[2] /\ launcher[a.id].head = "sealed"
  /\ Valid(a, p[2], j)

\* In the custody of p, and no longer where it was written.
Rests(a, p, j) == Evidence(a, p, j) /\ a \in dir[p].artifacts /\ results[a.id] = None

Concludes(y) == y.pc = "conclude" /\ JobAt(y) \in Collected

Judged(y) ==
  /\ y.pc \in {"validate", "custody"} =>
       JobAt(y) \in Collected /\ \E i \in Started : y.new = {i} /\ Comes(i, y.at, JobAt(y))
  /\ y.pc = "custody" =>
       \A i \in y.new : results[i] # None =>
         Valid([id |-> i, content |-> results[i]], y.at[2], JobAt(y))
  /\ y.pc = "unlink" =>
       /\ JobAt(y) \in Collected
       /\ Evidence(y.held, y.at, JobAt(y)) /\ y.held \in dir[y.at].artifacts
  /\ Concludes(y) => Rests(y.held, y.at, JobAt(y))

JudgedInv == \A e \in Executors : Judged(ex[e])

\* An artifact that was taken into custody is nobody else's.
HeldInv ==
  \A e \in Executors : Concludes(ex[e]) =>
    /\ \A f \in Executors \ {e} : Concludes(ex[f]) => ex[f].held.id # ex[e].held.id
    /\ \A q \in Places, j \in Collected : Passed(q, j) => dir[q].receipt[j].id # ex[e].held.id

PassInv ==
  \A p \in Places, j \in Collected : Passed(p, j) =>
    /\ Rests(dir[p].receipt[j], p, j)
    /\ \A q \in Places \ {p} : Passed(q, j) => dir[q].receipt[j].id # dir[p].receipt[j].id

\* The jobs that an execution is past have passed, and its stage is not over.
Done(y, d) ==
  Owns(y) =>
    /\ d.ledger \in {"unwritten", "running"}
    /\ y.pc # "made" =>
         y.k >= 1 /\ \A n \in DOMAIN Plan[y.at[2]] : n < y.k => d.jobs[Plan[y.at[2]][n]] = "pass"

LedgerInv ==
  /\ \A e \in Executors : Done(ex[e], dir[ex[e].at])
  /\ \A p \in Places : dir[p].ledger = "pass" => \A j \in JobsOf(p[2]) : Passed(p, j)

EInv == FileInv /\ AloneInv /\ OwnInv /\ JudgedInv /\ HeldInv /\ PassInv /\ LedgerInv

--------------------------------------------------------------------------------
(* Launchers and their files. *)

\* What a step leaves of a launcher that was started, and of the artifact it wrote.
FrameAt(i) ==
  /\ i \in Started'
  /\ launcher'[i].at = launcher[i].at /\ launcher'[i].job = launcher[i].job
  /\ launcher'[i].head = launcher[i].head
  /\ launcher[i].state # "running" =>
       /\ launcher'[i].state # "running"
       /\ results'[i] \in {results[i], None} \/ results[i] = Unreadable

Frame == UNCHANGED mode /\ \A i \in Started : FrameAt(i)

Touches(i) == \A k \in Ids : k # i => launcher'[k] = launcher[k] /\ results'[k] = results[k]

LEMMA TouchOne ==
  ASSUME TypeOK, FileInv, UNCHANGED mode, NEW i \in Ids, Touches(i),
         FileAt(launcher'[i], results'[i]), i \in Started => FrameAt(i)
  PROVE  FileInv' /\ Frame
<1>1. ASSUME NEW k \in Ids PROVE FileAt(launcher'[k], results'[k])
  BY DEF Touches, FileInv
<1>2. ASSUME NEW k \in Started PROVE FrameAt(k)
  <2>1. CASE k = i
    BY <2>1
  <2>2. CASE k # i
    BY <2>2 DEF Touches, FrameAt, Started
  <2> QED BY <2>1, <2>2
<1> QED BY <1>1, <1>2 DEF FileInv, Frame

LEMMA FilesStay ==
  ASSUME FileInv, UNCHANGED <<mode, launcher, results>>
  PROVE  FileInv' /\ Frame
<1>1. FileInv'
  BY DEF FileInv
<1> QED BY <1>1 DEF Frame, FrameAt, Started

\* A launcher that started moves on, or is stopped.
LEMMA ClientMoves ==
  ASSUME TypeOK, NEW i \in Started,
         NEW s \in {"running", "writing", "written", "ok", "failed", "killed"},
         launcher' = [launcher EXCEPT ![i].state = s]
  PROVE  /\ i \in Started' /\ launcher'[i].state = s
         /\ launcher'[i].at = launcher[i].at /\ launcher'[i].job = launcher[i].job
         /\ launcher'[i].head = launcher[i].head
         /\ \A k \in Ids : k # i => launcher'[k] = launcher[k]
<1>1. launcher' = [launcher EXCEPT ![i] = WithState(launcher[i], s)]
  BY DEF WithState
<1>2. PICK was \in Launchers : was = launcher[i] /\ i \in Ids
  BY DEF Started, TypeOK
<1>3. PICK l \in Launchers : /\ l = WithState(was, s)
                             /\ l.at = was.at /\ l.job = was.job /\ l.head = was.head
                             /\ l.state = s
  BY StateUpdates
<1>4. l # None
  BY NoneAssumption
<1>5. launcher'[i] = l /\ \A k \in Ids : k # i => launcher'[k] = launcher[k]
  BY <1>1, <1>2, <1>3 DEF TypeOK
<1>6. i \in Started'
  BY <1>2, <1>4, <1>5 DEF Started
<1> QED BY <1>2, <1>3, <1>5, <1>6

LEMMA ClientStops ==
  ASSUME TypeOK, FileInv, UNCHANGED <<mode, results>>, NEW i \in Started,
         NEW s \in {"ok", "failed", "killed"}, launcher' = [launcher EXCEPT ![i].state = s]
  PROVE  FileInv' /\ Frame
<1>1. /\ i \in Started' /\ launcher'[i].state = s
      /\ launcher'[i].at = launcher[i].at /\ launcher'[i].job = launcher[i].job
      /\ launcher'[i].head = launcher[i].head
      /\ \A k \in Ids : k # i => launcher'[k] = launcher[k]
  BY ClientMoves
<1>2. i \in Ids /\ launcher[i] # None /\ FileAt(launcher[i], results[i]) /\ launcher'[i] # None
  BY <1>1 DEF FileInv, Started
<1>3. FileAt(launcher'[i], results'[i])
  BY <1>1, <1>2 DEF FileAt, WrittenBy
<1>4. FrameAt(i) /\ Touches(i)
  BY <1>1 DEF FrameAt, Touches
<1> QED BY <1>2, <1>3, <1>4, TouchOne

LEMMA FileTaken ==
  ASSUME TypeOK, FileInv, UNCHANGED <<mode, launcher>>, NEW i \in Ids,
         results' = [results EXCEPT ![i] = None]
  PROVE  FileInv' /\ Frame
<1>1. results'[i] = None /\ \A k \in Ids : k # i => results'[k] = results[k]
  BY DEF TypeOK
<1>2. FileAt(launcher'[i], results'[i])
  BY <1>1 DEF FileInv, FileAt
<1>3. Touches(i) /\ (i \in Started => FrameAt(i))
  BY <1>1 DEF Touches, FrameAt, Started
<1> QED BY <1>2, <1>3, TouchOne

LEMMA BeginWriteFiles ==
  ASSUME TypeOK, FileInv, NEW i \in Ids, BeginWrite(i)
  PROVE  FileInv' /\ Frame
<1>0. i \in Started /\ launcher[i].state = "running" /\ UNCHANGED mode
  BY DEF BeginWrite, Client, Started
<1>1. /\ i \in Started' /\ launcher'[i].state = "writing"
      /\ launcher'[i].at = launcher[i].at /\ launcher'[i].job = launcher[i].job
      /\ launcher'[i].head = launcher[i].head
      /\ \A k \in Ids : k # i => launcher'[k] = launcher[k]
  BY <1>0, ClientMoves DEF BeginWrite, Client
<1>2. results'[i] = Unreadable /\ \A k \in Ids : k # i => results'[k] = results[k]
  BY DEF TypeOK, BeginWrite
<1>3. launcher'[i] # None /\ FileAt(launcher[i], results[i]) /\ launcher[i] # None
  BY <1>0, <1>1 DEF Started, FileInv
<1>4. FileAt(launcher'[i], results'[i])
  BY <1>1, <1>2, <1>3 DEF FileAt
<1>5. FrameAt(i) /\ Touches(i)
  BY <1>0, <1>1, <1>2 DEF FrameAt, Touches
<1> QED BY <1>0, <1>4, <1>5, TouchOne

LEMMA EndWriteFiles ==
  ASSUME TypeOK, FileInv, NEW i \in Ids, EndWrite(i)
  PROVE  FileInv' /\ Frame
<1>0. i \in Started /\ launcher[i].state = "writing" /\ UNCHANGED mode
  BY DEF EndWrite, Client, Started
<1>1. /\ i \in Started' /\ launcher'[i].state = "written"
      /\ launcher'[i].at = launcher[i].at /\ launcher'[i].job = launcher[i].job
      /\ launcher'[i].head = launcher[i].head
      /\ \A k \in Ids : k # i => launcher'[k] = launcher[k]
  BY <1>0, ClientMoves DEF EndWrite, Client
<1>2. launcher'[i] # None /\ FileAt(launcher[i], results[i]) /\ launcher[i] # None
  BY <1>0, <1>1 DEF Started, FileInv
<1>3. CASE results[i] = None
  <2>1. UNCHANGED results
    BY <1>3 DEF EndWrite
  <2>2. FileAt(launcher'[i], results'[i])
    BY <1>1, <1>2, <1>3, <2>1 DEF FileAt
  <2>3. FrameAt(i) /\ Touches(i)
    BY <1>1, <1>3, <2>1 DEF FrameAt, Touches
  <2> QED BY <1>0, <2>2, <2>3, TouchOne
<1>4. CASE results[i] # None
  <2>1. PICK report \in Outcomes[launcher[i].at[2]][launcher[i].job] :
          results' = [results EXCEPT ![i] = Named(report, launcher[i].head)]
    BY <1>4 DEF EndWrite, Named
  <2>2. /\ results'[i] = Named(report, launcher[i].head)
        /\ \A k \in Ids : k # i => results'[k] = results[k]
    BY <2>1 DEF TypeOK
  <2>3. WrittenBy(launcher'[i], results'[i])
    BY <1>1, <2>2 DEF WrittenBy
  <2>4. FileAt(launcher'[i], results'[i])
    BY <1>1, <1>2, <2>3 DEF FileAt
  <2>5. results[i] = Unreadable
    BY <1>0, <1>2, <1>4 DEF FileAt
  <2>6. FrameAt(i) /\ Touches(i)
    BY <1>1, <2>2, <2>5 DEF FrameAt, Touches
  <2> QED BY <1>0, <2>4, <2>6, TouchOne
<1> QED BY <1>3, <1>4

\* The client that Launch starts, and what its execution then knows of it.
Starts(e, i, y, l) ==
  /\ i \notin Started /\ launcher' = [launcher EXCEPT ![i] = l]
  /\ Wrote(e, y) /\ y.pc = "running" /\ y.at = ex[e].at /\ y.k = ex[e].k /\ y.id = i
  /\ y.before \subseteq Present
  /\ l.at = ex[e].at /\ l.job = Job(e) /\ l.state = "running"

LEMMA LaunchStarts ==
  ASSUME IInv, NEW e \in Executors, Launch(e)
  PROVE  \/ Go(e, "failing") /\ UNCHANGED launcher
         \/ \E i \in Ids, y \in Executions, l \in Launchers : Starts(e, i, y, l)
<1>1. ex[e].pc = "launch" /\ ex[e] \in Executions /\ ex[e].at \in Places /\ Job(e) \in Jobs
  BY ExecAt DEF Launch, IInv, Middle
<1>2. ASSUME launcher' = [launcher EXCEPT ![count.launches + 1] =
                            [at |-> ex[e].at, job |-> Job(e), head |-> head, state |-> "running"]],
             ex' = [ex EXCEPT ![e].pc = "running", ![e].id = count.launches + 1,
                              ![e].before = IF Job(e) \in Collected THEN Matching(Job(e)) ELSE {}]
      PROVE  \E i \in Ids, y \in Executions, l \in Launchers : Starts(e, i, y, l)
  <2>1. PICK i \in Ids : i = count.launches + 1
    BY BoundAssumption DEF Launch, Ids, IInv, TypeOK
  <2>2. PICK b \in SUBSET Ids : /\ b = IF Job(e) \in Collected THEN Matching(Job(e)) ELSE {}
                                /\ b \subseteq Present
    BY DEF Matching, Present
  <2>3. PICK y \in Executions : /\ y = WithId(ex[e], "running", i, b) /\ y.pc = "running"
                                /\ y.at = ex[e].at /\ y.k = ex[e].k /\ y.id = i /\ y.before = b
    <3>1. "running" \in Pcs
      BY DEF Pcs
    <3> QED BY <1>1, <3>1, UpdateId
  <2>4. Wrote(e, y)
    BY <1>2, <2>1, <2>2, <2>3 DEF Wrote, WithId
  <2>5. PICK l \in Launchers :
          /\ l = [at |-> ex[e].at, job |-> Job(e), head |-> head, state |-> "running"]
          /\ l.at = ex[e].at /\ l.job = Job(e) /\ l.state = "running"
    <3>1. head \in {"sealed", "other"}
      BY DEF IInv, TypeOK
    <3>2. [at |-> ex[e].at, job |-> Job(e), head |-> head, state |-> "running"] \in Launchers
      BY <1>1, <3>1 DEF Launchers
    <3> QED BY <3>2
  <2>6. i \notin Started
    BY <2>1 DEF IInv, LaunchInv, TypeOK
  <2>7. launcher' = [launcher EXCEPT ![i] = l]
    BY <1>2, <2>1, <2>5
  <2> QED BY <2>2, <2>3, <2>4, <2>5, <2>6, <2>7 DEF Starts
<1> QED BY <1>2 DEF Launch

LEMMA StartsFiles ==
  ASSUME IInv, FileInv, NEW e \in Executors, NEW i \in Ids, NEW y \in Executions,
         NEW l \in Launchers, Starts(e, i, y, l), ex[e].pc = "launch", UNCHANGED <<mode, results>>
  PROVE  FileInv' /\ Frame
<1>1. /\ launcher'[i] = l /\ \A k \in Ids : k # i => launcher'[k] = launcher[k]
      /\ launcher[i] = None /\ results'[i] = None
  BY DEF Starts, IInv, TypeOK, Started, FileInv, FileAt
<1>2. l.job \in JobsOf(l.at[2])
  <2>1. ex[e].k \in DOMAIN Plan[ex[e].at[2]]
    BY ExecAt DEF IInv, Sure, Middle
  <2> QED BY <2>1 DEF Starts, Job, JobsOf
<1>3. FileAt(launcher'[i], results'[i])
  BY <1>1, <1>2 DEF FileAt, Starts
<1>4. Touches(i) /\ i \notin Started
  BY <1>1 DEF Touches, Starts
<1> QED BY <1>3, <1>4, TouchOne DEF IInv

LEMMA FilesHold ==
  ASSUME IInv, FileInv, [Next]_vars
  PROVE  FileInv' /\ Frame
<1>1. ASSUME NEW e \in Executors, ExecNext(e) PROVE FileInv' /\ Frame
  <2>1. CASE Launch(e)
    <3>1. UNCHANGED <<mode, results>> /\ ex[e].pc = "launch"
      BY <2>1 DEF Launch
    <3>2. CASE UNCHANGED launcher
      BY <3>1, <3>2, FilesStay
    <3>3. CASE \E i \in Ids, y \in Executions, l \in Launchers : Starts(e, i, y, l)
      BY <3>1, <3>3, StartsFiles
    <3> QED BY <2>1, <3>2, <3>3, LaunchStarts
  <2>2. ASSUME NEW pc, NEW n, Cut(e, pc, n) PROVE FileInv' /\ Frame
    <3>1. PICK i \in Started : i = ex[e].id
      BY <2>2, ExecAt DEF Cut, IInv, Sure
    <3> QED BY <2>2, <3>1, ClientStops DEF Cut, IInv
  <2>3. CASE Unlink(e)
    <3>1. PICK i \in Ids : i = ex[e].held.id
      BY <2>3, ExecAt DEF Unlink, IInv, Sure, Artifacts
    <3> QED BY <2>3, <3>1, FileTaken DEF Unlink, IInv, World
  <2>4. ASSUME UNCHANGED <<mode, launcher, results>> PROVE FileInv' /\ Frame
    BY <2>4, FilesStay
  <2> QED BY <1>1, <2>1, <2>2, <2>3, <2>4
       DEF ExecNext, Start, MakeStage, OpenLedger, BeginJob, Returned, TimedOut, Interrupted,
           Validate, Copy, Rejected, Conclude, Fail, Finish, Crash, World
<1>2. ASSUME NEW i \in Ids, Exit(i) PROVE FileInv' /\ Frame
  <2>1. i \in Started /\ UNCHANGED <<mode, results>>
    BY <1>2 DEF Exit, Client, Started
  <2>2. PICK s \in {"ok", "failed"} : launcher' = [launcher EXCEPT ![i].state = s]
    BY <1>2 DEF Exit, Client
  <2> QED BY <2>1, <2>2, ClientStops DEF IInv
<1>3. ASSUME NEW i \in Ids, Tidy(i) PROVE FileInv' /\ Frame
  BY <1>3, FileTaken DEF Tidy, IInv
<1>4. CASE Move \/ UNCHANGED vars
  BY <1>4, FilesStay DEF Move, vars
<1> QED BY <1>1, <1>2, <1>3, <1>4, BeginWriteFiles, EndWriteFiles DEF Next, IInv

--------------------------------------------------------------------------------
(* The steps that change a record of the ledger. *)

\* Execution e becomes y, and its directory w.
Turns(e, y, w) == Wrote(e, y) /\ dir' = [dir EXCEPT ![ex[e].at] = w]

SameRecords(w, d) == w.jobs = d.jobs /\ w.receipt = d.receipt /\ w.artifacts = d.artifacts

LEMMA MakeStageTurns ==
  ASSUME TypeOK, ExecInv, NEW e \in Executors, MakeStage(e)
  PROVE  \/ Wrote(e, Idle) /\ UNCHANGED dir
         \/ \E y \in Executions, w \in Dirs :
              /\ Turns(e, y, w) /\ y.pc = "made" /\ y.at = ex[e].at
              /\ dir[ex[e].at].ledger = "absent" /\ w.ledger = "unwritten"
              /\ SameRecords(w, dir[ex[e].at])
<1>1. PICK p \in Places : p = ex[e].at /\ dir[p] \in Dirs
  BY ExecAt DEF MakeStage
<1>2. CASE dir[p].ledger # "absent"
  BY <1>1, <1>2 DEF MakeStage, Wrote
<1>3. CASE dir[p].ledger = "absent"
  <2>1. PICK w \in Dirs : /\ w = WithLedger(dir[p], "unwritten") /\ w.ledger = "unwritten"
                          /\ SameRecords(w, dir[p])
    BY <1>1, DirLedger DEF SameRecords
  <2>2. dir' = [dir EXCEPT ![p] = w]
    BY <1>1, <1>3, <2>1 DEF MakeStage, TypeOK, WithLedger
  <2>3. PICK y \in Executions : Wrote(e, y) /\ y.pc = "made" /\ y.at = ex[e].at
    <3>1. "made" \in Pcs /\ Go(e, "made")
      BY <1>1, <1>3 DEF Pcs, MakeStage
    <3> QED BY <3>1, GoWrites
  <2> QED BY <1>1, <1>3, <2>1, <2>2, <2>3 DEF Turns
<1> QED BY <1>2, <1>3

LEMMA OpenLedgerTurns ==
  ASSUME TypeOK, ExecInv, NEW e \in Executors, OpenLedger(e)
  PROVE  \E y \in Executions, w \in Dirs :
           /\ Turns(e, y, w) /\ y.pc = "next" /\ y.at = ex[e].at /\ y.k = 1
           /\ w.ledger = "running" /\ SameRecords(w, dir[ex[e].at])
<1>1. PICK p \in Places : p = ex[e].at /\ dir[p] \in Dirs /\ ex[e] \in Executions
  BY ExecAt DEF OpenLedger
<1>2. PICK w \in Dirs : /\ w = WithLedger(dir[p], "running") /\ w.ledger = "running"
                        /\ SameRecords(w, dir[p])
  BY <1>1, DirLedger DEF SameRecords
<1>3. dir' = [dir EXCEPT ![p] = w]
  BY <1>1, <1>2 DEF OpenLedger, TypeOK, WithLedger
<1>4. PICK y \in Executions : y = WithK(ex[e], "next", 1) /\ y.pc = "next" /\ y.at = p /\ y.k = 1
  <2>1. "next" \in Pcs /\ 1 \in Nat
    BY DEF Pcs
  <2> QED BY <1>1, <2>1, UpdateK
<1>5. Wrote(e, y)
  BY <1>4 DEF OpenLedger, Wrote, WithK
<1> QED BY <1>1, <1>2, <1>3, <1>4, <1>5 DEF Turns

LEMMA BeginJobTurns ==
  ASSUME TypeOK, ExecInv, NEW e \in Executors, BeginJob(e)
  PROVE  \/ Go(e, "failing") /\ UNCHANGED dir
         \/ \E y \in Executions, w \in Dirs :
              /\ Turns(e, y, w) /\ y.pc = "launch" /\ y.at = ex[e].at /\ y.k = ex[e].k
              /\ w.ledger = dir[ex[e].at].ledger
              /\ w.jobs = [dir[ex[e].at].jobs EXCEPT ![Job(e)] = "running"]
              /\ w.receipt = dir[ex[e].at].receipt /\ w.artifacts = dir[ex[e].at].artifacts
<1>1. PICK p \in Places : p = ex[e].at /\ dir[p] \in Dirs /\ ex[e] \in Executions
  BY ExecAt DEF BeginJob
<1>2. CASE /\ dir' = [dir EXCEPT ![ex[e].at].jobs[Job(e)] = "running"]
           /\ ex' = [ex EXCEPT ![e].pc = "launch", ![e].new = {}, ![e].held = None]
  <2>1. PICK j \in Jobs : j = Job(e)
    BY <1>1, PlanTypes DEF Job, BeginJob
  <2>2. PICK f \in [Jobs -> {"none", "running", "pass", "fail"}] : f = [dir[p].jobs EXCEPT ![j] = "running"]
    BY <1>1 DEF Dirs
  <2>3. PICK w \in Dirs : /\ w = [dir[p] EXCEPT !.jobs = f] /\ w.ledger = dir[p].ledger
                          /\ w.jobs = f /\ w.receipt = dir[p].receipt
                          /\ w.artifacts = dir[p].artifacts
    BY <1>1, DirJobs
  <2>4. dir' = [dir EXCEPT ![p] = w]
    BY <1>1, <1>2, <2>1, <2>2, <2>3 DEF TypeOK
  <2>5. PICK y \in Executions : /\ y = WithBoth(ex[e], "launch", {}, None)
                                /\ y.pc = "launch" /\ y.at = p /\ y.k = ex[e].k
    <3>1. "launch" \in Pcs /\ {} \in SUBSET Ids /\ None \in Artifacts \cup {None}
      BY DEF Pcs
    <3> QED BY <1>1, <3>1, UpdateBoth
  <2>6. Wrote(e, y)
    BY <1>2, <2>5 DEF Wrote, WithBoth
  <2>7. Turns(e, y, w)
    BY <1>1, <2>4, <2>6 DEF Turns
  <2>8. w.jobs = [dir[ex[e].at].jobs EXCEPT ![Job(e)] = "running"]
    BY <1>1, <2>1, <2>2, <2>3
  <2> QED BY <1>1, <2>3, <2>5, <2>7, <2>8
<1> QED BY <1>2 DEF BeginJob

LEMMA ConcludeTurns ==
  ASSUME TypeOK, ExecInv, NEW e \in Executors, Conclude(e)
  PROVE  \/ Go(e, "failing") /\ UNCHANGED dir
         \/ \E y \in Executions, w \in Dirs :
              /\ Turns(e, y, w) /\ y.pc = "next" /\ y.at = ex[e].at /\ y.k = ex[e].k + 1
              /\ w.ledger = dir[ex[e].at].ledger
              /\ w.jobs = [dir[ex[e].at].jobs EXCEPT ![Job(e)] = "pass"]
              /\ w.receipt = [dir[ex[e].at].receipt EXCEPT ![Job(e)] = ex[e].held]
              /\ w.artifacts = dir[ex[e].at].artifacts
<1>1. PICK p \in Places : p = ex[e].at /\ dir[p] \in Dirs /\ ex[e] \in Executions
  BY ExecAt DEF Conclude
<1>2. CASE /\ dir' = [dir EXCEPT ![ex[e].at] = [@ EXCEPT !.jobs[Job(e)] = "pass",
                                                      !.receipt[Job(e)] = ex[e].held]]
           /\ ex' = [ex EXCEPT ![e].pc = "next", ![e].k = @ + 1]
  <2>1. PICK j \in Jobs : j = Job(e)
    BY <1>1, ExecAt DEF Middle, Conclude
  <2>2. PICK f \in [Jobs -> {"none", "running", "pass", "fail"}] : f = [dir[p].jobs EXCEPT ![j] = "pass"]
    BY <1>1 DEF Dirs
  <2>3. PICK r \in [Jobs -> Artifacts \cup {None}] : r = [dir[p].receipt EXCEPT ![j] = ex[e].held]
    BY <1>1 DEF Dirs, Executions
  <2>4. PICK w \in Dirs : /\ w = WithRecords(dir[p], f, r) /\ w.ledger = dir[p].ledger
                          /\ w.jobs = f /\ w.receipt = r /\ w.artifacts = dir[p].artifacts
    BY <1>1, DirRecords
  <2>5. dir' = [dir EXCEPT ![p] = w]
    <3>1. dir' = [dir EXCEPT ![p] = PassRecord(dir[p], j, ex[e].held)]
      BY <1>1, <1>2, <2>1 DEF TypeOK, PassRecord
    <3>2. PassRecord(dir[p], j, ex[e].held) = WithRecords(dir[p], f, r)
      BY <1>1, <2>2, <2>3, RecordPath
    <3>3. PassRecord(dir[p], j, ex[e].held) = w
      BY <2>4, <3>2
    <3> QED BY <3>1, <3>3 DEF TypeOK
  <2>6. ex[e].k \in Nat /\ ex[e].k + 1 \in Nat
    BY <1>1 DEF Executions
  <2>7. PICK k \in Nat : k = ex[e].k + 1
    BY <2>6
  <2>8. PICK y \in Executions : y = WithK(ex[e], "next", k) /\ y.pc = "next" /\ y.at = p /\ y.k = k
    <3>1. "next" \in Pcs
      BY DEF Pcs
    <3> QED BY <1>1, <3>1, UpdateK
  <2>9. Wrote(e, y)
    BY <1>2, <2>7, <2>8 DEF Wrote, WithK
  <2>10. Turns(e, y, w)
    BY <1>1, <2>5, <2>9 DEF Turns
  <2>11. w.jobs = [dir[ex[e].at].jobs EXCEPT ![Job(e)] = "pass"]
    BY <1>1, <2>1, <2>2, <2>4
  <2>12. w.receipt = [dir[ex[e].at].receipt EXCEPT ![Job(e)] = ex[e].held]
    BY <1>1, <2>1, <2>3, <2>4
  <2>13. /\ y.pc = "next" /\ y.at = ex[e].at /\ y.k = ex[e].k + 1
         /\ w.ledger = dir[ex[e].at].ledger /\ w.artifacts = dir[ex[e].at].artifacts
    BY <1>1, <2>4, <2>7, <2>8
  <2> QED BY <2>10, <2>11, <2>12, <2>13
<1> QED BY <1>2 DEF Conclude

LEMMA FailTurns ==
  ASSUME TypeOK, ExecInv, NEW e \in Executors, Fail(e)
  PROVE  \E w \in Dirs :
           /\ Turns(e, Idle, w) /\ w.ledger = "fail" /\ w.artifacts = dir[ex[e].at].artifacts
           /\ \A j \in Jobs : dir[ex[e].at].jobs[j] # "running" =>
                w.jobs[j] = dir[ex[e].at].jobs[j] /\ w.receipt[j] = dir[ex[e].at].receipt[j]
           /\ \A j \in Jobs : dir[ex[e].at].jobs[j] = "running" => w.jobs[j] = "fail"
<1>1. PICK p \in Places : p = ex[e].at /\ dir[p] \in Dirs /\ ex[e] \in Executions
  BY ExecAt DEF Fail
<1>3. PICK f \in [Jobs -> {"none", "running", "pass", "fail"}] :
        f = [j \in Jobs |-> IF dir[p].jobs[j] = "running" THEN "fail" ELSE dir[p].jobs[j]]
  BY <1>1 DEF Dirs
<1>4. PICK r \in [Jobs -> Artifacts \cup {None}] :
        r = [j \in Jobs |-> IF dir[p].jobs[j] = "running" THEN ex[e].held ELSE dir[p].receipt[j]]
  BY <1>1 DEF Dirs, Executions
<1>5. PICK w \in Dirs : /\ w = WithFailure(dir[p], f, r) /\ w.ledger = "fail" /\ w.jobs = f
                        /\ w.receipt = r /\ w.artifacts = dir[p].artifacts
  BY <1>1, DirFails
<1>6. dir' = [dir EXCEPT ![p] = w]
  BY <1>1, <1>3, <1>4, <1>5 DEF Fail, TypeOK, WithFailure
<1>7. Wrote(e, Idle)
  BY DEF Fail, Wrote
<1>8. Turns(e, Idle, w)
  BY <1>1, <1>6, <1>7 DEF Turns
<1>9. ASSUME NEW j \in Jobs
      PROVE  /\ dir[p].jobs[j] # "running" =>
                  w.jobs[j] = dir[p].jobs[j] /\ w.receipt[j] = dir[p].receipt[j]
             /\ dir[p].jobs[j] = "running" => w.jobs[j] = "fail"
  BY <1>3, <1>4, <1>5
<1> QED BY <1>1, <1>5, <1>8, <1>9

LEMMA FinishTurns ==
  ASSUME TypeOK, ExecInv, NEW e \in Executors, Finish(e)
  PROVE  \E w \in Dirs :
           /\ Turns(e, Idle, w) /\ w.ledger = "pass" /\ SameRecords(w, dir[ex[e].at])
<1>1. PICK p \in Places : p = ex[e].at /\ dir[p] \in Dirs
  BY ExecAt DEF Finish
<1>2. PICK w \in Dirs : /\ w = WithLedger(dir[p], "pass") /\ w.ledger = "pass"
                        /\ SameRecords(w, dir[p])
  BY <1>1, DirLedger DEF SameRecords
<1>3. dir' = [dir EXCEPT ![p] = w] /\ Wrote(e, Idle)
  BY <1>1, <1>2 DEF Finish, TypeOK, WithLedger, Wrote
<1> QED BY <1>1, <1>2, <1>3 DEF Turns

--------------------------------------------------------------------------------
(* A stage passes job by job. *)

LEMMA LedgerStep ==
  ASSUME IInv, LedgerInv, NEW e \in Executors, NEW y \in Executions, Wrote(e, y), NEW p \in Places,
         \A q \in Places : q # p => dir'[q].ledger = dir[q].ledger /\ dir'[q].jobs = dir[q].jobs,
         \/ Owns(ex[e]) /\ ex[e].at = p
         \/ dir[p].ledger = "absent"
         \/ dir'[p].ledger = dir[p].ledger /\ dir'[p].jobs = dir[p].jobs,
         Owns(y) => y.at = p, Done(y, dir'[p]),
         dir'[p].ledger = "pass" => \A j \in JobsOf(p[2]) : dir'[p].jobs[j] = "pass"
  PROVE  LedgerInv'
<1>1. \A f \in Executors : ex'[f] = IF f = e THEN y ELSE ex[f]
  BY DEF Wrote, IInv, TypeOK
<1>2. ASSUME NEW f \in Executors PROVE Done(ex'[f], dir'[ex'[f].at])
  <2>1. CASE f = e
    BY <1>1, <2>1 DEF Done
  <2>2. CASE f # e /\ ~Owns(ex[f])
    BY <1>1, <2>2 DEF Done
  <2>3. CASE f # e /\ Owns(ex[f])
    <3>1. ex[f].at \in Places /\ ex'[f] = ex[f] /\ Done(ex[f], dir[ex[f].at])
      BY <1>1, <2>3, ExecAt DEF Owns, IInv, LedgerInv
    <3>2. dir[ex[f].at].ledger # "absent" /\ (Owns(ex[e]) => ex[e].at # ex[f].at)
      BY <2>3 DEF IInv, ClaimInv
    <3>3. dir'[ex[f].at].ledger = dir[ex[f].at].ledger /\ dir'[ex[f].at].jobs = dir[ex[f].at].jobs
      BY <3>1, <3>2
    <3> QED BY <3>1, <3>3 DEF Done
  <2> QED BY <2>1, <2>2, <2>3
<1>3. ASSUME NEW q \in Places, dir'[q].ledger = "pass"
      PROVE  \A j \in JobsOf(q[2]) : dir'[q].jobs[j] = "pass"
  <2>1. CASE q = p
    BY <1>3, <2>1
  <2>2. CASE q # p
    BY <1>3, <2>2 DEF LedgerInv, Passed
  <2> QED BY <2>1, <2>2
<1> QED BY <1>2, <1>3 DEF LedgerInv, Passed

\* Where no record of a ledger changes: e goes, or stays at its job.
LEMMA LedgerStays ==
  ASSUME IInv, LedgerInv, NEW e \in Executors, NEW y \in Executions, Wrote(e, y), SameLedgers,
         \/ ~Owns(y)
         \/ /\ ex[e].pc \in Middle \cup {"next"} /\ y.pc \in Middle
            /\ y.at = ex[e].at /\ y.k = ex[e].k
  PROVE  LedgerInv'
<1>1. CASE ~Owns(y)
  <2>1. \A f \in Executors : ex'[f] = IF f = e THEN y ELSE ex[f]
    BY DEF Wrote, IInv, TypeOK
  <2>2. ASSUME NEW f \in Executors PROVE Done(ex'[f], dir'[ex'[f].at])
    <3>1. CASE f = e \/ ~Owns(ex[f])
      BY <1>1, <2>1, <3>1 DEF Done
    <3>2. CASE f # e /\ Owns(ex[f])
      <4>1. ex[f].at \in Places /\ ex'[f] = ex[f] /\ Done(ex[f], dir[ex[f].at])
        BY <2>1, <3>2, ExecAt DEF Owns, IInv, LedgerInv
      <4> QED BY <4>1 DEF Done, SameLedgers
    <3> QED BY <3>1, <3>2
  <2>3. \A q \in Places : dir'[q].ledger = "pass" => \A j \in JobsOf(q[2]) : dir'[q].jobs[j] = "pass"
    BY DEF LedgerInv, Passed, SameLedgers
  <2> QED BY <2>2, <2>3 DEF LedgerInv, Passed
<1>2. CASE /\ ex[e].pc \in Middle \cup {"next"} /\ y.pc \in Middle
           /\ y.at = ex[e].at /\ y.k = ex[e].k
  <2>1. PICK p \in Places : p = ex[e].at
    BY <1>2, ExecAt DEF IInv, Middle
  <2>2. Done(ex[e], dir[p]) /\ Owns(ex[e])
    BY <1>2, <2>1 DEF LedgerInv, Owns, Middle
  <2>3. Done(y, dir'[p])
    BY <1>2, <2>2 DEF Done, SameLedgers, Middle
  <2>4. dir'[p].ledger = "pass" => \A j \in JobsOf(p[2]) : dir'[p].jobs[j] = "pass"
    BY DEF LedgerInv, Passed, SameLedgers
  <2> QED BY <1>2, <2>1, <2>2, <2>3, <2>4, LedgerStep DEF SameLedgers
<1> QED BY <1>1, <1>2

LEMMA LedgerGoes ==
  ASSUME IInv, LedgerInv, NEW e \in Executors, Goes(e), SameLedgers,
         ex[e].pc \in Middle \cup {"next"}
  PROVE  LedgerInv'
  BY LedgerStays DEF Goes

\* Where the directory of e becomes w.
LEMMA LedgerTurns ==
  ASSUME IInv, LedgerInv, NEW e \in Executors, NEW y \in Executions, NEW w \in Dirs,
         Turns(e, y, w), ex[e].pc # "idle", Owns(y) => y.at = ex[e].at,
         Owns(ex[e]) \/ dir[ex[e].at].ledger = "absent", Done(y, w),
         w.ledger = "pass" => \A j \in JobsOf(ex[e].at[2]) : w.jobs[j] = "pass"
  PROVE  LedgerInv'
<1>1. PICK p \in Places : p = ex[e].at
  BY ExecAt DEF IInv
<1>2. dir'[p] = w /\ \A q \in Places : q # p => dir'[q] = dir[q]
  BY <1>1 DEF Turns, IInv, TypeOK
<1> QED BY <1>1, <1>2, LedgerStep DEF Turns

\* The jobs of a plan are those before k, the one at k, and those after it.
LEMMA PlanOrder ==
  ASSUME NEW p \in Places, NEW k \in DOMAIN Plan[p[2]]
  PROVE  /\ k \in Nat /\ Plan[p[2]][k] \in Jobs
         /\ \A n \in DOMAIN Plan[p[2]] : /\ n \in Nat /\ Plan[p[2]][n] \in Jobs
                                         /\ n # k => Plan[p[2]][n] # Plan[p[2]][k]
  BY PlanTypes, PlanAssumption

\* What is past stays past when the record of the job at hand changes.
LEMMA RecordDone ==
  ASSUME IInv, LedgerInv, NEW e \in Executors, ex[e].pc = "next" \/ ex[e].pc \in Middle,
         ex[e].k \in DOMAIN Plan[ex[e].at[2]], NEW s \in {"running", "pass"}, NEW w \in Dirs,
         w.ledger = dir[ex[e].at].ledger, w.jobs = [dir[ex[e].at].jobs EXCEPT ![Job(e)] = s]
  PROVE  /\ w.ledger \in {"unwritten", "running"} /\ ex[e].k >= 1 /\ ex[e].k \in Nat
         /\ \A n \in DOMAIN Plan[ex[e].at[2]] :
              /\ n < ex[e].k => w.jobs[Plan[ex[e].at[2]][n]] = "pass"
              /\ n = ex[e].k => w.jobs[Plan[ex[e].at[2]][n]] = s
<1>1. PICK p \in Places : p = ex[e].at /\ dir[p] \in Dirs
  BY ExecAt DEF IInv, Middle
<1>2. PICK k \in DOMAIN Plan[p[2]] : k = ex[e].k /\ k \in Nat
  BY <1>1, PlanOrder
<1>3. Done(ex[e], dir[p]) /\ Owns(ex[e]) /\ ex[e].pc # "made"
  BY <1>1 DEF LedgerInv, Owns, Middle
<1>4. /\ dir[p].ledger \in {"unwritten", "running"} /\ k >= 1
      /\ \A n \in DOMAIN Plan[p[2]] : n < k => dir[p].jobs[Plan[p[2]][n]] = "pass"
  BY <1>1, <1>2, <1>3 DEF Done
<1>5. PICK j \in Jobs : j = Plan[p[2]][k] /\ j = Job(e)
  BY <1>1, <1>2, PlanTypes DEF Job
<1>6. w.jobs = [dir[p].jobs EXCEPT ![j] = s] /\ dir[p].jobs \in [Jobs -> {"none", "running", "pass", "fail"}]
  BY <1>1, <1>5 DEF Dirs
<1>7. ASSUME NEW n \in DOMAIN Plan[p[2]]
      PROVE  /\ n < k => w.jobs[Plan[p[2]][n]] = "pass"
             /\ n = k => w.jobs[Plan[p[2]][n]] = s
  <2>0. n \in Nat /\ Plan[p[2]][n] \in Jobs /\ (n # k => Plan[p[2]][n] # Plan[p[2]][k])
    BY PlanOrder
  <2>1. n # k => Plan[p[2]][n] # j
    BY <1>5, <2>0
  <2>2. CASE n = k
    <3>0. ~(n < k)
      BY <1>2, <2>0, <2>2
    <3>1. Plan[p[2]][n] = j
      BY <1>5, <2>2
    <3>2. w.jobs[j] = s
      BY <1>6
    <3> QED BY <3>0, <3>1, <3>2
  <2>3. CASE n # k
    BY <1>2, <1>4, <1>6, <2>0, <2>1, <2>3
  <2> QED BY <2>2, <2>3
<1> QED BY <1>1, <1>2, <1>4, <1>7

LEMMA BeginJobLedger ==
  ASSUME IInv, LedgerInv, NEW e \in Executors, BeginJob(e)
  PROVE  LedgerInv'
<1>1. ex[e].pc = "next" /\ ex[e].k \in DOMAIN Plan[ex[e].at[2]]
  BY DEF BeginJob
<1>2. CASE Go(e, "failing") /\ UNCHANGED dir
  BY <1>1, <1>2, MovesOn, SameKept, LedgerGoes DEF IInv, Middle
<1>3. ASSUME NEW y \in Executions, NEW w \in Dirs, Turns(e, y, w), y.pc = "launch",
             y.at = ex[e].at, y.k = ex[e].k, w.ledger = dir[ex[e].at].ledger,
             w.jobs = [dir[ex[e].at].jobs EXCEPT ![Job(e)] = "running"]
      PROVE  LedgerInv'
  <2>1. /\ w.ledger \in {"unwritten", "running"} /\ ex[e].k >= 1
        /\ \A n \in DOMAIN Plan[ex[e].at[2]] : n < ex[e].k => w.jobs[Plan[ex[e].at[2]][n]] = "pass"
    BY <1>1, <1>3, RecordDone
  <2>2. Done(y, w) /\ Owns(ex[e]) /\ ex[e].pc # "idle"
    BY <1>1, <1>3, <2>1 DEF Done, Owns
  <2> QED BY <1>3, <2>1, <2>2, LedgerTurns
<1> QED BY <1>2, <1>3, BeginJobTurns DEF IInv

LEMMA ConcludeLedger ==
  ASSUME IInv, LedgerInv, NEW e \in Executors, Conclude(e)
  PROVE  LedgerInv'
<1>1. ex[e].pc = "conclude" /\ ex[e].pc \in Middle /\ ex[e].k \in DOMAIN Plan[ex[e].at[2]]
  BY ExecAt DEF Conclude, IInv, Sure, Middle
<1>2. CASE Go(e, "failing") /\ UNCHANGED dir
  BY <1>1, <1>2, MovesOn, SameKept, LedgerGoes DEF IInv, Middle
<1>3. ASSUME NEW y \in Executions, NEW w \in Dirs, Turns(e, y, w), y.pc = "next",
             y.at = ex[e].at, y.k = ex[e].k + 1, w.ledger = dir[ex[e].at].ledger,
             w.jobs = [dir[ex[e].at].jobs EXCEPT ![Job(e)] = "pass"]
      PROVE  LedgerInv'
  <2>1. /\ w.ledger \in {"unwritten", "running"} /\ ex[e].k >= 1 /\ ex[e].k \in Nat
        /\ \A n \in DOMAIN Plan[ex[e].at[2]] :
             /\ n < ex[e].k => w.jobs[Plan[ex[e].at[2]][n]] = "pass"
             /\ n = ex[e].k => w.jobs[Plan[ex[e].at[2]][n]] = "pass"
    BY <1>1, <1>3, RecordDone
  <2>2. \A n \in DOMAIN Plan[ex[e].at[2]] : n \in Nat
    <3>1. ex[e].at \in Places
      BY <1>1, ExecAt DEF IInv
    <3> QED BY <1>1, <3>1, PlanOrder
  <2>3. \A n \in DOMAIN Plan[ex[e].at[2]] : n < y.k => w.jobs[Plan[ex[e].at[2]][n]] = "pass"
    BY <1>3, <2>1, <2>2
  <2>a. y.k >= 1
    BY <1>3, <2>1
  <2>b. Done(y, w)
    BY <1>3, <2>1, <2>3, <2>a DEF Done
  <2>4. Owns(ex[e]) /\ ex[e].pc # "idle"
    BY <1>1 DEF Owns
  <2> QED BY <1>3, <2>1, <2>4, <2>b, LedgerTurns
<1> QED BY <1>2, <1>3, ConcludeTurns DEF IInv

LEMMA FinishLedger ==
  ASSUME IInv, LedgerInv, NEW e \in Executors, Finish(e)
  PROVE  LedgerInv'
<1>1. PICK w \in Dirs : /\ Turns(e, Idle, w) /\ w.ledger = "pass" /\ w.jobs = dir[ex[e].at].jobs
  BY FinishTurns DEF IInv, SameRecords
<1>2. PICK p \in Places : p = ex[e].at
  BY ExecAt DEF IInv, Finish
<1>3. Done(ex[e], dir[p]) /\ Owns(ex[e]) /\ ex[e].pc = "next" /\ ex[e].k \notin DOMAIN Plan[p[2]]
  BY <1>2 DEF LedgerInv, Owns, Finish
<1>4. ex[e].k \in Nat /\ ex[e].k >= 1
  BY <1>3, ExecAt DEF Done, IInv, Executions
<1>5. Plan[p[2]] \in Seq(Jobs)
  BY PlanTypes, PlanAssumption
<1>6. \A n \in DOMAIN Plan[p[2]] : n < ex[e].k
  BY <1>3, <1>4, <1>5
<1>7. \A j \in JobsOf(p[2]) : w.jobs[j] = "pass"
  BY <1>1, <1>2, <1>3, <1>6 DEF Done, JobsOf
<1>8. PICK y \in Executions : y = Idle /\ ~Owns(y) /\ Done(y, w)
  BY IdleType DEF Idle, Owns, Done
<1> QED BY <1>1, <1>2, <1>3, <1>7, <1>8, LedgerTurns

LEMMA FailLedger ==
  ASSUME IInv, LedgerInv, NEW e \in Executors, Fail(e)
  PROVE  LedgerInv'
<1>1. PICK w \in Dirs : Turns(e, Idle, w) /\ w.ledger = "fail"
  BY FailTurns DEF IInv
<1>2. Owns(ex[e]) /\ ex[e].pc # "idle"
  BY DEF Owns, Fail
<1>3. PICK y \in Executions : y = Idle /\ ~Owns(y) /\ Done(y, w)
  BY IdleType DEF Idle, Owns, Done
<1> QED BY <1>1, <1>2, <1>3, LedgerTurns

LEMMA IdleLedger ==
  ASSUME IInv, LedgerInv, NEW e \in Executors, Wrote(e, Idle), UNCHANGED dir
  PROVE  LedgerInv'
<1>1. PICK y \in Executions : y = Idle /\ ~Owns(y)
  BY IdleType DEF Idle, Owns
<1> QED BY <1>1, LedgerStays, SameKept DEF IInv

LEMMA ExecLedger ==
  ASSUME IInv, LedgerInv, NEW e \in Executors, ExecNext(e)
  PROVE  LedgerInv'
<1>1. ASSUME NEW root \in Roots, NEW stage \in Stages, Start(e, root, stage) PROVE LedgerInv'
  <2>1. PICK p \in Places : p = <<root, stage>>
    BY DEF Places
  <2>2. PICK y \in Executions : y = [Idle EXCEPT !.pc = "ready", !.at = p] /\ ~Owns(y)
    BY IdleType DEF Idle, Owns
  <2>3. Wrote(e, y) /\ UNCHANGED dir
    BY <1>1, <2>1, <2>2 DEF Start, Wrote
  <2> QED BY <2>2, <2>3, LedgerStays, SameKept DEF IInv
<1>2. CASE MakeStage(e)
  <2>1. CASE Wrote(e, Idle) /\ UNCHANGED dir
    BY <2>1, IdleLedger
  <2>2. ASSUME NEW y \in Executions, NEW w \in Dirs, Turns(e, y, w), y.pc = "made",
               y.at = ex[e].at, dir[ex[e].at].ledger = "absent", w.ledger = "unwritten"
        PROVE  LedgerInv'
    <3>1. Done(y, w) /\ ex[e].pc # "idle"
      BY <1>2, <2>2 DEF Done, MakeStage
    <3> QED BY <2>2, <3>1, LedgerTurns
  <2> QED BY <1>2, <2>1, <2>2, MakeStageTurns DEF IInv
<1>3. CASE OpenLedger(e)
  <2>1. PICK y \in Executions, w \in Dirs :
          Turns(e, y, w) /\ y.pc = "next" /\ y.at = ex[e].at /\ y.k = 1 /\ w.ledger = "running"
    BY <1>3, OpenLedgerTurns DEF IInv
  <2>2. ex[e].at \in Places /\ Owns(ex[e]) /\ ex[e].pc # "idle"
    BY <1>3, ExecAt DEF IInv, OpenLedger, Owns
  <2>3. \A n \in DOMAIN Plan[ex[e].at[2]] : ~(n < 1)
    <3>1. Plan[ex[e].at[2]] \in Seq(Jobs)
      BY <2>2, PlanTypes, PlanAssumption
    <3> QED BY <3>1
  <2>4. Done(y, w)
    BY <2>1, <2>3 DEF Done
  <2> QED BY <2>1, <2>2, <2>4, LedgerTurns
<1>4. CASE Launch(e)
  <2>1. ex[e].pc \in Middle /\ SameLedgers
    BY <1>4, SameKept DEF Launch, IInv, Middle
  <2>2. CASE Go(e, "failing")
    BY <2>1, <2>2, MovesOn, LedgerGoes DEF IInv, Middle
  <2>3. ASSUME NEW i \in Ids, NEW y \in Executions, NEW l \in Launchers, Starts(e, i, y, l)
        PROVE  LedgerInv'
    <3>1. Wrote(e, y) /\ y.pc \in Middle /\ y.at = ex[e].at /\ y.k = ex[e].k
      BY <2>3 DEF Starts, Middle
    <3> QED BY <2>1, <3>1, LedgerStays
  <2> QED BY <1>4, <2>2, <2>3, LaunchStarts
<1>5. CASE Returned(e)
  BY <1>5, ReturnedGoes, LedgerGoes DEF Returned, IInv, Middle
<1>6. ASSUME NEW pc \in {"reject", "failing"}, NEW n \in SUBSET Ids, Cut(e, pc, n) PROVE LedgerInv'
  <2>1. Goes(e) /\ SameLedgers /\ ex[e].pc \in Middle
    BY <1>6, CutGoes DEF Cut, IInv, Middle
  <2> QED BY <2>1, LedgerGoes
<1>7. CASE TimedOut(e)
  <2>1. PICK n \in SUBSET Ids : n = New(e)
    BY DEF New, Matching, Present
  <2> QED BY <1>6, <1>7, <2>1 DEF TimedOut
<1>8. CASE Interrupted(e)
  <2>1. PICK n \in SUBSET Ids : n = {}
    OBVIOUS
  <2> QED BY <1>6, <1>8, <2>1 DEF Interrupted
<1>9. CASE Validate(e)
  <2>1. /\ Go(e, "custody") \/ Go(e, "reject")
        /\ ex[e].pc \in Middle /\ UNCHANGED dir
    BY <1>9 DEF Validate, Middle
  <2> QED BY <2>1, MovesOn, SameKept, LedgerGoes DEF IInv, Middle
<1>10. CASE Copy(e)
  BY <1>10, CopyGoes, LedgerGoes DEF Copy, IInv, Middle
<1>11. CASE Unlink(e)
  BY <1>11, UnlinkGoes, LedgerGoes DEF Unlink, IInv, Middle
<1>12. CASE Rejected(e)
  BY <1>12, MovesOn, SameKept, LedgerGoes DEF Rejected, IInv, Middle
<1>13. CASE Crash(e)
  BY <1>13, IdleLedger DEF Crash, Wrote
<1> QED BY <1>1, <1>2, <1>3, <1>4, <1>5, <1>7, <1>8, <1>9, <1>10, <1>11, <1>12, <1>13,
           BeginJobLedger, ConcludeLedger, FailLedger, FinishLedger DEF ExecNext

LEMMA LedgerHolds == IInv /\ LedgerInv /\ [Next]_vars => LedgerInv'
<1> SUFFICES ASSUME IInv, LedgerInv, [Next]_vars PROVE LedgerInv'
  OBVIOUS
<1>1. ASSUME UNCHANGED <<ex, dir>> PROVE LedgerInv'
  BY <1>1 DEF LedgerInv, Passed, Done
<1> QED BY <1>1, ExecLedger
     DEF Next, BeginWrite, EndWrite, Exit, Client, Tidy, Move, vars

--------------------------------------------------------------------------------
(* What validation shows of an artifact, and how long it stays true. *)

LEMMA ReadableOnly == None \notin Contents /\ Unreadable # None
  BY NoneAssumption DEF Contents

LEMMA ValidShows ==
  ASSUME NEW a \in Artifacts, NEW stage \in Stages, NEW j \in Collected, Valid(a, stage, j)
  PROVE  /\ a.content \in Reports /\ a.content # Unreadable
         /\ a.content.head = "sealed" /\ a.content.records # <<>>
         /\ \A k \in DOMAIN a.content.records :
              a.content.records[k].holds \cap {"refusals", "attacks"} # {}
<1>1. j \in Experiments /\ Planned[stage][j] \in Steps
  BY PlanAssumption, ConfigAssumption DEF Configured
<1>2. Accepts(a.content, j, Planned[stage][j])
  BY DEF Valid
<1>3. a.content # Unreadable
  BY <1>1, <1>2 DEF Accepts, Unreadable, Experiments, Single
<1>4. a.content \in Reports
  BY <1>3 DEF Artifacts, Contents
<1> QED BY <1>1, <1>2, <1>3, <1>4, AcceptedShowsRefusals

\* Each validator but Cargo's asks for the size that was planned.
LEMMA PlannedSize ==
  ASSUME NEW report \in Reports, NEW j \in Experiments, NEW step \in Steps,
         Accepts(report, j, step), j # CargoJob
  PROVE  \A k \in DOMAIN report.records : report.records[k].config.size = step.options.size
<1>0. step.options \in Options /\ step.options.size \in Sizes
  BY DEF Steps, Options
<1>1. PICK o \in Options : o = step.options /\ o.size \in Sizes
  BY <1>0
<1>2. \A size, seeds, ratios, designs : Config(size, seeds, ratios, designs).size = size
  BY DEF Config
<1>3. PICK configs : RanAs(report.records, configs) /\ \A c \in configs : c.size = o.size
  <2>1. CASE j = "dense-ffn-cotenancy" /\ Dense(report, o)
    <3>1. ASSUME NEW c \in DenseConfigs(o) PROVE c.size = o.size
      <4>1. PICK n, r : c = Config(o.size, {n}, {r}, {})
        BY DEF DenseConfigs
      <4> QED BY <1>2, <4>1
    <3> QED BY <2>1, <3>1 DEF Dense
  <2>2. CASE j = "private-transformer-lanes" /\ Private(report, o)
    <3>1. ASSUME NEW c \in PrivateConfigs(o) PROVE c.size = o.size
      <4>1. PICK n, d : c = Config(o.size, {n}, {4}, {d})
        BY DEF PrivateConfigs
      <4> QED BY <1>2, <4>1
    <3> QED BY <2>2, <3>1 DEF Private
  <2>3. CASE j = "public-gate-adaptation-factorial" /\ Factorial(report, o)
    <3>1. ASSUME NEW c \in FactorialConfigs(o) PROVE c.size = o.size
      <4>1. PICK n : c = Config(o.size, {n}, {8}, {})
        BY <1>1 DEF FactorialConfigs, Sizes
      <4> QED BY <1>2, <4>1
    <3> QED BY <2>3, <3>1 DEF Factorial
  <2>4. CASE j = "runtime-orthogonal-superposition" /\ Orthogonal(report, o)
    <3>1. \A c \in {OrthogonalConfig(o)} : c.size = o.size
      BY <1>2 DEF OrthogonalConfig
    <3> QED BY <2>4, <3>1 DEF Orthogonal
  <2>5. CASE j = "generative-intermediate" /\ Generative(report, o)
    <3>1. ASSUME NEW c \in GenerativeConfigs(o) PROVE c.size = o.size
      <4>1. PICK n : c = Config(o.size, {n}, Range(o.ratios), {})
        BY DEF GenerativeConfigs
      <4> QED BY <1>2, <4>1
    <3> QED BY <2>5, <3>1 DEF Generative
  <2>6. CASE j = "distilbert-service-consolidation" /\ Service(report, o)
    <3>1. \A c \in {ServiceConfig(o)} : c.size = o.size
      BY <1>2 DEF ServiceConfig
    <3> QED BY <2>6, <3>1 DEF Service
  <2>7. Validated(report, j, o)
    BY <1>1 DEF Accepts
  <2> QED BY <2>1, <2>2, <2>3, <2>4, <2>5, <2>6, <2>7 DEF Validated, CargoJob
<1>4. \A k \in DOMAIN report.records : report.records[k].config \in configs
  BY <1>3 DEF RanAs
<1> QED BY <1>1, <1>3, <1>4

\* An artifact that is valid for a stage was written by a launcher of that stage, and
\* from the checkout that it shows.
LEMMA Origin ==
  ASSUME IInv, FileInv, NEW i \in Started, results[i] # None, NEW stage \in Stages,
         NEW j \in Collected, j \in JobsOf(stage), launcher[i].job = j,
         Valid([id |-> i, content |-> results[i]], stage, j)
  PROVE  launcher[i].at[2] = stage /\ launcher[i].head = "sealed"
<1>1. PICK a \in Artifacts : a = [id |-> i, content |-> results[i]] /\ a.content = results[i]
  BY DEF Artifacts, Started, IInv, TypeOK
<1>2. /\ a.content \in Reports /\ a.content # Unreadable
      /\ a.content.head = "sealed" /\ a.content.records # <<>>
  BY <1>1, ValidShows
<1>3. launcher[i] \in Launchers /\ launcher[i] # None /\ FileAt(launcher[i], results[i])
  BY DEF Started, IInv, TypeOK, FileInv
<1>4. launcher[i].at[2] \in Stages /\ launcher[i].head \in {"sealed", "other"}
  BY <1>3 DEF Launchers, Places
<1>5. /\ WrittenBy(launcher[i], a.content) /\ j \in JobsOf(launcher[i].at[2])
  BY <1>1, <1>2, <1>3 DEF FileAt
<1>6. PICK s \in Stages, h \in {"sealed", "other"} : s = launcher[i].at[2] /\ h = launcher[i].head
  BY <1>4
<1>7. PICK report \in Outcomes[s][j] : a.content = Named(report, h)
  BY <1>5, <1>6 DEF WrittenBy
<1>8. report \in Reports
  BY <1>7, OutcomeAssumption
<1>9. a.content.head = h /\ a.content.records = report.records
  BY <1>7, <1>8 DEF Named, Reports
<1>10. s = stage
  <2>1. CASE j = CargoJob
    <3>1. s # "canary" /\ stage # "canary"
      BY <1>5, <1>6, <2>1, StageAssumption DEF JobsOf
    <3> QED BY <3>1 DEF Stages
  <2>2. CASE j # CargoJob
    <3>1. j \in Experiments /\ Planned[stage][j] \in Steps
      BY PlanAssumption, ConfigAssumption DEF Configured
    <3>2. Accepts(a.content, j, Planned[stage][j])
      BY <1>1 DEF Valid
    <3>3. \A k \in DOMAIN a.content.records :
            a.content.records[k].config.size = Planned[stage][j].options.size
      BY <1>2, <2>2, <3>1, <3>2, PlannedSize
    <3>4. \A k \in DOMAIN report.records :
            report.records[k].config.size = Planned[s][j].options.size
      BY <1>7, <2>2, StageAssumption
    <3>5. PICK k \in DOMAIN a.content.records : TRUE
      <4>1. PICK shown \in Seq(Records) : shown = a.content.records /\ shown # <<>>
        BY <1>2 DEF Reports
      <4>2. 1 \in DOMAIN shown
        BY <4>1
      <4> QED BY <4>1, <4>2
    <3>6. Planned[stage][j].options.size = Planned[s][j].options.size
      BY <1>9, <3>3, <3>4, <3>5
    <3> QED BY <2>2, <3>6, StageAssumption DEF Stages
  <2> QED BY <2>1, <2>2
<1> QED BY <1>2, <1>6, <1>9, <1>10

LEMMA EvidenceStays ==
  ASSUME Frame, NEW a, NEW p, NEW j, Evidence(a, p, j)
  PROVE  Evidence(a, p, j)'
<1>1. a.id \in Started /\ FrameAt(a.id) /\ UNCHANGED mode
  BY DEF Evidence, Frame
<1> QED BY <1>1 DEF Evidence, Comes, FrameAt, Alone

LEMMA ComesStays ==
  ASSUME Frame, NEW i \in Started, NEW p, NEW j, Comes(i, p, j)
  PROVE  i \in Started' /\ Comes(i, p, j)'
<1>1. FrameAt(i) /\ UNCHANGED mode
  BY DEF Frame
<1> QED BY <1>1 DEF Comes, FrameAt, Alone

LEMMA TakenStays ==
  ASSUME Frame, NEW i \in Started, launcher[i].state # "running", results[i] = None
  PROVE  results'[i] = None
<1>1. FrameAt(i)
  BY DEF Frame
<1> QED BY <1>1, ReadableOnly DEF FrameAt

\* Custody keeps what it has.
Grows == \A p \in Places : dir[p].artifacts \subseteq dir'[p].artifacts

LEMMA RestsStays ==
  ASSUME Frame, Grows, NEW a, NEW p \in Places, NEW j, Rests(a, p, j)
  PROVE  Rests(a, p, j)'
<1>1. Evidence(a, p, j) /\ a \in dir[p].artifacts /\ results[a.id] = None
  BY DEF Rests
<1>2. Evidence(a, p, j)'
  BY <1>1, EvidenceStays
<1>3. results'[a.id] = None
  BY <1>1, TakenStays DEF Evidence, Comes
<1>4. a \in dir'[p].artifacts
  BY <1>1 DEF Grows
<1> QED BY <1>2, <1>3, <1>4 DEF Rests

LEMMA JudgedStays ==
  ASSUME IInv, FileInv, Frame, Grows, NEW x \in Executions, x.pc # "idle" => x.at \in Places,
         Judged(x)
  PROVE  Judged(x)'
<1>1. ASSUME x.pc \in {"validate", "custody"}
      PROVE  JobAt(x) \in Collected /\ \E i \in Started' : x.new = {i} /\ Comes(i, x.at, JobAt(x))'
  <2>1. PICK i \in Started : x.new = {i} /\ Comes(i, x.at, JobAt(x))
    BY <1>1 DEF Judged
  <2>2. i \in Started' /\ Comes(i, x.at, JobAt(x))'
    BY <2>1, ComesStays
  <2> QED BY <1>1, <2>1, <2>2 DEF Judged
<1>2. ASSUME x.pc = "custody", NEW n \in x.new, results'[n] # None
      PROVE  Valid([id |-> n, content |-> results'[n]], x.at[2], JobAt(x))
  <2>1. PICK i \in Started : n = i /\ Comes(i, x.at, JobAt(x))
    BY <1>2 DEF Judged
  <2>2. FrameAt(i) /\ launcher[i].state # "running"
    BY <2>1 DEF Frame, Comes
  <2>3. CASE results'[i] = results[i]
    BY <1>2, <2>1, <2>3 DEF Judged
  <2>4. CASE results[i] = Unreadable
    <3>1. Valid([id |-> i, content |-> results[i]], x.at[2], JobAt(x)) /\ JobAt(x) \in Collected
      BY <1>2, <2>1, <2>4, ReadableOnly DEF Judged
    <3>0. results[i] \in Contents /\ i \in Ids
      BY <2>4 DEF Started, Contents
    <3>a. [id |-> i, content |-> results[i]] \in Artifacts
      BY <3>0 DEF Artifacts
    <3>2. PICK a \in Artifacts : a = [id |-> i, content |-> results[i]] /\ a.content = results[i]
      BY <3>a
    <3>3. x.at[2] \in Stages
      BY <1>2, PlanTypes
    <3> QED BY <2>4, <3>1, <3>2, <3>3, ValidShows
  <2> QED BY <1>2, <2>1, <2>2, <2>3, <2>4 DEF FrameAt
<1>3. ASSUME x.pc = "unlink"
      PROVE  /\ JobAt(x) \in Collected
             /\ Evidence(x.held, x.at, JobAt(x))' /\ x.held \in dir'[x.at].artifacts
  <2>1. /\ JobAt(x) \in Collected /\ x.at \in Places
        /\ Evidence(x.held, x.at, JobAt(x)) /\ x.held \in dir[x.at].artifacts
    BY <1>3 DEF Judged
  <2> QED BY <2>1, EvidenceStays DEF Grows
<1>4. ASSUME Concludes(x) PROVE Rests(x.held, x.at, JobAt(x))'
  <2>1. Rests(x.held, x.at, JobAt(x)) /\ x.at \in Places
    BY <1>4 DEF Judged, Concludes
  <2> QED BY <2>1, RestsStays
<1> QED BY <1>1, <1>2, <1>3, <1>4 DEF Judged, Concludes

--------------------------------------------------------------------------------
(* What a step of an execution does to the evidence. *)

\* No job is newly recorded as passed but the one that e concludes, with what e holds.
PassesOnly(e) ==
  \A q \in Places, j \in Collected : Passed(q, j)' =>
    \/ Passed(q, j) /\ dir'[q].receipt[j] = dir[q].receipt[j]
    \/ /\ ex[e].pc = "conclude" /\ q = ex[e].at /\ j = JobAt(ex[e])
       /\ dir'[q].receipt[j] = ex[e].held

\* What y takes is nobody's.
Fresh(e, y) ==
  /\ \A f \in Executors \ {e} : Concludes(ex[f]) => ex[f].held.id # y.held.id
  /\ \A q \in Places, j \in Collected : Passed(q, j) => dir[q].receipt[j].id # y.held.id

EIn == FileInv /\ JudgedInv /\ HeldInv /\ PassInv

LEMMA PassStep ==
  ASSUME IInv, EIn, Frame, Grows, NEW e \in Executors, PassesOnly(e)
  PROVE  PassInv'
<1>0. ASSUME ex[e].pc = "conclude", JobAt(ex[e]) \in Collected
      PROVE  Concludes(ex[e]) /\ Rests(ex[e].held, ex[e].at, JobAt(ex[e]))
  BY <1>0 DEF Concludes, EIn, JudgedInv, Judged
<1>1. ASSUME NEW p \in Places, NEW j \in Collected, Passed(p, j)'
      PROVE  Rests(dir[p].receipt[j], p, j)'
  <2>1. PICK a : a = dir'[p].receipt[j]
    OBVIOUS
  <2>2. Rests(a, p, j)
    <3>1. CASE Passed(p, j) /\ dir'[p].receipt[j] = dir[p].receipt[j]
      BY <2>1, <3>1 DEF EIn, PassInv
    <3>2. CASE /\ ex[e].pc = "conclude" /\ p = ex[e].at /\ j = JobAt(ex[e])
               /\ dir'[p].receipt[j] = ex[e].held
      BY <1>0, <2>1, <3>2
    <3> QED BY <1>1, <3>1, <3>2 DEF PassesOnly
  <2>3. Rests(a, p, j)'
    BY <2>2, RestsStays
  <2> QED BY <2>1, <2>3
<1>2. ASSUME NEW p \in Places, NEW j \in Collected, Passed(p, j)',
             NEW q \in Places \ {p}, Passed(q, j)'
      PROVE  dir'[q].receipt[j].id # dir'[p].receipt[j].id
  <2>1. CASE /\ Passed(p, j) /\ dir'[p].receipt[j] = dir[p].receipt[j]
             /\ Passed(q, j) /\ dir'[q].receipt[j] = dir[q].receipt[j]
    BY <2>1 DEF EIn, PassInv
  <2>2. ASSUME NEW r \in Places, NEW s \in Places, Passed(r, j), dir'[r].receipt[j] = dir[r].receipt[j],
               ex[e].pc = "conclude", s = ex[e].at, j = JobAt(ex[e]), dir'[s].receipt[j] = ex[e].held
        PROVE  dir'[r].receipt[j].id # dir'[s].receipt[j].id
    <3>1. Concludes(ex[e])
      BY <2>2 DEF Concludes
    <3> QED BY <2>2, <3>1 DEF EIn, HeldInv
  <2> QED BY <1>2, <2>1, <2>2 DEF PassesOnly
<1> QED BY <1>1, <1>2 DEF PassInv

LEMMA HeldStep ==
  ASSUME IInv, EIn, NEW e \in Executors, NEW y \in Executions, Wrote(e, y), PassesOnly(e),
         Concludes(y) => Fresh(e, y) /\ ex[e].pc # "conclude"
  PROVE  HeldInv'
<1>1. \A f \in Executors : ex'[f] = IF f = e THEN y ELSE ex[f]
  BY DEF Wrote, IInv, TypeOK
<1>2. ASSUME NEW g \in Executors, Concludes(ex'[g]), NEW f \in Executors \ {g}, Concludes(ex'[f])
      PROVE  ex'[f].held.id # ex'[g].held.id
  <2>1. CASE g = e
    BY <1>1, <1>2, <2>1 DEF Fresh
  <2>2. CASE f = e
    BY <1>1, <1>2, <2>2 DEF Fresh
  <2>3. CASE f # e /\ g # e
    BY <1>1, <1>2, <2>3 DEF EIn, HeldInv
  <2> QED BY <2>1, <2>2, <2>3
<1>3. ASSUME NEW g \in Executors, Concludes(ex'[g]), NEW q \in Places, NEW j \in Collected,
             Passed(q, j)'
      PROVE  dir'[q].receipt[j].id # ex'[g].held.id
  <2>1. CASE Passed(q, j) /\ dir'[q].receipt[j] = dir[q].receipt[j]
    <3>1. CASE g = e
      BY <1>1, <1>3, <2>1, <3>1 DEF Fresh
    <3>2. CASE g # e
      BY <1>1, <1>3, <2>1, <3>2 DEF EIn, HeldInv
    <3> QED BY <3>1, <3>2
  <2>2. CASE /\ ex[e].pc = "conclude" /\ q = ex[e].at /\ j = JobAt(ex[e])
             /\ dir'[q].receipt[j] = ex[e].held
    <3>1. g # e /\ Concludes(ex[e]) /\ Concludes(ex[g]) /\ ex'[g] = ex[g]
      BY <1>1, <1>3, <2>2 DEF Concludes
    <3>2. ex[e].held.id # ex[g].held.id
      BY <3>1 DEF EIn, HeldInv
    <3> QED BY <2>2, <3>1, <3>2
  <2> QED BY <1>3, <2>1, <2>2 DEF PassesOnly
<1> QED BY <1>2, <1>3 DEF HeldInv, Concludes, Passed, JobAt

LEMMA JudgedStep ==
  ASSUME IInv, EIn, Frame, Grows, NEW e \in Executors, NEW y \in Executions, Wrote(e, y), Judged(y)'
  PROVE  JudgedInv'
<1>1. \A f \in Executors : ex'[f] = IF f = e THEN y ELSE ex[f]
  BY DEF Wrote, IInv, TypeOK
<1>2. ASSUME NEW f \in Executors, f # e PROVE Judged(ex[f])'
  <2>1. PICK x \in Executions : x = ex[f] /\ (x.pc # "idle" => x.at \in Places) /\ Judged(x)
    BY ExecAt DEF IInv, EIn, JudgedInv
  <2>2. Judged(x)'
    BY <2>1, JudgedStays DEF EIn
  <2>3. ex'[f] = x
    BY <1>1, <1>2, <2>1
  <2> QED BY <2>2, <2>3
<1>3. Judged(ex[e])'
  BY <1>1
<1> QED BY <1>2, <1>3 DEF JudgedInv

--------------------------------------------------------------------------------
(* The steps of an execution. *)

Five == AloneInv /\ OwnInv /\ JudgedInv /\ HeldInv /\ PassInv

\* Alone, the others are idle while e takes a step.
AloneOnly(e) == Alone => \A f \in Executors : f = e \/ ex[f].pc = "idle"

LEMMA OwnStep ==
  ASSUME IInv, OwnInv, Frame, NEW e \in Executors, NEW y \in Executions, Wrote(e, y),
         AloneOnly(e), Own(y)'
  PROVE  OwnInv'
<1>1. \A f \in Executors : ex'[f] = IF f = e THEN y ELSE ex[f]
  BY DEF Wrote, IInv, TypeOK
<1>2. ASSUME NEW f \in Executors, f # e PROVE Own(ex[f])'
  <2>1. PICK x \in Executions : x = ex[f] /\ Sure(x, Started) /\ Own(x)
    BY ExecAt DEF IInv, OwnInv
  <2>2. ASSUME x.pc = "running"
        PROVE  x.id \notin x.before /\ launcher'[x.id].at = x.at /\ launcher'[x.id].job = JobAt(x)
    <3>1. x.id \in Started
      BY <2>1, <2>2 DEF Sure
    <3>2. FrameAt(x.id)
      BY <3>1 DEF Frame
    <3> QED BY <2>1, <2>2, <3>2 DEF Own, FrameAt
  <2>3. x.pc = "running" => ~Alone'
    BY <1>2, <2>1 DEF AloneOnly, Alone, Frame
  <2>4. Own(x)'
    BY <2>2, <2>3 DEF Own
  <2>5. ex'[f] = x
    BY <1>1, <1>2, <2>1
  <2> QED BY <2>4, <2>5
<1>3. Own(ex[e])'
  BY <1>1
<1> QED BY <1>2, <1>3 DEF OwnInv

LEMMA AloneStep ==
  ASSUME IInv, UNCHANGED mode, NEW e \in Executors, NEW y \in Executions, Wrote(e, y), AloneOnly(e)
  PROVE  AloneInv'
<1>1. \A f \in Executors : ex'[f] = IF f = e THEN y ELSE ex[f]
  BY DEF Wrote, IInv, TypeOK
<1> QED BY <1>1 DEF AloneOnly, AloneInv, Alone

LEMMA Turn ==
  ASSUME IInv, FileInv, Five, Frame, Grows, NEW e \in Executors, NEW y \in Executions,
         Wrote(e, y), PassesOnly(e), AloneOnly(e), Judged(y)', Own(y)',
         Concludes(y) => Fresh(e, y) /\ ex[e].pc # "conclude"
  PROVE  Five'
<1>1. EIn /\ UNCHANGED mode
  BY DEF EIn, Five, Frame
<1>2. AloneInv'
  BY <1>1, AloneStep
<1>3. OwnInv'
  BY OwnStep DEF Five
<1>4. JudgedInv'
  BY <1>1, JudgedStep
<1>5. HeldInv'
  BY <1>1, HeldStep
<1>6. PassInv'
  BY <1>1, PassStep
<1> QED BY <1>2, <1>3, <1>4, <1>5, <1>6 DEF Five

\* Where an execution holds nothing to answer for.
Quiet == {"idle", "ready", "made", "next", "launch", "reject", "unlink_rejected", "failing"}

Quiets(e) == \E y \in Executions : Wrote(e, y) /\ y.pc \in Quiet

LEMMA QuietTurn ==
  ASSUME IInv, FileInv, Five, Frame, Grows, NEW e \in Executors, Quiets(e), PassesOnly(e), AloneOnly(e)
  PROVE  Five'
<1>1. PICK y \in Executions : Wrote(e, y) /\ y.pc \in Quiet
  BY DEF Quiets
<1>2. y.pc \notin {"validate", "custody", "unlink", "conclude", "running"}
  BY <1>1 DEF Quiet
<1>3. Judged(y)' /\ Own(y)' /\ ~Concludes(y)
  BY <1>2 DEF Judged, Own, Concludes
<1> QED BY <1>1, <1>3, Turn

LEMMA DirStays ==
  ASSUME NEW e \in Executors, UNCHANGED dir
  PROVE  Grows /\ PassesOnly(e)
  BY DEF Grows, PassesOnly, Passed

LEMMA DirTurns ==
  ASSUME IInv, NEW e \in Executors, ex[e].pc # "idle", NEW y, NEW w \in Dirs, Turns(e, y, w),
         dir[ex[e].at].artifacts \subseteq w.artifacts,
         \A j \in Collected : w.jobs[j] = "pass" =>
           \/ dir[ex[e].at].jobs[j] = "pass" /\ w.receipt[j] = dir[ex[e].at].receipt[j]
           \/ ex[e].pc = "conclude" /\ j = JobAt(ex[e]) /\ w.receipt[j] = ex[e].held
  PROVE  Grows /\ PassesOnly(e)
<1>1. PICK p \in Places : p = ex[e].at
  BY ExecAt DEF IInv
<1>2. dir'[p] = w /\ \A q \in Places : q # p => dir'[q] = dir[q]
  BY <1>1 DEF Turns, IInv, TypeOK
<1>3. Grows
  BY <1>1, <1>2 DEF Grows
<1>4. ASSUME NEW q \in Places, NEW j \in Collected, Passed(q, j)'
      PROVE  \/ Passed(q, j) /\ dir'[q].receipt[j] = dir[q].receipt[j]
             \/ /\ ex[e].pc = "conclude" /\ q = ex[e].at /\ j = JobAt(ex[e])
                /\ dir'[q].receipt[j] = ex[e].held
  <2>1. dir'[q].jobs[j] = "pass"
    BY <1>4 DEF Passed
  <2>2. CASE q = p
    BY <1>1, <1>2, <2>1, <2>2 DEF Passed
  <2>3. CASE q # p
    BY <1>2, <2>1, <2>3 DEF Passed
  <2> QED BY <2>2, <2>3
<1> QED BY <1>3, <1>4 DEF PassesOnly

LEMMA GoQuiets ==
  ASSUME IInv, NEW e \in Executors, NEW pc \in Quiet, Go(e, pc)
  PROVE  Quiets(e)
<1>1. pc \in Pcs
  BY DEF Quiet, Pcs
<1> QED BY <1>1, GoWrites DEF Quiets, IInv

LEMMA IdleQuiets ==
  ASSUME NEW e \in Executors, Wrote(e, Idle)
  PROVE  Quiets(e)
<1>1. Idle.pc \in Quiet
  BY DEF Idle, Quiet
<1> QED BY <1>1, IdleType DEF Quiets

\* The steps that record something, one lemma for each.
LEMMA MakeStageEvidence ==
  ASSUME IInv, FileInv, Five, Frame, NEW e \in Executors, AloneOnly(e), MakeStage(e)
  PROVE  Five'
<1>1. CASE Wrote(e, Idle) /\ UNCHANGED dir
  BY <1>1, IdleQuiets, DirStays, QuietTurn
<1>2. ASSUME NEW y \in Executions, NEW w \in Dirs, Turns(e, y, w), y.pc = "made",
             SameRecords(w, dir[ex[e].at])
      PROVE  Five'
  <2>1. Quiets(e)
    BY <1>2 DEF Turns, Quiets, Quiet
  <2>2. Grows /\ PassesOnly(e)
    BY <1>2, DirTurns DEF SameRecords, MakeStage
  <2> QED BY <2>1, <2>2, QuietTurn
<1> QED BY <1>1, <1>2, MakeStageTurns DEF IInv

LEMMA OpenLedgerEvidence ==
  ASSUME IInv, FileInv, Five, Frame, NEW e \in Executors, AloneOnly(e), OpenLedger(e)
  PROVE  Five'
<1>1. PICK y \in Executions, w \in Dirs :
        Turns(e, y, w) /\ y.pc = "next" /\ SameRecords(w, dir[ex[e].at])
  BY OpenLedgerTurns DEF IInv
<1>2. Quiets(e)
  BY <1>1 DEF Turns, Quiets, Quiet
<1>3. Grows /\ PassesOnly(e)
  BY <1>1, DirTurns DEF SameRecords, OpenLedger
<1> QED BY <1>2, <1>3, QuietTurn

LEMMA BeginJobEvidence ==
  ASSUME IInv, FileInv, Five, Frame, NEW e \in Executors, AloneOnly(e), BeginJob(e)
  PROVE  Five'
<1>1. CASE Go(e, "failing") /\ UNCHANGED dir
  <2>1. Quiets(e)
    BY <1>1, GoQuiets DEF Quiet
  <2> QED BY <1>1, <2>1, DirStays, QuietTurn
<1>2. ASSUME NEW y \in Executions, NEW w \in Dirs, Turns(e, y, w), y.pc = "launch",
             w.jobs = [dir[ex[e].at].jobs EXCEPT ![Job(e)] = "running"],
             w.receipt = dir[ex[e].at].receipt, w.artifacts = dir[ex[e].at].artifacts
      PROVE  Five'
  <2>1. Quiets(e)
    BY <1>2 DEF Turns, Quiets, Quiet
  <2>2. dir[ex[e].at] \in Dirs /\ ex[e].pc # "idle"
    BY ExecAt DEF IInv, BeginJob
  <2>3. \A j \in Collected : w.jobs[j] = "pass" => dir[ex[e].at].jobs[j] = "pass"
    BY <1>2, <2>2, PlanAssumption DEF Dirs
  <2>4. Grows /\ PassesOnly(e)
    BY <1>2, <2>2, <2>3, DirTurns
  <2> QED BY <2>1, <2>4, QuietTurn
<1> QED BY <1>1, <1>2, BeginJobTurns DEF IInv

LEMMA ConcludeEvidence ==
  ASSUME IInv, FileInv, Five, Frame, NEW e \in Executors, AloneOnly(e), Conclude(e)
  PROVE  Five'
<1>1. CASE Go(e, "failing") /\ UNCHANGED dir
  <2>1. Quiets(e)
    BY <1>1, GoQuiets DEF Quiet
  <2> QED BY <1>1, <2>1, DirStays, QuietTurn
<1>2. ASSUME NEW y \in Executions, NEW w \in Dirs, Turns(e, y, w), y.pc = "next",
             w.jobs = [dir[ex[e].at].jobs EXCEPT ![Job(e)] = "pass"],
             w.receipt = [dir[ex[e].at].receipt EXCEPT ![Job(e)] = ex[e].held],
             w.artifacts = dir[ex[e].at].artifacts
      PROVE  Five'
  <2>1. Quiets(e)
    BY <1>2 DEF Turns, Quiets, Quiet
  <2>2. dir[ex[e].at] \in Dirs /\ ex[e].pc = "conclude"
    BY ExecAt DEF IInv, Conclude
  <2>3. Job(e) = JobAt(ex[e])
    BY DEF Job, JobAt
  <2>4. ASSUME NEW j \in Collected, w.jobs[j] = "pass"
        PROVE  \/ dir[ex[e].at].jobs[j] = "pass" /\ w.receipt[j] = dir[ex[e].at].receipt[j]
               \/ ex[e].pc = "conclude" /\ j = JobAt(ex[e]) /\ w.receipt[j] = ex[e].held
    <3>1. PICK d \in Dirs : d = dir[ex[e].at] /\ j \in Jobs
      BY <2>2, PlanAssumption
    <3>2. j \in DOMAIN d.jobs /\ j \in DOMAIN d.receipt
      BY <3>1 DEF Dirs
    <3>3. CASE j = Job(e)
      BY <1>2, <2>2, <2>3, <3>1, <3>2, <3>3
    <3>4. CASE j # Job(e)
      BY <1>2, <2>4, <3>1, <3>2, <3>4
    <3> QED BY <3>3, <3>4
  <2>5. Grows /\ PassesOnly(e)
    BY <1>2, <2>2, <2>4, DirTurns
  <2> QED BY <2>1, <2>5, QuietTurn
<1> QED BY <1>1, <1>2, ConcludeTurns DEF IInv

LEMMA FailEvidence ==
  ASSUME IInv, FileInv, Five, Frame, NEW e \in Executors, AloneOnly(e), Fail(e)
  PROVE  Five'
<1>1. PICK w \in Dirs :
        /\ Turns(e, Idle, w) /\ w.artifacts = dir[ex[e].at].artifacts
        /\ \A j \in Jobs : dir[ex[e].at].jobs[j] # "running" =>
             w.jobs[j] = dir[ex[e].at].jobs[j] /\ w.receipt[j] = dir[ex[e].at].receipt[j]
        /\ \A j \in Jobs : dir[ex[e].at].jobs[j] = "running" => w.jobs[j] = "fail"
  BY FailTurns DEF IInv
<1>2. Quiets(e) /\ ex[e].pc # "idle"
  BY <1>1, IdleQuiets DEF Turns, Fail
<1>3. \A j \in Collected : w.jobs[j] = "pass" =>
        dir[ex[e].at].jobs[j] = "pass" /\ w.receipt[j] = dir[ex[e].at].receipt[j]
  BY <1>1, PlanAssumption
<1>4. Grows /\ PassesOnly(e)
  BY <1>1, <1>2, <1>3, DirTurns
<1> QED BY <1>2, <1>4, QuietTurn

LEMMA FinishEvidence ==
  ASSUME IInv, FileInv, Five, Frame, NEW e \in Executors, AloneOnly(e), Finish(e)
  PROVE  Five'
<1>1. PICK w \in Dirs : Turns(e, Idle, w) /\ SameRecords(w, dir[ex[e].at])
  BY FinishTurns DEF IInv
<1>2. Quiets(e) /\ ex[e].pc # "idle"
  BY <1>1, IdleQuiets DEF Turns, Finish
<1>3. Grows /\ PassesOnly(e)
  BY <1>1, <1>2, DirTurns DEF SameRecords
<1> QED BY <1>2, <1>3, QuietTurn

LEMMA GoEvidence ==
  ASSUME IInv, FileInv, Five, Frame, NEW e \in Executors, AloneOnly(e), NEW pc \in Quiet, Go(e, pc),
         UNCHANGED dir
  PROVE  Five'
  BY GoQuiets, DirStays, QuietTurn

LEMMA StartEvidence ==
  ASSUME IInv, FileInv, Five, Frame, NEW e \in Executors, NEW root \in Roots, NEW stage \in Stages,
         Start(e, root, stage)
  PROVE  Five'
<1>1. PICK p \in Places : p = <<root, stage>>
  BY DEF Places
<1>2. PICK y \in Executions : y = [Idle EXCEPT !.pc = "ready", !.at = p]
  BY IdleType
<1>3. y.pc \in Quiet
  BY <1>2 DEF Idle, Quiet
<1>4. Wrote(e, y) /\ UNCHANGED dir /\ AloneOnly(e)
  BY <1>1, <1>2 DEF Start, Wrote, AloneOnly, Alone
<1>5. Quiets(e)
  BY <1>3, <1>4 DEF Quiets
<1> QED BY <1>4, <1>5, DirStays, QuietTurn

LEMMA LaunchEvidence ==
  ASSUME IInv, FileInv, Five, Frame, NEW e \in Executors, AloneOnly(e), Launch(e)
  PROVE  Five'
<1>1. UNCHANGED dir /\ ex[e].pc = "launch"
  BY DEF Launch
<1>2. CASE Go(e, "failing")
  <2>1. "failing" \in Quiet
    BY DEF Quiet
  <2> QED BY <1>1, <1>2, <2>1, GoEvidence
<1>3. ASSUME NEW i \in Ids, NEW y \in Executions, NEW l \in Launchers, Starts(e, i, y, l)
      PROVE  Five'
  <2>1. y.pc = "running" /\ Wrote(e, y)
    BY <1>3 DEF Starts
  <2>2. launcher'[i] = l
    BY <1>3 DEF Starts, IInv, TypeOK
  <2>3. i \notin y.before
    BY <1>3 DEF Starts, Present, Started, FileInv, FileAt
  <2>4. Own(y)'
    BY <1>3, <2>2, <2>3 DEF Own, Starts, Job, JobAt
  <2>5. Judged(y)' /\ ~Concludes(y)
    BY <2>1 DEF Judged, Concludes
  <2> QED BY <1>1, <2>1, <2>4, <2>5, DirStays, Turn
<1> QED BY <1>2, <1>3, LaunchStarts

LEMMA CutEvidence ==
  ASSUME IInv, FileInv, Five, Frame, NEW e \in Executors, AloneOnly(e),
         NEW pc \in {"reject", "failing"}, NEW n \in SUBSET Ids, Cut(e, pc, n)
  PROVE  Five'
<1>1. pc \in Pcs /\ pc \in Quiet /\ ex[e] \in Executions
  BY ExecAt DEF Pcs, Quiet, IInv
<1>2. PICK y \in Executions : y = WithNew(ex[e], pc, n) /\ y.pc = pc
  BY <1>1, UpdateNew
<1>3. Wrote(e, y) /\ UNCHANGED dir
  BY <1>2 DEF Cut, Wrote, WithNew
<1>4. Quiets(e)
  BY <1>1, <1>2, <1>3 DEF Quiets
<1> QED BY <1>3, <1>4, DirStays, QuietTurn

\* Alone, the one new artifact is that of the execution's own launcher.
LEMMA OneNew ==
  ASSUME IInv, FileInv, Five, NEW e \in Executors, ex[e].pc = "running",
         launcher[ex[e].id].state = "ok", Job(e) \in Collected, Cardinality(New(e)) = 1
  PROVE  \E i \in Started : New(e) = {i} /\ Comes(i, ex[e].at, JobAt(ex[e]))
<1>1. New(e) \subseteq Ids /\ IsFiniteSet(Ids)
  BY BoundAssumption, FS_Interval DEF New, Matching, Present, Ids
<1>2. IsFiniteSet(New(e))
  BY <1>1, FS_Subset
<1>3. PICK i : New(e) = {i}
  BY <1>2, FS_Singleton
<1>4. i \in Ids /\ results[i] # None /\ launcher[i].job = Job(e)
  BY <1>3 DEF New, Matching, Present
<1>5. FileAt(launcher[i], results[i])
  BY <1>4 DEF FileInv
<1>6. i \in Started /\ launcher[i].state # "running"
  BY <1>4, <1>5 DEF FileAt, Started
<1>7. Job(e) = JobAt(ex[e])
  BY DEF Job, JobAt
<1>8. ASSUME Alone PROVE launcher[i].at = ex[e].at
  <2>1. PICK x \in Executions : x = ex[e] /\ Own(x) /\ x.id \in Started
    BY ExecAt DEF IInv, Five, OwnInv, Sure
  <2>2. /\ x.id \notin x.before /\ launcher[x.id].at = x.at /\ launcher[x.id].job = JobAt(x)
        /\ results[x.id] # None
    BY <1>7, <1>8, <2>1 DEF Own
  <2>3. x.id \in New(e)
    BY <1>7, <2>1, <2>2 DEF New, Matching, Present, Started
  <2> QED BY <1>3, <2>1, <2>2, <2>3
<1> QED BY <1>3, <1>4, <1>6, <1>7, <1>8 DEF Comes

LEMMA ReturnedEvidence ==
  ASSUME IInv, FileInv, Five, Frame, NEW e \in Executors, AloneOnly(e), Returned(e)
  PROVE  Five'
<1>1. /\ ex[e].pc = "running" /\ UNCHANGED <<mode, launcher, results, dir>> /\ ex[e] \in Executions
      /\ launcher[ex[e].id].state \in {"ok", "failed"}
  BY ExecAt DEF Returned, World, IInv
<1>2. PICK pc \in {"reject", "conclude", "validate"} :
        /\ ex' = [ex EXCEPT ![e].pc = pc, ![e].new = New(e)]
        /\ pc = "conclude" => Job(e) \notin Collected
        /\ pc = "validate" => /\ launcher[ex[e].id].state = "ok" /\ Job(e) \in Collected
                              /\ Cardinality(New(e)) = 1
  <2>1. CASE launcher[ex[e].id].state = "ok" /\ Job(e) \notin Collected
    BY <2>1 DEF Returned
  <2>2. CASE /\ launcher[ex[e].id].state = "ok" /\ Job(e) \in Collected
             /\ Cardinality(New(e)) = 1
    BY <2>2 DEF Returned
  <2>3. CASE /\ ~(launcher[ex[e].id].state = "ok" /\ Job(e) \notin Collected)
             /\ ~(/\ launcher[ex[e].id].state = "ok" /\ Job(e) \in Collected
                  /\ Cardinality(New(e)) = 1)
    BY <2>3 DEF Returned
  <2> QED BY <2>1, <2>2, <2>3
<1>3. PICK n \in SUBSET Ids : n = New(e)
  BY DEF New, Matching, Present
<1>4. PICK y \in Executions : /\ y = WithNew(ex[e], pc, n) /\ y.pc = pc
                              /\ y.at = ex[e].at /\ y.k = ex[e].k /\ y.new = n
  <2>1. pc \in Pcs
    BY DEF Pcs
  <2> QED BY <1>1, <2>1, UpdateNew
<1>5. Wrote(e, y)
  BY <1>2, <1>3, <1>4 DEF Wrote, WithNew
<1>6. JobAt(y) = Job(e) /\ JobAt(ex[e]) = Job(e)
  BY <1>4 DEF JobAt, Job
<1>7. Judged(y)
  <2>1. ASSUME pc = "validate"
        PROVE  JobAt(y) \in Collected /\ \E i \in Started : y.new = {i} /\ Comes(i, y.at, JobAt(y))
    BY <1>1, <1>2, <1>3, <1>4, <1>6, <2>1, OneNew
  <2>2. pc = "conclude" => JobAt(y) \notin Collected
    BY <1>2, <1>6
  <2> QED BY <1>4, <2>1, <2>2 DEF Judged, Concludes
<1>8. ~Concludes(y) /\ Own(y)' /\ y.at \in Places
  BY <1>1, <1>2, <1>4, <1>6, ExecAt DEF Concludes, Own, IInv
<1>9. Grows /\ PassesOnly(e)
  BY <1>1, DirStays
<1>10. Judged(y)'
  BY <1>7, <1>8, <1>9, JudgedStays
<1> QED BY <1>5, <1>8, <1>9, <1>10, Turn

LEMMA ValidateEvidence ==
  ASSUME IInv, FileInv, Five, Frame, NEW e \in Executors, AloneOnly(e), Validate(e)
  PROVE  Five'
<1>1. ex[e].pc = "validate" /\ UNCHANGED dir
  BY DEF Validate
<1>2. PICK x \in Executions : x = ex[e] /\ Judged(x) /\ x.at \in Places
  BY <1>1, ExecAt DEF IInv, Five, JudgedInv
<1>3. PICK i \in Started : x.new = {i} /\ Comes(i, x.at, JobAt(x))
  BY <1>1, <1>2 DEF Judged
<1>4. CASE Go(e, "reject")
  BY <1>1, <1>4, GoEvidence DEF Quiet
<1>5. CASE /\ Go(e, "custody") /\ results[i] # None
           /\ Valid([id |-> i, content |-> results[i]], x.at[2], JobAt(x))
  <2>1. PICK y \in Executions : /\ Wrote(e, y) /\ y.pc = "custody"
                                /\ y.at = x.at /\ y.k = x.k /\ y.new = x.new
    BY <1>2, <1>5, GoWrites DEF IInv, Pcs
  <2>2. JobAt(y) = JobAt(x) /\ JobAt(x) \in Collected
    BY <1>1, <1>2, <2>1 DEF JobAt, Judged
  <2>3. Judged(y)
    BY <1>3, <1>5, <2>1, <2>2 DEF Judged, Concludes
  <2>4. Grows /\ PassesOnly(e)
    BY <1>1, DirStays
  <2>5. Judged(y)'
    BY <1>2, <2>1, <2>3, <2>4, JudgedStays
  <2>6. Own(y)' /\ ~Concludes(y)
    BY <2>1 DEF Own, Concludes
  <2> QED BY <2>1, <2>4, <2>5, <2>6, Turn
<1>6. ex[e].new = {i} /\ Job(e) = JobAt(x) /\ ex[e].at = x.at
  BY <1>2, <1>3 DEF Job, JobAt
<1>7. IF results[i] # None /\ Valid([id |-> i, content |-> results[i]], x.at[2], JobAt(x))
      THEN Go(e, "custody") ELSE Go(e, "reject")
  BY <1>6 DEF Validate
<1> QED BY <1>4, <1>5, <1>7

\* What Copy does: custody takes an artifact, or nothing is recorded.
Takes(e, i, y) ==
  /\ ex[e].pc = "custody" /\ i \in ex[e].new /\ results[i] # None
  /\ Wrote(e, y) /\ y.pc = "unlink" /\ y.at = ex[e].at /\ y.k = ex[e].k
  /\ y.held = [id |-> i, content |-> results[i]]
  /\ y.held \in dir'[y.at].artifacts

SamePasses == \A q \in Places : dir'[q].jobs = dir[q].jobs /\ dir'[q].receipt = dir[q].receipt

LEMMA SameHeld ==
  ASSUME NEW e \in Executors, SamePasses
  PROVE  PassesOnly(e)
  BY DEF SamePasses, PassesOnly, Passed

SetsHeld(e, pc, h) == ex' = [ex EXCEPT ![e].pc = pc, ![e].held = h]

LEMMA SetsHeldWrites ==
  ASSUME IInv, NEW e \in Executors, NEW pc \in Pcs, NEW h \in Artifacts \cup {None}, SetsHeld(e, pc, h)
  PROVE  \E y \in Executions : /\ Wrote(e, y) /\ y.pc = pc /\ y.at = ex[e].at /\ y.k = ex[e].k
                               /\ y.held = h
<1>1. PICK y \in Executions : /\ y = WithHeld(ex[e], pc, h) /\ y.pc = pc /\ y.at = ex[e].at
                              /\ y.k = ex[e].k /\ y.held = h
  BY ExecAt, UpdateHeld DEF IInv
<1>2. Wrote(e, y)
  BY <1>1 DEF Wrote, WithHeld, SetsHeld
<1> QED BY <1>1, <1>2

LEMMA CopyTakes ==
  ASSUME IInv, NEW e \in Executors, Copy(e)
  PROVE  /\ Grows /\ SamePasses
         /\ Quiets(e) \/ \E i \in Ids, y \in Executions : Takes(e, i, y)
<1>1. PICK p \in Places : /\ p = ex[e].at /\ dir[p] \in Dirs /\ ex[e] \in Executions
                          /\ ex[e].new \subseteq Ids
  BY ExecAt DEF Copy, IInv, Executions
<1>3. CASE ex' = [ex EXCEPT ![e].pc = "failing", ![e].held = None] /\ UNCHANGED dir
  <2>1. "failing" \in Pcs /\ "failing" \in Quiet /\ None \in Artifacts \cup {None}
    BY DEF Pcs, Quiet
  <2>2. SetsHeld(e, "failing", None)
    BY <1>3 DEF SetsHeld
  <2>3. Quiets(e)
    BY <2>1, <2>2, SetsHeldWrites DEF Quiets
  <2> QED BY <1>3, <2>3 DEF Grows, SamePasses
<1>4. ASSUME NEW i \in ex[e].new, results[i] # None
      PROVE  \E copy \in Artifacts : copy = [id |-> i, content |-> results[i]]
  <2>1. i \in Ids /\ results[i] \in Contents
    BY <1>1, <1>4 DEF IInv, TypeOK
  <2> QED BY <2>1 DEF Artifacts
<1>5. ASSUME NEW i \in ex[e].new, results[i] # None, NEW copy \in Artifacts,
             copy = [id |-> i, content |-> results[i]], ex[e].pc = "custody",
             dir' = [dir EXCEPT ![ex[e].at].artifacts = @ \cup {copy}],
             ex' = [ex EXCEPT ![e].pc = "unlink", ![e].held = copy]
      PROVE  Grows /\ SamePasses /\ \E n \in Ids, y \in Executions : Takes(e, n, y)
  <2>1. PICK a \in SUBSET Artifacts : a = dir[p].artifacts \cup {copy}
    BY <1>1 DEF Dirs
  <2>2. PICK w \in Dirs : /\ w = [dir[p] EXCEPT !.artifacts = a] /\ w.jobs = dir[p].jobs
                          /\ w.receipt = dir[p].receipt /\ w.artifacts = a
    BY <1>1, DirArtifacts
  <2>3. dir' = [dir EXCEPT ![p] = w]
    BY <1>1, <1>5, <2>1, <2>2 DEF IInv, TypeOK
  <2>4. dir'[p] = w /\ \A q \in Places : q # p => dir'[q] = dir[q]
    BY <2>3 DEF IInv, TypeOK
  <2>5. Grows /\ SamePasses
    BY <2>1, <2>2, <2>4 DEF Grows, SamePasses
  <2>0. SetsHeld(e, "unlink", copy) /\ "unlink" \in Pcs /\ copy \in Artifacts \cup {None}
    BY <1>5 DEF SetsHeld, Pcs
  <2>6. PICK y \in Executions : /\ Wrote(e, y) /\ y.pc = "unlink" /\ y.at = p /\ y.k = ex[e].k
                                /\ y.held = copy
    BY <1>1, <2>0, SetsHeldWrites
  <2>7. copy \in dir'[p].artifacts
    BY <2>1, <2>2, <2>4
  <2> QED BY <1>1, <1>5, <2>5, <2>6, <2>7 DEF Takes
<1>6. ASSUME NEW copy \in Artifacts,
             dir' = [dir EXCEPT ![ex[e].at].rejected = @ \cup {copy}],
             ex' = [ex EXCEPT ![e].pc = "unlink_rejected", ![e].held = copy]
      PROVE  Grows /\ SamePasses /\ Quiets(e)
  <2>1. PICK a \in SUBSET Artifacts : a = dir[p].rejected \cup {copy}
    BY <1>1 DEF Dirs
  <2>2. PICK w \in Dirs : /\ w = [dir[p] EXCEPT !.rejected = a] /\ w.jobs = dir[p].jobs
                          /\ w.receipt = dir[p].receipt /\ w.artifacts = dir[p].artifacts
    BY <1>1, DirRejected
  <2>3. dir' = [dir EXCEPT ![p] = w]
    BY <1>1, <1>6, <2>1, <2>2 DEF IInv, TypeOK
  <2>4. dir'[p] = w /\ \A q \in Places : q # p => dir'[q] = dir[q]
    BY <2>3 DEF IInv, TypeOK
  <2>5. Grows /\ SamePasses
    BY <2>2, <2>4 DEF Grows, SamePasses
  <2>6. "unlink_rejected" \in Pcs /\ "unlink_rejected" \in Quiet /\ copy \in Artifacts \cup {None}
    BY DEF Pcs, Quiet
  <2>0. SetsHeld(e, "unlink_rejected", copy)
    BY <1>6 DEF SetsHeld
  <2>7. Quiets(e)
    BY <2>0, <2>6, SetsHeldWrites DEF Quiets
  <2> QED BY <2>5, <2>7
<1>7. PICK i \in ex[e].new :
        \/ /\ results[i] # None
           /\ LET copy == [id |-> i, content |-> results[i]] IN
              \/ /\ ex[e].pc = "custody"
                 /\ dir' = [dir EXCEPT ![ex[e].at].artifacts = @ \cup {copy}]
                 /\ ex' = [ex EXCEPT ![e].pc = "unlink", ![e].held = copy]
              \/ /\ dir' = [dir EXCEPT ![ex[e].at].rejected = @ \cup {copy}]
                 /\ ex' = [ex EXCEPT ![e].pc = "unlink_rejected", ![e].held = copy]
        \/ ex' = [ex EXCEPT ![e].pc = "failing", ![e].held = None] /\ UNCHANGED dir
  BY DEF Copy
<1>8. CASE results[i] # None
  <2>1. PICK copy \in Artifacts : copy = [id |-> i, content |-> results[i]]
    BY <1>4, <1>8
  <2> QED BY <1>3, <1>5, <1>6, <1>7, <1>8, <2>1
<1> QED BY <1>3, <1>7, <1>8

LEMMA CopyEvidence ==
  ASSUME IInv, FileInv, Five, Frame, NEW e \in Executors, AloneOnly(e), Copy(e)
  PROVE  Five'
<1>1. Grows /\ PassesOnly(e)
  BY CopyTakes, SameHeld
<1>2. CASE Quiets(e)
  BY <1>1, <1>2, QuietTurn
<1>3. ASSUME NEW n \in Ids, NEW y \in Executions, Takes(e, n, y) PROVE Five'
  <2>1. PICK x \in Executions : x = ex[e] /\ Judged(x) /\ x.at \in Places /\ Sure(x, Started)
    BY <1>3, ExecAt DEF Takes, IInv, Five, JudgedInv
  <2>2. x.pc = "custody" /\ JobAt(x) \in Collected
    BY <1>3, <2>1 DEF Takes, Judged
  <2>3. PICK i \in Started : x.new = {i} /\ Comes(i, x.at, JobAt(x))
    BY <2>1, <2>2 DEF Judged
  <2>4. n = i /\ results[i] # None
    BY <1>3, <2>1, <2>3 DEF Takes
  <2>5. Valid([id |-> i, content |-> results[i]], x.at[2], JobAt(x))
    BY <2>1, <2>2, <2>3, <2>4 DEF Judged
  <2>6. PICK a \in Artifacts : a = [id |-> i, content |-> results[i]] /\ a.id = i
    <3>1. i \in Ids /\ results[i] \in Contents
      BY <2>4 DEF Started, IInv, TypeOK
    <3>2. [id |-> i, content |-> results[i]] \in Artifacts
      BY <3>1 DEF Artifacts
    <3> QED BY <3>2
  <2>7. JobAt(x) \in JobsOf(x.at[2]) /\ x.at[2] \in Stages
    BY <2>1, <2>2, PlanTypes DEF Sure, Middle, JobAt, JobsOf
  <2>8. launcher[i].at[2] = x.at[2] /\ launcher[i].head = "sealed"
    <3>1. launcher[i].job = JobAt(x)
      BY <2>3 DEF Comes
    <3> QED BY <2>2, <2>4, <2>5, <2>7, <3>1, Origin
  <2>9. Evidence(a, x.at, JobAt(x))
    BY <2>3, <2>5, <2>6, <2>8 DEF Evidence
  <2>10. Evidence(a, x.at, JobAt(x))'
    BY <2>9, EvidenceStays
  <2>11. y.pc = "unlink" /\ y.at = x.at /\ JobAt(y) = JobAt(x) /\ y.held = a /\ Wrote(e, y)
    BY <1>3, <2>1, <2>4, <2>6 DEF Takes, JobAt
  <2>12. a \in dir'[x.at].artifacts
    BY <1>3, <2>11 DEF Takes
  <2>13. Judged(y)'
    BY <2>2, <2>10, <2>11, <2>12 DEF Judged, Concludes
  <2>14. Own(y)' /\ ~Concludes(y)
    BY <2>11 DEF Own, Concludes
  <2> QED BY <1>1, <2>11, <2>13, <2>14, Turn
<1> QED BY <1>2, <1>3, CopyTakes

LEMMA UnlinkEvidence ==
  ASSUME IInv, FileInv, Five, Frame, NEW e \in Executors, AloneOnly(e), Unlink(e)
  PROVE  Five'
<1>1. PICK x \in Executions : x = ex[e] /\ Judged(x) /\ x.at \in Places /\ x.held \in Artifacts
  BY ExecAt DEF IInv, Five, JudgedInv, Unlink, Sure
<1>2. UNCHANGED dir /\ Grows /\ PassesOnly(e) /\ x.held.id \in Ids
  BY <1>1, DirStays DEF Unlink, Artifacts
<1>3. CASE ex' = [ex EXCEPT ![e].pc = "failing", ![e].held = None]
  <2>1. "failing" \in Pcs /\ "failing" \in Quiet /\ None \in Artifacts \cup {None}
    BY DEF Pcs, Quiet
  <2>2. PICK y \in Executions : y = WithHeld(x, "failing", None) /\ y.pc = "failing"
    BY <2>1, UpdateHeld
  <2>3. Wrote(e, y)
    BY <1>1, <1>3, <2>2 DEF Wrote, WithHeld
  <2>4. Quiets(e)
    BY <2>1, <2>2, <2>3 DEF Quiets
  <2> QED BY <1>2, <2>4, QuietTurn
<1>4. CASE ex' = [ex EXCEPT ![e].pc = "reject", ![e].new = @ \ {ex[e].held.id}, ![e].held = None]
  <2>0. PICK n \in SUBSET Ids : n = x.new \ {x.held.id}
    BY <1>1 DEF Executions
  <2>1. "reject" \in Pcs /\ "reject" \in Quiet /\ None \in Artifacts \cup {None}
    BY DEF Pcs, Quiet
  <2>2. PICK y \in Executions : y = WithBoth(x, "reject", n, None) /\ y.pc = "reject"
    BY <2>1, UpdateBoth
  <2>3. Wrote(e, y)
    BY <1>1, <1>4, <2>0, <2>2 DEF Wrote, WithBoth
  <2>4. Quiets(e)
    BY <2>1, <2>2, <2>3 DEF Quiets
  <2> QED BY <1>2, <2>4, QuietTurn
<1>5. CASE Go(e, "conclude") /\ ex[e].pc = "unlink" /\ results[ex[e].held.id] # None
  <2>1. PICK y \in Executions : /\ Wrote(e, y) /\ y.pc = "conclude"
                                /\ y.at = x.at /\ y.k = x.k /\ y.held = x.held
    BY <1>1, <1>5, GoWrites DEF IInv, Pcs
  <2>2. /\ JobAt(x) \in Collected /\ Evidence(x.held, x.at, JobAt(x))
        /\ x.held \in dir[x.at].artifacts
    BY <1>1, <1>5 DEF Judged
  <2>3. Evidence(x.held, x.at, JobAt(x))'
    BY <2>2, EvidenceStays
  <2>4. results'[x.held.id] = None
    BY <1>1, <1>2 DEF Unlink, IInv, TypeOK
  <2>5. Rests(x.held, x.at, JobAt(x))'
    BY <1>2, <2>2, <2>3, <2>4 DEF Rests
  <2>6. JobAt(y) = JobAt(x)
    BY <2>1 DEF JobAt
  <2>7. Judged(y)' /\ Own(y)'
    BY <2>1, <2>5, <2>6 DEF Judged, Own
  <2>8. Fresh(e, y)
    <3>1. ASSUME NEW f \in Executors, Concludes(ex[f]) PROVE results[ex[f].held.id] = None
      BY <3>1 DEF Five, JudgedInv, Judged, Rests
    <3>2. ASSUME NEW q \in Places, NEW j \in Collected, Passed(q, j)
          PROVE  results[dir[q].receipt[j].id] = None
      BY <3>2 DEF Five, PassInv, Rests
    <3> QED BY <1>1, <1>5, <2>1, <3>1, <3>2 DEF Fresh
  <2> QED BY <1>2, <1>5, <2>1, <2>7, <2>8, Turn
<1> QED BY <1>3, <1>4, <1>5 DEF Unlink

LEMMA ExecEvidence ==
  ASSUME IInv, FileInv, Five, Frame, NEW e \in Executors, ExecNext(e)
  PROVE  Five'
<1>1. ASSUME NEW root \in Roots, NEW stage \in Stages, Start(e, root, stage) PROVE Five'
  BY <1>1, StartEvidence
<1>2. ASSUME ex[e].pc # "idle" PROVE AloneOnly(e)
  BY <1>2 DEF AloneOnly, Five, AloneInv
<1>3. ASSUME ex[e].pc # "idle", NEW pc \in Quiet, Go(e, pc), UNCHANGED dir PROVE Five'
  BY <1>2, <1>3, GoEvidence
<1>4. ASSUME NEW pc \in {"reject", "failing"}, NEW n \in SUBSET Ids, Cut(e, pc, n) PROVE Five'
  <2>1. AloneOnly(e)
    BY <1>2, <1>4 DEF Cut
  <2> QED BY <1>4, <2>1, CutEvidence
<1>5. CASE MakeStage(e)
  BY <1>2, <1>5, MakeStageEvidence DEF MakeStage
<1>6. CASE OpenLedger(e)
  BY <1>2, <1>6, OpenLedgerEvidence DEF OpenLedger
<1>7. CASE BeginJob(e)
  BY <1>2, <1>7, BeginJobEvidence DEF BeginJob
<1>8. CASE Launch(e)
  BY <1>2, <1>8, LaunchEvidence DEF Launch
<1>9. CASE Returned(e)
  BY <1>2, <1>9, ReturnedEvidence DEF Returned
<1>10. CASE TimedOut(e)
  <2>1. PICK n \in SUBSET Ids : n = New(e)
    BY DEF New, Matching, Present
  <2> QED BY <1>4, <1>10, <2>1 DEF TimedOut
<1>11. CASE Interrupted(e)
  <2>1. PICK n \in SUBSET Ids : n = {}
    OBVIOUS
  <2> QED BY <1>4, <1>11, <2>1 DEF Interrupted
<1>12. CASE Validate(e)
  BY <1>2, <1>12, ValidateEvidence DEF Validate
<1>13. CASE Copy(e)
  BY <1>2, <1>13, CopyEvidence DEF Copy
<1>14. CASE Unlink(e)
  BY <1>2, <1>14, UnlinkEvidence DEF Unlink
<1>15. CASE Rejected(e)
  BY <1>3, <1>15 DEF Rejected, Quiet
<1>16. CASE Conclude(e)
  BY <1>2, <1>16, ConcludeEvidence DEF Conclude
<1>17. CASE Fail(e)
  BY <1>2, <1>17, FailEvidence DEF Fail
<1>18. CASE Finish(e)
  BY <1>2, <1>18, FinishEvidence DEF Finish
<1>19. CASE Crash(e)
  <2>1. AloneOnly(e) /\ UNCHANGED dir /\ Wrote(e, Idle)
    BY <1>2, <1>19 DEF Crash, Wrote
  <2> QED BY <2>1, IdleQuiets, DirStays, QuietTurn
<1> QED BY <1>1, <1>5, <1>6, <1>7, <1>8, <1>9, <1>10, <1>11, <1>12, <1>13, <1>14, <1>15, <1>16,
           <1>17, <1>18, <1>19 DEF ExecNext

--------------------------------------------------------------------------------
(* The steps of launchers and operators, and the theorem. *)

\* Nobody but a launcher and, between executions, an operator touches a file.
LEMMA OwnOutside ==
  ASSUME IInv, FileInv, OwnInv, UNCHANGED <<mode, ex>>, Frame,
         \A i \in Started : (\E f \in Executors : ex[f].pc # "idle") =>
           \/ launcher'[i].state \notin {"writing", "written", "ok"}
           \/ launcher[i].job \notin Collected
           \/ results'[i] # None
           \/ results[i] = None /\ launcher[i].state \in {"writing", "written", "ok"}
  PROVE  OwnInv'
<1>1. ASSUME NEW f \in Executors PROVE Own(ex[f])'
  <2>1. PICK x \in Executions : x = ex[f] /\ Sure(x, Started) /\ Own(x)
    BY ExecAt DEF IInv, OwnInv
  <2>2. CASE x.pc = "running"
    <3>1. PICK i \in Started : i = x.id
      BY <2>1, <2>2 DEF Sure
    <3>2. /\ i \notin x.before /\ launcher[i].at = x.at /\ launcher[i].job = JobAt(x)
          /\ Alone /\ JobAt(x) \in Collected /\ launcher[i].state \in {"writing", "written", "ok"}
               => results[i] # None
      BY <2>1, <2>2, <3>1 DEF Own
    <3>3. FrameAt(i) /\ ex[f].pc # "idle" /\ Alone' = Alone
      BY <2>1, <2>2 DEF Frame, Alone
    <3>4. Own(x)'
      BY <3>1, <3>2, <3>3 DEF Own, FrameAt
    <3> QED BY <2>1, <3>4
  <2>3. CASE x.pc # "running"
    <3>1. Own(x)'
      BY <2>3 DEF Own
    <3> QED BY <2>1, <3>1
  <2> QED BY <2>2, <2>3
<1> QED BY <1>1 DEF OwnInv

LEMMA OutsideEvidence ==
  ASSUME IInv, FileInv, Five, Frame, UNCHANGED <<mode, dir, ex>>, OwnInv'
  PROVE  Five'
<1>1. Grows /\ AloneInv'
  BY DEF Grows, Five, AloneInv, Alone
<1>2. ASSUME NEW f \in Executors PROVE Judged(ex[f])'
  <2>1. PICK x \in Executions : x = ex[f] /\ (x.pc # "idle" => x.at \in Places) /\ Judged(x)
    BY ExecAt DEF IInv, Five, JudgedInv
  <2>2. Judged(x)'
    BY <1>1, <2>1, JudgedStays
  <2> QED BY <2>1, <2>2
<1>3. ASSUME NEW p \in Places, NEW j \in Collected, Passed(p, j) PROVE Rests(dir[p].receipt[j], p, j)'
  <2>1. PICK a : a = dir[p].receipt[j] /\ Rests(a, p, j)
    BY <1>3 DEF Five, PassInv
  <2>2. Rests(a, p, j)'
    BY <1>1, <2>1, RestsStays
  <2> QED BY <2>1, <2>2
<1>4. HeldInv'
  BY DEF Five, HeldInv, Concludes, Passed, JobAt
<1>5. PassInv'
  <2>1. \A p \in Places, j \in Collected : Passed(p, j)' <=> Passed(p, j)
    BY DEF Passed
  <2> QED BY <1>3, <2>1 DEF Five, PassInv
<1> QED BY <1>1, <1>2, <1>4, <1>5 DEF Five, JudgedInv

\* Where only launcher i moved, only launcher i is in question.
Leaves(i) ==
  \/ launcher'[i].state \notin {"writing", "written", "ok"}
  \/ launcher[i].job \notin Collected
  \/ results'[i] # None
  \/ results[i] = None /\ launcher[i].state \in {"writing", "written", "ok"}

LEMMA ClientOwn ==
  ASSUME IInv, FileInv, Five, Frame, UNCHANGED <<mode, dir, ex>>, NEW i \in Ids, Touches(i), Leaves(i)
  PROVE  Five'
<1>1. ASSUME NEW k \in Started PROVE Leaves(k)
  <2>1. CASE k = i
    BY <2>1
  <2>2. CASE k # i
    <3>1. launcher'[k] = launcher[k] /\ results'[k] = results[k]
      BY <2>2 DEF Touches, Started
    <3> QED BY <3>1 DEF Leaves
  <2> QED BY <2>1, <2>2
<1>2. OwnInv'
  BY <1>1, OwnOutside DEF Leaves, Five
<1> QED BY <1>2, OutsideEvidence

LEMMA StillEvidence ==
  ASSUME IInv, FileInv, Five, Frame, UNCHANGED <<mode, dir, ex, launcher, results>>
  PROVE  Five'
<1>1. OwnInv'
  BY OwnOutside DEF Five
<1> QED BY <1>1, OutsideEvidence

LEMMA BeginWriteEvidence ==
  ASSUME IInv, FileInv, Five, Frame, NEW i \in Ids, BeginWrite(i)
  PROVE  Five'
<1>1. UNCHANGED <<mode, dir, ex>> /\ i \in Started
  BY DEF BeginWrite, Client, Started
<1>2. \A k \in Ids : k # i => launcher'[k] = launcher[k]
  BY <1>1, ClientMoves DEF BeginWrite, Client, IInv
<1>3. results'[i] = Unreadable /\ \A k \in Ids : k # i => results'[k] = results[k]
  BY DEF BeginWrite, IInv, TypeOK
<1>4. Touches(i) /\ Leaves(i)
  BY <1>2, <1>3, ReadableOnly DEF Touches, Leaves
<1> QED BY <1>1, <1>4, ClientOwn

LEMMA EndWriteEvidence ==
  ASSUME IInv, FileInv, Five, Frame, NEW i \in Ids, EndWrite(i)
  PROVE  Five'
<1>1. UNCHANGED <<mode, dir, ex>> /\ i \in Started /\ launcher[i].state = "writing"
  BY DEF EndWrite, Client, Started
<1>2. \A k \in Ids : k # i => launcher'[k] = launcher[k]
  BY <1>1, ClientMoves DEF EndWrite, Client, IInv
<1>3. CASE results[i] = None
  <2>1. UNCHANGED results
    BY <1>3 DEF EndWrite
  <2>2. Touches(i) /\ Leaves(i)
    BY <1>1, <1>2, <1>3, <2>1 DEF Touches, Leaves
  <2> QED BY <1>1, <2>2, ClientOwn
<1>4. CASE results[i] # None
  <2>1. PICK report \in Outcomes[launcher[i].at[2]][launcher[i].job] :
          results' = [results EXCEPT ![i] = Named(report, launcher[i].head)]
    BY <1>4 DEF EndWrite, Named
  <2>2. results'[i] = Named(report, launcher[i].head) /\ \A k \in Ids : k # i => results'[k] = results[k]
    BY <2>1 DEF IInv, TypeOK
  <2>3. launcher[i] \in Launchers /\ launcher[i].job \in Collected
    BY <1>1 DEF Started, EndWrite, IInv, TypeOK
  <2>4. launcher[i].at[2] \in Stages /\ launcher[i].head \in {"sealed", "other"}
    BY <2>3, PlanTypes DEF Launchers
  <2>5. report \in Reports
    BY <2>3, <2>4, OutcomeAssumption
  <2>6. Named(report, launcher[i].head) \in Contents
    BY <2>4, <2>5, NamedReport DEF Contents
  <2>7. Touches(i) /\ Leaves(i)
    BY <1>2, <2>2, <2>6, ReadableOnly DEF Touches, Leaves
  <2> QED BY <1>1, <2>7, ClientOwn
<1> QED BY <1>3, <1>4

LEMMA ExitEvidence ==
  ASSUME IInv, FileInv, Five, Frame, NEW i \in Ids, Exit(i)
  PROVE  Five'
<1>1. UNCHANGED <<mode, dir, ex, results>> /\ i \in Started
  BY DEF Exit, Client, Started
<1>2. PICK s \in {"ok", "failed"} :
        /\ launcher' = [launcher EXCEPT ![i].state = s]
        /\ s = "ok" => launcher[i].job \notin Collected \/ launcher[i].state = "written"
  BY DEF Exit, Client
<1>3. launcher'[i].state = s /\ \A k \in Ids : k # i => launcher'[k] = launcher[k]
  BY <1>1, <1>2, ClientMoves DEF IInv
<1>4. Touches(i) /\ Leaves(i)
  BY <1>1, <1>2, <1>3 DEF Touches, Leaves
<1> QED BY <1>1, <1>4, ClientOwn

LEMMA TidyEvidence ==
  ASSUME IInv, FileInv, Five, Frame, NEW i \in Ids, Tidy(i)
  PROVE  Five'
<1>1. UNCHANGED <<mode, dir, ex>> /\ \A e \in Executors : ex[e].pc = "idle"
  BY DEF Tidy
<1>2. OwnInv'
  BY <1>1, OwnOutside DEF Five
<1> QED BY <1>1, <1>2, OutsideEvidence

LEMMA EvidencePreserved == IInv /\ EInv /\ [Next]_vars => EInv'
<1> SUFFICES ASSUME IInv, EInv, [Next]_vars PROVE EInv'
  OBVIOUS
<1>1. FileInv /\ Five /\ LedgerInv
  BY DEF EInv, Five
<1>2. FileInv' /\ Frame
  BY <1>1, FilesHold
<1>3. LedgerInv'
  BY <1>1, LedgerHolds
<1>4. ASSUME UNCHANGED <<mode, dir, ex, launcher, results>> PROVE Five'
  BY <1>1, <1>2, <1>4, StillEvidence
<1>5. Five'
  BY <1>1, <1>2, <1>4, ExecEvidence, BeginWriteEvidence, EndWriteEvidence, ExitEvidence,
     TidyEvidence DEF Next, Move, vars
<1> QED BY <1>2, <1>3, <1>5 DEF EInv, Five

LEMMA EvidenceInit == Init => EInv
<1> SUFFICES ASSUME Init PROVE EInv
  OBVIOUS
<1>1. \A e \in Executors : ex[e] = Idle /\ ex[e].pc = "idle"
  BY DEF Init, Idle
<1>2. \A i \in Ids : launcher[i] = None /\ results[i] = None
  BY DEF Init
<1>3. \A p \in Places : dir[p] = NoDir
  BY DEF Init
<1>4. \A p \in Places, j \in Collected : ~Passed(p, j)
  BY <1>3, PlanAssumption DEF Passed, NoDir
<1>5. FileInv /\ AloneInv /\ OwnInv
  BY <1>1, <1>2 DEF FileInv, FileAt, AloneInv, OwnInv, Own
<1>6. JudgedInv /\ HeldInv /\ PassInv
  BY <1>1, <1>4 DEF JudgedInv, Judged, HeldInv, PassInv, Concludes
<1>7. LedgerInv
  BY <1>1, <1>3 DEF LedgerInv, Done, Owns, NoDir
<1> QED BY <1>5, <1>6, <1>7 DEF EInv

LEMMA EvidenceInvariance == Spec => [](IInv /\ EInv)
<1>1. Init => IInv /\ EInv
  BY InitHolds, EvidenceInit
<1>2. IInv /\ EInv /\ [Next]_vars => (IInv /\ EInv)'
  BY NextPreserves, EvidencePreserved
<1> QED BY <1>1, <1>2, PTL DEF Spec

LEMMA EvidenceSuffices ==
  ASSUME IInv, EInv
  PROVE  PassRestsOnEvidence
<1>1. ASSUME NEW p \in Places, dir[p].ledger = "pass", NEW j \in JobsOf(p[2]) PROVE Passed(p, j)
  BY <1>1 DEF EInv, LedgerInv
<1>2. ASSUME NEW p \in Places, NEW j \in Collected, Passed(p, j)
      PROVE  LET shown == dir[p].receipt[j] IN
             /\ shown \in dir[p].artifacts
             /\ launcher[shown.id].job = j /\ launcher[shown.id].at[2] = p[2]
             /\ launcher[shown.id].head = "sealed"
             /\ \A k \in DOMAIN shown.content.records :
                  shown.content.records[k].holds \cap {"refusals", "attacks"} # {}
             /\ \A q \in Places \ {p} : Passed(q, j) => dir[q].receipt[j].id # shown.id
             /\ mode = "alone" => launcher[shown.id].at = p
  <2>1. PICK a \in Artifacts : a = dir[p].receipt[j] /\ Rests(a, p, j)
    BY <1>2 DEF EInv, PassInv, Rests, Evidence
  <2>2. \A q \in Places \ {p} : Passed(q, j) => dir[q].receipt[j].id # a.id
    BY <1>2, <2>1 DEF EInv, PassInv
  <2>3. /\ a \in dir[p].artifacts /\ launcher[a.id].job = j /\ launcher[a.id].at[2] = p[2]
        /\ launcher[a.id].head = "sealed" /\ Valid(a, p[2], j)
        /\ mode = "alone" => launcher[a.id].at = p
    BY <2>1 DEF Rests, Evidence, Comes, Alone
  <2>4. \A k \in DOMAIN a.content.records : a.content.records[k].holds \cap {"refusals", "attacks"} # {}
    BY <2>3, PlanTypes, ValidShows
  <2> QED BY <2>1, <2>2, <2>3, <2>4
<1> QED BY <1>1, <1>2 DEF PassRestsOnEvidence

\* For every plan, experiment and number of operators, evidence roots, crashes and
\* overlapping executions: a job that _run_job records as passed rests on an artifact in
\* custody that a launcher of that job and stage wrote at the sealed commit, whose records
\* show the refusals, and that no other passed job shows; the stage passes job by job.
THEOREM PassIsEvidence == Spec => []PassRestsOnEvidence
  BY EvidenceInvariance, EvidenceSuffices, PTL

================================================================================
