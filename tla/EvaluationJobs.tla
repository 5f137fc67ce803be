------------------------------ MODULE EvaluationJobs ------------------------------
(***************************************************************************)
(* Experiments (evaluations/service.ts over the experiments of store.ts):  *)
(* a frozen plan of checks, run one by one by the job of a daemon, with a  *)
(* wait for the model judge or for setImmediate after each.  An experiment *)
(* is a row shared by every daemon over the database; a job belongs to the *)
(* daemon that started it and dies with it.  Experiments are numbered in   *)
(* the order of created_at.                                                *)
(***************************************************************************)
EXTENDS Datasets

CONSTANTS
  MaxActive,    \* MAX_ACTIVE_JOBS
  MaxKept,      \* MAX_EXPERIMENTS
  MaxStarted,   \* bound: experiments ever started
  MaxChecks     \* bound: checks of an experiment

VARIABLES
  experiment,  \* experiment -> its row, or None
  job,         \* experiment -> its job, or None
  daemons,     \* daemons in the order they started, the last one serves
  asked,       \* history: checks of each experiment a judge was asked about
  stranded     \* history: active rows a failure of the store left without a job

jobVars == <<experiment, job, daemons, asked, stranded>>

Experiments == 1 .. MaxStarted

Rules == {"code", "rubric", "unmatched"}

Verdicts == {"pass", "fail", "inconclusive"}

Experiment == [status : {"queued", "running", "completed", "cancelled"}, plan : Seq(Rules), done : Nat,
               error : {None, "interrupted"}, checks : Seq(Verdicts \cup {"pending"})]

Job == [phase : {"timer", "judging", "yielded", "over"}, daemon : Nat, generation : Nat,
        aborted : BOOLEAN, held : BOOLEAN, plan : Seq(Rules), got : Seq(Verdicts)]

ASSUME JobsAssumption ==
  MaxStarted \in Nat /\ None # "interrupted" /\ None \notin Experiment \cup Job

Kept == {e \in Experiments : experiment[e] # None}

Active == {e \in Kept : experiment[e].status \in {"queued", "running"}}

Serving == Len(daemons)

NewDaemon == [up |-> TRUE, closed |-> FALSE, generation |-> 0]

JobsInit ==
  /\ experiment = [e \in Experiments |-> None]
  /\ job = [e \in Experiments |-> None]
  /\ daemons = <<NewDaemon>>
  /\ asked = [e \in Experiments |-> <<>>]
  /\ stranded = {}

-----------------------------------------------------------------------------
(* Rows. *)

\* A row that has recorded the checks `got' of a plan.
Row(status, plan, got, error) ==
  [status |-> status, plan |-> plan, done |-> Len(got), error |-> error,
   checks |-> [i \in 1 .. Len(plan) |-> IF i <= Len(got) THEN got[i] ELSE "pending"]]

\* Mutant of Finished: the last recorded check is thrown away.
FinishedShort(row, status) ==
  [row EXCEPT !.status = status, !.error = "interrupted",
              !.checks = [i \in DOMAIN @ |-> IF i < row.done THEN @[i] ELSE "pending"]]

\* finishUnstarted
Finished(row, status) ==
  [row EXCEPT !.status = status, !.error = "interrupted",
              !.checks = [i \in DOMAIN @ |-> IF i <= row.done THEN @[i] ELSE "pending"]]

\* fold, through every result
Verdict(row) ==
  LET found == ToSet(row.checks)
  IN  IF "fail" \in found THEN "fail" ELSE IF found = {"pass"} THEN "pass" ELSE "inconclusive"

\* Mutant of Accepted: the token alone is compared.
AcceptedAnytime(e) == e \in Kept

\* The WHERE clause of updateExperiment; the token is the row's own.
Accepted(e) == e \in Active

\* What the plan of a revision may be: the rules of its cases, those of a case
\* whose input does not match its candidate's all unmatched.
Plans(cases) ==
  {FlattenSeq([i \in 1 .. Len(cases) |->
      IF cases[i].id \in unmatched THEN [r \in DOMAIN cases[i].rules |-> "unmatched"]
                                   ELSE cases[i].rules]) :
      unmatched \in SUBSET CaseIds(cases)}

-----------------------------------------------------------------------------
(* Requests. *)

\* Old terminal experiments make room, unless an evidence import holds them.
Evicted(victim) == [e \in Experiments |-> IF e = victim THEN None ELSE experiment[e]]

InsertExperiment(e, row, held) ==
  LET old == {x \in Kept \ Active : x \notin held}
  IN  /\ Cardinality(Active) < MaxActive
      /\ Cardinality(Kept) >= MaxKept => old # {}
      /\ experiment' = [Evicted(IF Cardinality(Kept) >= MaxKept THEN Min(old) ELSE None)
                          EXCEPT ![e] = row]

\* EvaluationService.start
Start(e, d, version, plan, held) ==
  LET s == daemons[Serving]
  IN  /\ s.up /\ ~s.closed
      /\ \A x \in Experiments : x < e <=> job[x] # None
      /\ HasRevision(d, version) /\ dataset[d][version] # <<>>
      /\ plan \in Plans(dataset[d][version]) \cap Seq(Rules) /\ Len(plan) <= MaxChecks
      /\ InsertExperiment(e, Row("queued", plan, <<>>, None), held)
      /\ job' = [job EXCEPT ![e] = [phase |-> "timer", daemon |-> Serving,
                   generation |-> s.generation, aborted |-> FALSE, held |-> TRUE,
                   plan |-> plan, got |-> <<>>]]
      /\ UNCHANGED <<daemons, asked, stranded>>

\* abort() and clearTimeout() of jobs that leave the map.
Dropped(es) ==
  [e \in Experiments |-> IF e \in es
     THEN [job[e] EXCEPT !.aborted = TRUE, !.held = FALSE,
                         !.phase = IF @ = "timer" THEN "over" ELSE @]
     ELSE job[e]]

HeldBy(n) == {e \in Experiments : job[e] # None /\ job[e].daemon = n /\ job[e].held}

\* cancel, by the daemon that serves; the job may be another's.
Cancel(e) ==
  /\ daemons[Serving].up /\ ~daemons[Serving].closed
  /\ e \in Active
  /\ experiment' = [experiment EXCEPT ![e] = Finished(@, "cancelled")]
  /\ job' = Dropped({e} \cap HeldBy(Serving))
  /\ stranded' = stranded \ {e}
  /\ UNCHANGED <<daemons, asked>>

\* close: every job of the map is cancelled, then the map is reset.
Close(n) ==
  /\ daemons[n].up /\ ~daemons[n].closed
  /\ daemons' = [daemons EXCEPT ![n].closed = TRUE, ![n].generation = @ + 1]
  /\ experiment' = [e \in Experiments |->
       IF e \in HeldBy(n) \cap Active THEN Finished(experiment[e], "cancelled") ELSE experiment[e]]
  /\ job' = Dropped(HeldBy(n))
  /\ UNCHANGED <<asked, stranded>>

-----------------------------------------------------------------------------
(* The job: run() between two of its waits. *)

Running(e, phase) == job[e] # None /\ job[e].phase = phase

Valid(e) ==
  LET j == job[e] IN
  ~daemons[j.daemon].closed /\ ~j.aborted /\ j.held /\ j.generation = daemons[j.daemon].generation

\* The end of run(), which also leaves the map.
Over(e) == job' = [job EXCEPT ![e].phase = "over", ![e].held = FALSE]

Stop(e) == ~Valid(e) /\ Over(e) /\ UNCHANGED <<experiment, daemons, asked, stranded>>

\* A check is recorded, unless the row was decided meanwhile.
Record(e, got) ==
  /\ IF Accepted(e)
     THEN /\ experiment' = [experiment EXCEPT ![e] = Row("running", job[e].plan, got, None)]
          /\ job' = [job EXCEPT ![e].phase = "yielded", ![e].got = got]
     ELSE Over(e) /\ UNCHANGED experiment
  /\ UNCHANGED <<daemons, asked, stranded>>

\* The loop, up to its next wait, once the row is known to be running.
Proceed(e) ==
  LET j == job[e]
      next == Len(j.got) + 1
  IN  IF next > Len(j.plan)
      THEN /\ Over(e)
           /\ experiment' = IF Accepted(e)
                THEN [experiment EXCEPT ![e] = Row("completed", j.plan, j.got, None)] ELSE experiment
           /\ UNCHANGED <<daemons, asked, stranded>>
      ELSE CASE j.plan[next] = "rubric" ->
                  /\ job' = [job EXCEPT ![e].phase = "judging"]
                  /\ asked' = [asked EXCEPT ![e] = Append(@, next)]
                  /\ experiment' = IF Accepted(e)
                       THEN [experiment EXCEPT ![e].status = "running"] ELSE experiment
                  /\ UNCHANGED <<daemons, stranded>>
             [] j.plan[next] = "code" -> \E v \in Verdicts : Record(e, Append(j.got, v))
             [] OTHER -> Record(e, Append(j.got, "inconclusive"))

\* The timer: the row becomes running before the loop starts.
Begin(e) ==
  /\ Running(e, "timer")
  /\ \/ Stop(e)
     \/ Valid(e) /\ Accepted(e) /\ Proceed(e)
     \/ Valid(e) /\ ~Accepted(e) /\ Over(e) /\ UNCHANGED <<experiment, daemons, asked, stranded>>

\* The judge answers, fails or gives up; only its result counts.
JudgeEnds(e) ==
  /\ Running(e, "judging")
  /\ Stop(e) \/ (Valid(e) /\ \E v \in Verdicts : Record(e, Append(job[e].got, v)))

Continue(e) == Running(e, "yielded") /\ (Stop(e) \/ (Valid(e) /\ Proceed(e)))

\* An exception in the loop: the row is finished, unless that fails as well.
Break(e) ==
  /\ \E phase \in {"timer", "judging", "yielded"} : Running(e, phase)
  /\ Valid(e) /\ Over(e)
  /\ \/ /\ experiment' = IF Accepted(e)
             THEN [experiment EXCEPT ![e] = Finished(@, "completed")] ELSE experiment
        /\ UNCHANGED stranded
     \/ stranded' = stranded \cup ({e} \cap Active) /\ UNCHANGED experiment
  /\ UNCHANGED <<daemons, asked>>

-----------------------------------------------------------------------------
(* Daemons. *)

Exit(n) ==
  /\ daemons[n].up
  /\ daemons' = [daemons EXCEPT ![n].up = FALSE]
  /\ job' = [e \in Experiments |->
       IF job[e] # None /\ job[e].daemon = n THEN [job[e] EXCEPT !.phase = "over", !.held = FALSE]
                                             ELSE job[e]]
  /\ UNCHANGED <<experiment, asked, stranded>>

\* Mutant of Recovered: what is left waits for a job again.
RecoveredNothing == experiment

\* The constructor decides what earlier daemons left and asks no judge again.
Recovered == [e \in Experiments |->
                IF e \in Active THEN Finished(experiment[e], "completed") ELSE experiment[e]]

\* A new daemon, even one that starts while the last is still there.
Boot ==
  /\ daemons' = Append(daemons, NewDaemon)
  /\ experiment' = Recovered
  /\ stranded' = {}
  /\ UNCHANGED <<job, asked>>

-----------------------------------------------------------------------------
(* Correctness. *)

\* Rows say what was done: a completed experiment without an error and a pass
\* verdict both have every check, an interrupted one keeps exactly what was
\* recorded; no judge is asked twice about a check, across restarts too.
ExperimentsHonest ==
  \A e \in Kept :
    LET row == experiment[e] IN
    /\ \A i \in DOMAIN row.plan : row.checks[i] = "pending" <=> i > row.done
    /\ e \notin Active /\ (row.error = None \/ Verdict(row) = "pass") => row.done = Len(row.plan)
    /\ e \notin Active /\ row.error = None => row.status = "completed"
    /\ IsInjective(asked[e])
    /\ \A i \in 1 .. row.done : row.plan[i] = "rubric" => i \in ToSet(asked[e])

\* Every active row still has a job that will decide it, in a daemon that is up,
\* unless the store failed or no daemon came after a crash: two rows without a
\* job would refuse every start.
ActiveIsOwned ==
  \A e \in Active \ stranded :
    \/ job[e].phase # "over" /\ Valid(e) /\ daemons[job[e].daemon].up
    \/ ~daemons[Serving].up

\* A late answer, a daemon left behind or a second cancellation never changes
\* an experiment that was decided.
TerminalIsFinal ==
  [][\A e \in Kept \ Active : experiment'[e] \in {experiment[e], None}]_experiment
=============================================================================
