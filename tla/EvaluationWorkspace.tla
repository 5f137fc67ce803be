--------------------------- MODULE EvaluationWorkspace ---------------------------
(***************************************************************************)
(* Datasets, review queues and experiments in one database, as the server  *)
(* composes them: reviews grow datasets, experiments freeze a revision,    *)
(* and Clear workspace removes everything under the jobs that run.  The    *)
(* scenario of a behaviour, fixed at the start, bounds what is asked.      *)
(***************************************************************************)
EXTENDS ReviewQueue, EvaluationJobs

CONSTANT
  Scenarios   \* [imports : sets of case lists, added : set of rule lists, sources : sources
              \*  under review, revisions : of reviews, drops, held, overlap : BOOLEAN, starts, daemons, breaks, clears : Nat]

ASSUME ScenariosAssumption ==
  \A s \in Scenarios : s.sources \subseteq Sources /\ \A cases \in s.imports : cases \in Seq(ToSet(cases))

VARIABLES scenario, breaks, clears

vars == <<dataset, issued, reviewVars, jobVars, scenario, breaks, clears>>

Counted == UNCHANGED <<scenario, breaks, clears>>

Init ==
  /\ DatasetsInit /\ ReviewInit /\ JobsInit
  /\ scenario \in Scenarios /\ breaks = 0 /\ clears = 0

Curate ==
  /\ \E d \in DatasetIds :
          \/ \E cases \in scenario.imports : CreateDataset(d, cases)
          \/ /\ Exists(d)
             /\ \E listed \in SUBSET CaseIds(Last(dataset[d])), rules \in scenario.added :
                  \E ids \in SetToSeqs(listed) : UpdateDataset(d, Latest(d), ids, rules)
  /\ UNCHANGED <<reviewVars, jobVars>> /\ Counted

Review ==
  /\ \E q \in QueueIds :
       \/ scenario.sources # {} /\ CreateReviewQueue(q)
       \/ DeleteReviewQueue(q)
       \/ \E s \in scenario.sources :
            \/ InsertReviewItem(q, s)
            \/ \E expected \in 1 .. MaxOrdinal :
                 \/ DeleteReviewItem(q, s, expected)
                 \/ \E kind \in Kinds, mutation \in Mutations, draft \in Drafts :
                      MutateReviewItem(q, s, kind, expected, mutation, draft)
       \/ \E d \in DatasetIds, expected \in 1 .. MaxRevisions, key \in Keys :
            \E some \in (SUBSET scenario.sources) \ {{}} : \E chosen \in [some -> 1 .. MaxOrdinal] :
              Promote(q, d, expected, key, chosen)
  /\ \A p \in DOMAIN item : item'[p] # None => item'[p].revision <= scenario.revisions
  /\ UNCHANGED jobVars /\ Counted

Drop ==
  /\ scenario.drops
  /\ (\E d \in DatasetIds : DropDataset(d)) \/ (\E s \in Sources : DeleteSource(s))
  /\ UNCHANGED jobVars /\ Counted

Request ==
  /\ \E e \in Experiments :
       \/ /\ e <= scenario.starts
          /\ \E d \in DatasetIds, version \in 1 .. MaxRevisions :
               /\ HasRevision(d, version)
               /\ \E plan \in Plans(dataset[d][version]),
                     held \in IF scenario.held THEN SUBSET (Kept \ Active) ELSE {{}} :
                    Start(e, d, version, plan, held)
       \/ Cancel(e)
  /\ UNCHANGED <<dataset, issued, reviewVars>> /\ Counted

Work ==
  /\ \E e \in Experiments : Begin(e) \/ JudgeEnds(e) \/ Continue(e)
  /\ UNCHANGED <<dataset, issued, reviewVars>> /\ Counted

Broken ==
  /\ breaks < scenario.breaks /\ breaks' = breaks + 1
  /\ \E e \in Experiments : Break(e)
  /\ UNCHANGED <<dataset, issued, reviewVars, scenario, clears>>

Process ==
  /\ \/ \E n \in DOMAIN daemons : scenario.daemons > 1 /\ (Close(n) \/ Exit(n))
     \/ /\ Serving < scenario.daemons
        /\ scenario.overlap \/ ~daemons[Serving].up
        /\ Boot
  /\ UNCHANGED <<dataset, issued, reviewVars>> /\ Counted

\* POST /api/clear, once the other services are drained: the jobs are dropped,
\* then every table is emptied in one transaction, or the transaction fails.
Clear ==
  /\ clears < scenario.clears /\ clears' = clears + 1
  /\ daemons[Serving].up /\ ~daemons[Serving].closed
  /\ daemons' = [daemons EXCEPT ![Serving].generation = @ + 1]
  /\ job' = Dropped(HeldBy(Serving))
  /\ \/ /\ dataset' = [d \in DatasetIds |-> <<>>]
        /\ next' = [q \in QueueIds |-> 0]
        /\ item' = [p \in DOMAIN item |-> None]
        /\ receipts' = {}
        /\ experiment' = [e \in Experiments |-> None]
        /\ UNCHANGED stranded
     \/ /\ stranded' = stranded \cup Active
        /\ UNCHANGED <<dataset, next, item, receipts, experiment>>
  /\ UNCHANGED <<issued, taken, asked, scenario, breaks>>

Next == Curate \/ Review \/ Drop \/ Request \/ Work \/ Broken \/ Process \/ Clear

Spec == Init /\ [][Next]_vars
=============================================================================
