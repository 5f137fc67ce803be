-------------------------------- MODULE Datasets --------------------------------
(***************************************************************************)
(* Evaluation datasets (evaluations/store.ts): a dataset is a line of      *)
(* immutable revisions, each a list of cases, changed by a writer that     *)
(* names the version it read.  A case is its identity and the kinds of its *)
(* rules; names, inputs and tags are left out.                             *)
(***************************************************************************)
EXTENDS Naturals, Sequences, FiniteSets, SequencesExt

CONSTANTS
  DatasetIds,    \* UUIDs createDataset may draw
  MaxDatasets,   \* MAX_DATASETS
  MaxRevisions,  \* MAX_REVISIONS
  None

ASSUME DatasetBounds == MaxDatasets \in Nat \ {0} /\ MaxRevisions \in Nat \ {0}

VARIABLES
  dataset,  \* DatasetIds -> its revisions, the first with its creation; <<>> if there is none
  issued    \* UUIDs given to a dataset or a queue: never given again

Exists(d) == dataset[d] # <<>>

Latest(d) == Len(dataset[d])

HasRevision(d, version) == version \in 1 .. Latest(d)

CaseIds(cases) == {c.id : c \in ToSet(cases)}

DatasetsInit == dataset = [d \in DatasetIds |-> <<>>] /\ issued = {}

CreateDataset(d, cases) ==
  /\ d \notin issued
  /\ Cardinality({e \in DatasetIds : Exists(e)}) < MaxDatasets
  /\ dataset' = [dataset EXCEPT ![d] = <<cases>>]
  /\ issued' = issued \cup {d}

\* appendRevisionInTransaction
Appendable(d, expected) == Exists(d) /\ Latest(d) = expected /\ expected < MaxRevisions

AppendRevision(d, expected, cases) ==
  /\ Appendable(d, expected)
  /\ dataset' = [dataset EXCEPT ![d] = Append(@, cases)]

\* An editor lists cases of the latest revision, each once and in any order, and
\* may add one (freezeCases): a case it lists is found by its identity. The dataset
\* had the same version when the draft was read and when it is saved.
Frozen(prior, ids) ==
  [i \in DOMAIN ids |-> CHOOSE c \in ToSet(prior) : c.id = ids[i]]

UpdateDataset(d, expected, ids, rules) ==
  /\ Exists(d)
  /\ LET added == IF rules = <<>> THEN <<>> ELSE <<[id |-> <<d, expected + 1>>, rules |-> rules]>>
     IN  AppendRevision(d, expected, Frozen(Last(dataset[d]), ids) \o added)
  /\ UNCHANGED issued

\* With its revisions, which reviews' receipts refer to.
DeleteDataset(d) ==
  /\ Exists(d)
  /\ dataset' = [dataset EXCEPT ![d] = <<>>]
  /\ UNCHANGED issued
=============================================================================
