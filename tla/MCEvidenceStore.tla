----------------------------- MODULE MCEvidenceStore -----------------------------
(***************************************************************************)
(* A small instance of EvidenceStore: three operations of one member whose *)
(* role changes, a report whose raw bytes are kept and one whose are not.  *)
(* Job ids and operation keys are interchangeable.                         *)
(***************************************************************************)
EXTENDS EvidenceStore, TLC

CONSTANTS j1, j2, j3, k1, k2, k3, raw

MCRetains == [r \in Reports |-> IF r = raw THEN 1 ELSE 0]

MCInitialRole == [a \in Actors |-> "admin"]

MCSymmetry == Permutations({j1, j2, j3}) \cup Permutations({k1, k2, k3})
=============================================================================
