----------------------------- MODULE MCEvidenceImport -----------------------------
(***************************************************************************)
(* Small instances of EvidenceImport: an editor who imports and an         *)
(* administrator who also removes, over one project.                       *)
(***************************************************************************)
EXTENDS EvidenceImport

CONSTANTS raw, editor, admin

MCRetains == [r \in Reports |-> IF r = raw THEN 1 ELSE 0]

MCInitialRole == [a \in Actors |-> IF a = admin THEN "admin" ELSE "editor"]

MCSymmetry ==
    UNION {Permutations(Jobs), Permutations(Keys), Permutations(Entries),
           Permutations(Sweepers)}
=============================================================================
