--------------------------- MODULE MCEvidenceStore ---------------------------
(***************************************************************************)
(* Instances of EvidenceStore for TLC.                                     *)
(***************************************************************************)
EXTENDS EvidenceStore

Ids2 == {1, 2}
Ids3 == {1, 2, 3}
=============================================================================
