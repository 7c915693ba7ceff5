------------------------- MODULE MCAssessmentBatch -------------------------
(* Instances of AssessmentBatch for TLC. *)
EXTENDS AssessmentBatch, TLC

BatchSymmetry == Permutations(Workers)
=============================================================================
