-------------------------- MODULE MCClickPipeline --------------------------
(* Small instances of ClickPipeline for TLC.                               *)
EXTENDS ClickPipelineClaims, TLC

(* Processes of one kind are interchangeable; row ids are not, they are    *)
(* ordered.  Only for runs without temporal properties under fairness.     *)
ProcessSymmetry == Permutations(Publishers) \cup Permutations(Workers)
=============================================================================
