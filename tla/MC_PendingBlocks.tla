-------------------------- MODULE MC_PendingBlocks --------------------------
(* Model-checking instance of PendingBlocks: submission goroutines are     *)
(* model values declared in the .cfg files.                                *)
EXTENDS PendingBlocks, TLC

(* Submission goroutines are interchangeable. *)
SubmitterSymmetry == Permutations(Submitters)
=============================================================================
