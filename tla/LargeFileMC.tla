----------------------------- MODULE LargeFileMC -----------------------------
(* Model-checking instance of LargeFile: three parts of distinct sizes, so *)
(* a lost or doubled size is visible in the total.                         *)
EXTENDS LargeFile

MCPartSize == [p \in 1..NumParts |-> p]

=============================================================================
