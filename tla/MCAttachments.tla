--------------------------- MODULE MCAttachments ---------------------------
(* Attachments with its files, messages and requests interchangeable. *)
EXTENDS Attachments, TLC

Symmetry == Permutations(Files) \cup Permutations(Messages) \cup Permutations(Requests)
=============================================================================
