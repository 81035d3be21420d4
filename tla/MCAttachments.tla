--------------------------- MODULE MCAttachments ---------------------------
(* Instance of Attachments for TLC: old attachments on disk and new ones.  *)
EXTENDS Attachments, TLC

\* Requests are alike, old attachments are, and new ones.
Symmetry ==
  Permutations(Requests) \union Permutations(Legacy)
  \union Permutations(Atts \ Legacy)
=============================================================================
