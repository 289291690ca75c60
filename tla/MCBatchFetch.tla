--------------------------- MODULE MCBatchFetch ---------------------------
(* Instances of BatchFetch for TLC. *)
EXTENDS BatchFetch, TLC

CONSTANTS w1, w2

Interchangeable == Permutations(Workers)
=============================================================================
