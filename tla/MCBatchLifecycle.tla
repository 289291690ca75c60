------------------------- MODULE MCBatchLifecycle -------------------------
(* Instances of BatchLifecycle for TLC. *)
EXTENDS BatchLifecycle, TLC

CONSTANTS j1, r1, b1, b2, w1, w2, h1

OneOpenAI == [j \in Jobs |-> "openai"]
OneGemini == [j \in Jobs |-> "gemini"]
OneClaude == [j \in Jobs |-> "claude"]

\* Workers and batches are interchangeable.
Interchangeable == Permutations(Workers) \union Permutations(Batches)
=============================================================================
