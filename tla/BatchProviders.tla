-------------------------- MODULE BatchProviders --------------------------
(***************************************************************************)
(* The three batch provider adapters of llm/batch/providers: how each one  *)
(* translates the raw state of a batch at the provider into the status of  *)
(* a batch job, and when it hands out results.  The adapters keep no state *)
(* of their own; the batches live at the provider (external).              *)
(***************************************************************************)

Providers == {"openai", "gemini", "claude"}

\* BatchJobStatus; "absent" stands for a job row that does not exist yet.
JobStatus == {"created", "submitted", "in_progress", "completed", "failed",
              "cancelled", "expired"}

-----------------------------------------------------------------------------
\* STATUS_MAPPING of OpenAIBatchProvider, as the raw states mapped to a status.
OpenAIMapping ==
    [submitted   |-> {"validating"},
     in_progress |-> {"in_progress", "finalizing"},
     completed   |-> {"completed"},
     failed      |-> {"failed", "expired"},
     cancelled   |-> {"cancelled"},
     expired     |-> {}]

\* STATUS_MAPPING of GeminiBatchProvider.
GeminiMapping ==
    [submitted   |-> {"BATCH_STATE_UNSPECIFIED", "BATCH_STATE_PENDING",
                      "JOB_STATE_UNSPECIFIED", "JOB_STATE_QUEUED",
                      "JOB_STATE_PENDING"},
     in_progress |-> {"BATCH_STATE_RUNNING", "JOB_STATE_RUNNING",
                      "JOB_STATE_UPDATING"},
     completed   |-> {"BATCH_STATE_SUCCEEDED", "JOB_STATE_SUCCEEDED",
                      "JOB_STATE_PARTIALLY_SUCCEEDED"},
     failed      |-> {"BATCH_STATE_FAILED", "JOB_STATE_FAILED",
                      "JOB_STATE_PAUSED"},
     cancelled   |-> {"BATCH_STATE_CANCELLED", "JOB_STATE_CANCELLED",
                      "JOB_STATE_CANCELLING"},
     expired     |-> {"JOB_STATE_EXPIRED"}]

\* Mutant of ClaudeMapping: a batch being cancelled counts as complete.
ClaudeMappingHasty ==
    [submitted   |-> {},
     in_progress |-> {"in_progress"},
     completed   |-> {"ended", "canceling"},
     failed      |-> {"errored", "expired"},
     cancelled   |-> {},
     expired     |-> {}]

\* STATUS_MAPPING of ClaudeBatchProvider.
ClaudeMapping ==
    [submitted   |-> {},
     in_progress |-> {"in_progress"},
     completed   |-> {"ended"},
     failed      |-> {"errored", "expired"},
     cancelled   |-> {"canceling"},
     expired     |-> {}]

StatusMapping(p) ==
    CASE p = "openai" -> OpenAIMapping
      [] p = "gemini" -> GeminiMapping
      [] p = "claude" -> ClaudeMapping

Mapped(p, raw, s) == raw \in StatusMapping(p)[s]

\* STATUS_MAPPING.get(raw, raw): a raw state without an entry passes through
\* unchanged and is a job status only if it happens to be spelled like one.
Normalize(p, raw) ==
    CASE Mapped(p, raw, "submitted")   -> "submitted"
      [] Mapped(p, raw, "in_progress") -> "in_progress"
      [] Mapped(p, raw, "completed")   -> "completed"
      [] Mapped(p, raw, "failed")      -> "failed"
      [] Mapped(p, raw, "cancelled")   -> "cancelled"
      [] Mapped(p, raw, "expired")     -> "expired"
      [] OTHER                         -> raw

-----------------------------------------------------------------------------
(* The failures of a call to a provider, told apart by the keywords the    *)
(* adapters look for in the message of the exception: "rate_limit" (rate   *)
(* limit, 429), "timeout", "unavailable" (temporarily, 502, 503),          *)
(* "network", "rejected" (unauthorized, invalid, not found, 401, 403, 404) *)
(* and "unknown" for any other text.                                       *)

Failures == {"rate_limit", "timeout", "unavailable", "network", "rejected", "unknown"}

\* submit: the failures that raise ProviderTransientError; the rest, an unknown one
\* included, raise ProviderPermanentError.
OpenAISubmitTransient == {"rate_limit", "timeout", "unavailable"}
GeminiSubmitTransient == {"rate_limit", "timeout", "unavailable"}
ClaudeSubmitTransient == {"rate_limit", "timeout", "unavailable"}

SubmitRetryable(p) ==
    CASE p = "openai" -> OpenAISubmitTransient
      [] p = "gemini" -> GeminiSubmitTransient
      [] p = "claude" -> ClaudeSubmitTransient

\* poll_status: the failures that raise ProviderPermanentError; an unknown one is
\* transient here.
OpenAIPollPermanent == {"rejected"}
GeminiPollPermanent == {"rejected"}
ClaudePollPermanent == {"rejected"}

PollFatal(p) ==
    CASE p = "openai" -> OpenAIPollPermanent
      [] p = "gemini" -> GeminiPollPermanent
      [] p = "claude" -> ClaudePollPermanent

\* fetch_results: the failures that raise ProviderTransientError; a rate limit is
\* not among the keywords it looks for.
OpenAIFetchTransient == {"timeout", "network", "unavailable"}
GeminiFetchTransient == {"timeout", "network", "unavailable"}
ClaudeFetchTransient == {"timeout", "network", "unavailable"}

FetchRetryable(p) ==
    CASE p = "openai" -> OpenAIFetchTransient
      [] p = "gemini" -> GeminiFetchTransient
      [] p = "claude" -> ClaudeFetchTransient

\* The check fetch_results makes on the state of the batch before it reads any
\* result; every other state raises ProviderPermanentError.
OpenAIFetchReady(raw) == raw = "completed"
GeminiFetchReady(raw) == raw = "JOB_STATE_SUCCEEDED"
ClaudeFetchReady(raw) == Normalize("claude", raw) = "completed"

FetchReady(p, raw) ==
    CASE p = "openai" -> OpenAIFetchReady(raw)
      [] p = "gemini" -> GeminiFetchReady(raw)
      [] p = "claude" -> ClaudeFetchReady(raw)

\* BatchProviderRegistry.create_provider with a runtime configuration that has
\* the given keys: every adapter's constructor raises ProviderPermanentError
\* when there is no api_key.
CreateProvider(config) ==
    IF "api_key" \in config THEN "instance" ELSE "ProviderPermanentError"

-----------------------------------------------------------------------------
(* The provider's side (external).                                         *)

\* Failures after which the provider may have accepted the request all the same.
Ambiguous == {"timeout", "unavailable", "network", "unknown"}

\* States a batch passes through at the provider.
Pending(p) ==
    CASE p = "openai" -> {"validating", "in_progress", "finalizing", "cancelling"}
      [] p = "gemini" -> {"JOB_STATE_QUEUED", "JOB_STATE_PENDING",
                          "JOB_STATE_RUNNING", "JOB_STATE_UPDATING",
                          "JOB_STATE_CANCELLING", "JOB_STATE_PAUSED"}
      [] p = "claude" -> {"in_progress", "canceling"}

\* States a batch never leaves.
Final(p) ==
    CASE p = "openai" -> {"completed", "failed", "expired", "cancelled"}
      [] p = "gemini" -> {"JOB_STATE_SUCCEEDED", "JOB_STATE_PARTIALLY_SUCCEEDED",
                          "JOB_STATE_FAILED", "JOB_STATE_CANCELLED",
                          "JOB_STATE_EXPIRED"}
      [] p = "claude" -> {"ended"}

RawStates(p) == Pending(p) \union Final(p)

\* The state of a batch the provider has just accepted.
InitialRaw(p) ==
    CASE p = "openai" -> "validating"
      [] p = "gemini" -> "JOB_STATE_PENDING"
      [] p = "claude" -> "in_progress"
=============================================================================
