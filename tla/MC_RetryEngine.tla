--------------------------- MODULE MC_RetryEngine ---------------------------
(* Small instances of RetryEngine for TLC.                                 *)
EXTENDS RetryEngineImpl

\* One success code, three codes of the default retryable set, the two
\* context codes and one code no policy retries.
MCCodes == {"OK", "Unavailable", "Internal", "DeadlineExceeded", "Canceled", "InvalidArgument"}

\* A custom policy of three retries whose third delay is clamped (100, 200, 300).
MCMaxRetries == 3
MCRetryable  == {"Unavailable", "Internal", "DeadlineExceeded"}
MCInitialDelay == 100
MCMaxDelay == 300
MCBackoffFactor == 2

\* The spec's "maxRetries = 0": NewClient replaces the policy by the default.
MCZeroRetries == 0
=============================================================================
