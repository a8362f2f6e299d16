CONSTANTS
    Codes <- MCCodes
    ConfiguredMaxRetries <- MCZeroRetries
    ConfiguredRetryable <- MCRetryable
    InitialDelay <- MCInitialDelay
    MaxDelay <- MCMaxDelay
    BackoffFactor <- MCBackoffFactor
SPECIFICATION Spec
INVARIANT AttemptsWithinConfiguredBudget
\* A call ends when the interceptor returns.
CHECK_DEADLOCK FALSE
