CONSTANTS
    Codes <- MCCodes
    ConfiguredMaxRetries <- MCMaxRetries
    ConfiguredRetryable <- MCRetryable
    InitialDelay <- MCInitialDelay
    MaxDelay <- MCMaxDelay
    BackoffFactor <- MCBackoffFactor
SPECIFICATION Spec
INVARIANT TypeOK
INVARIANT ExhaustionOnlyAfterFullBudget
INVARIANT ReturnedOutcomeIsFirstFinal
INVARIANT PromptCancellation
INVARIANT BackoffSchedule
PROPERTIES CallSafety
\* A call ends when the interceptor returns.
CHECK_DEADLOCK FALSE
