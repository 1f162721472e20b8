\* b2_finish_large_file (budget 5) under retry.Do: success, a 503, a 500
\* with Retry-After, a 401, a reset connection and an untrusted TLS chain,
\* under the call site's options and four other option lists.
CONSTANTS
    Method = "b2_finish_large_file"
    CallOutcomes <- MCCallOutcomes
    MCMaxCalls = 6
    OptionLists <- MCOptionLists
SPECIFICATION Spec
INVARIANT RetryBudgetRespected
INVARIANT CancelledWaitReturnsCtxErr
INVARIANT NoImplicitRetry
PROPERTY EventuallyReturns
CHECK_DEADLOCK FALSE
