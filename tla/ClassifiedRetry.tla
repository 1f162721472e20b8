--------------------------- MODULE ClassifiedRetry ---------------------------
(***************************************************************************)
(* retry.Do driving one API call of package base, with its policy taken   *)
(* from the classifier as spec section 4.5 says the callers do: the       *)
(* attempt count is MaxRetries of the last error, the delay its Backoff,  *)
(* only errors classified Retry are retried, onRetry never fails.  Other *)
(* option lists a caller may pass are checked beside this one.  The call is makeRequest for   *)
(* one method; once the context is cancelled the round trip fails with   *)
(* context.Canceled.  The callers are outside this repository, so this    *)
(* policy follows the spec.                                                *)
(***************************************************************************)
EXTENDS Naturals, Sequences

CONSTANTS
    Method,        \* the API method the call is made for
    CallOutcomes,  \* HTTP outcomes of one call while the context is live
    OptionLists,   \* the option lists the call sites pass
    MCMaxCalls     \* bound on the attempt counter

VARIABLES opts, pc, n, config, errs, result, ctxDone, fired, cancelledInWait

C == INSTANCE Classifier

RO == INSTANCE RetryOptions

CallErrors(cancelled) ==
    IF cancelled
        THEN {C!MakeRequest([kind |-> "transport", method |-> Method, cause |-> "canceled"])}
        ELSE {C!MakeRequest(o) : o \in CallOutcomes}

ClassifiedAttempts(attempt, a, err) == C!MaxRetries(err)
ClassifiedDelay(attempt, d, err) == C!Backoff(err)
ClassifiedRetryIf(attempt, err) == C!Action(err) = "Retry"
NeverAbort(attempt, err) == {C!NoError}

INSTANCE RetryDo WITH
    Outcomes <- CallErrors, NoError <- C!NoError, CtxErr <- C!OtherError,
    CallerDynamicAttempts <- ClassifiedAttempts, CallerDynamicDelay <- ClassifiedDelay,
    CallerRetryIf <- ClassifiedRetryIf, CallerOnRetry <- NeverAbort, MaxCalls <- MCMaxCalls

\* The options of a call site that follows the classifier.
CallSiteOptions ==
    <<RO!DynamicAttampts("caller"), RO!DynamicDelay("caller"),
      RO!RetryIf("caller"), RO!OnRetry("caller")>>

\* Do runs with the classifier's attempt count and retry predicate.
Classified == config.dynamicAttempts = "caller" /\ config.retryIf = "caller"

(* Do retries an error classified Retry while its MaxRetries budget lasts, *)
(* and surfaces it only once the budget is spent: every error but the     *)
(* last one was a Retry error met before its budget ran out, and a Retry  *)
(* error Do returns came at or after its budget.                           *)
RetryBudgetRespected ==
    Classified =>
    /\ \A i \in 1..Len(errs) - 1 :
          C!Action(errs[i]) = "Retry" /\ i < C!MaxRetries(errs[i])
    /\ (pc = "done" /\ errs /= <<>> /\ result = errs[Len(errs)]
          /\ C!Action(result) = "Retry")
          => Len(errs) >= C!MaxRetries(result)

=============================================================================
