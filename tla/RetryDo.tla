------------------------------- MODULE RetryDo -------------------------------
(***************************************************************************)
(* retry.Do (src/internal/b2types/b2types.go, with the options of          *)
(* src/internal/retry/options.go): runs a function until it succeeds, the *)
(* attempts run out, retryIf refuses, onRetry fails, or the context is    *)
(* cancelled while it waits between attempts.                              *)
(*                                                                         *)
(* The hooks of Config are operator constants, so a user of the harness   *)
(* instantiates this module WITH its own, and chooses the option lists a  *)
(* caller passes.  Time is abstracted: the delay only decides when the    *)
(* timer of config.after fires, and the timer may fire at any moment      *)
(* after the wait began.  The context is cancelled by its owner at any    *)
(* moment.  Calling a hook that holds nil panics.                          *)
(***************************************************************************)
EXTENDS Naturals, Sequences

CONSTANTS
    Outcomes(_),            \* what retryableFunc may return, given ctx is done
    NoError,                \* the nil error
    CtxErr,                 \* ctx.Err() once the context is cancelled
    OptionLists,            \* the opts ... Option lists callers pass
    CallerDynamicAttempts(_, _, _), \* the caller's dynamicAttempts(n, attempts, err)
    CallerDynamicDelay(_, _, _),    \* the caller's dynamicDelay(n, delay, err)
    CallerRetryIf(_, _),    \* the caller's retryIf(n, err)
    CallerOnRetry(_, _),    \* the set of errors the caller's onRetry(n, err) may return
    MaxCalls                \* bound on the attempt counter n

ASSUME MaxCalls \in Nat \ {0}

O == INSTANCE RetryOptions

VARIABLES
    opts,      \* the options Do was called with
    pc,        \* "start", "call", "wait", "done" or "panic"
    n,         \* the attempt counter n
    config,    \* the Config: attempts and delay change as Do runs
    errs,      \* history: the errors retryableFunc returned, in order
    result,    \* the error Do returned, once pc = "done"
    ctxDone,   \* the context has been cancelled
    fired,     \* the timer of the current wait has fired
    cancelledInWait \* history: the context was cancelled while Do waited

vars == <<opts, pc, n, config, errs, result, ctxDone, fired, cancelledInWait>>

\* Do(ctx, retryableFunc, opts...) with a context that may already be done.
Init ==
    /\ opts \in OptionLists
    /\ pc = "start" /\ n = 0
    /\ errs = <<>> /\ result = NoError
    /\ ctxDone \in BOOLEAN
    /\ fired = FALSE /\ cancelledInWait = FALSE
    /\ config = O!NewConfig(opts)

(* if err := ctx.Err(); err != nil { return err }; the options are folded *)
(* into the config in Init, which no step before the loop can observe.    *)
Begin ==
    /\ pc = "start"
    /\ IF ctxDone THEN pc' = "done" /\ result' = CtxErr
                  ELSE pc' = "call" /\ UNCHANGED result
    /\ UNCHANGED <<opts, n, config, errs, ctxDone, fired, cancelledInWait>>

Return(err) == pc' = "done" /\ result' = err

\* A call of a hook field holding nil: a nil func call panics out of Do.
Panic == pc' = "panic" /\ UNCHANGED result

(* The hooks of the config: the defaults of newDefaultRetryConfig return  *)
(* attempts and delay unchanged, retry every error and never abort.       *)
DynAttempts(m, a, err) ==
    IF config.dynamicAttempts = "caller" THEN CallerDynamicAttempts(m, a, err) ELSE a

DynDelay(m, d, err) ==
    IF config.dynamicDelay = "caller" THEN CallerDynamicDelay(m, d, err) ELSE d

\* Mutant: the retryIf check dropped.
RetriesDropped(m, err) == TRUE

Retries(m, err) == IF config.retryIf = "caller" THEN CallerRetryIf(m, err) ELSE TRUE

OnRetryResults(m, err) == IF config.onRetry = "caller" THEN CallerOnRetry(m, err) ELSE {NoError}

\* config.attempts != 0 && n >= config.attempts: 0 means no limit.
Exhausted(m, a) == a /= 0 /\ m >= a

\* Do leaves the loop by step, with config.attempts = a.
Leave(a, step) == step /\ config' = [config EXCEPT !.attempts = a] /\ UNCHANGED fired

(* config.delay = config.dynamicDelay(n, config.delay, err), then the     *)
(* select on config.after(config.delay).                                  *)
StartWait(m, a, err) ==
    /\ config' = [config EXCEPT !.attempts = a, !.delay = DynDelay(m, config.delay, err)]
    /\ IF config.dynamicDelay = "nil" \/ config.after = "nil"
          THEN Panic /\ UNCHANGED fired
          ELSE pc' = "wait" /\ fired' = FALSE /\ UNCHANGED result

(* After an error: dynamicAttempts, the attempts check, retryIf, onRetry  *)
(* and the wait, in the order the loop reaches them; each check may end  *)
(* Do, and the first nil hook reached panics.                              *)
AfterError(m, err) ==
    LET a == DynAttempts(m, config.attempts, err) IN
    IF config.dynamicAttempts = "nil" THEN Panic /\ UNCHANGED <<config, fired>>
    ELSE IF Exhausted(m, a) THEN Leave(a, Return(err))
    ELSE IF config.retryIf = "nil" THEN Leave(a, Panic)
    ELSE IF ~Retries(m, err) THEN Leave(a, Return(err))
    ELSE IF config.onRetry = "nil" THEN Leave(a, Panic)
    ELSE \E h \in OnRetryResults(m, err) :
           IF h /= NoError THEN Leave(a, Return(h)) ELSE StartWait(m, a, err)

(* One pass of the loop up to the select: n++, the call, and on an error *)
(* AfterError.  The counter saturates at MaxCalls (the Go counter is a    *)
(* uint) and the history keeps the first MaxCalls errors.                  *)
Call ==
    LET m == IF n < MaxCalls THEN n + 1 ELSE n IN
    /\ pc = "call"
    /\ n' = m
    /\ \E err \in Outcomes(ctxDone) :
         /\ errs' = IF Len(errs) < MaxCalls THEN Append(errs, err) ELSE errs
         /\ IF err = NoError
               THEN Return(NoError) /\ UNCHANGED <<config, fired>>
               ELSE AfterError(m, err)
    /\ UNCHANGED <<opts, ctxDone, cancelledInWait>>

\* The timer of config.after(config.delay) fires.
TimerFires ==
    /\ pc = "wait" /\ ~fired
    /\ fired' = TRUE
    /\ UNCHANGED <<opts, pc, n, config, errs, result, ctxDone, cancelledInWait>>

\* The owner of ctx cancels it.
Cancel ==
    /\ ~ctxDone
    /\ ctxDone' = TRUE
    /\ cancelledInWait' = (cancelledInWait \/ pc = "wait")
    /\ UNCHANGED <<opts, pc, n, config, errs, result, fired>>

\* Mutant: the select waits on a timer channel that never delivers.
WakeIgnoresTimer ==
    /\ pc = "wait"
    /\ ctxDone /\ Return(CtxErr)
    /\ UNCHANGED <<opts, n, config, errs, ctxDone, fired, cancelledInWait>>

(* The select: a ready timer starts the next attempt, a done context      *)
(* returns ctx.Err(); when both are ready Go picks either.                 *)
Wake ==
    /\ pc = "wait"
    /\ \/ fired /\ pc' = "call" /\ UNCHANGED result
       \/ ctxDone /\ Return(CtxErr)
    /\ UNCHANGED <<opts, n, config, errs, ctxDone, fired, cancelledInWait>>

Next == Begin \/ Call \/ TimerFires \/ Cancel \/ Wake

(* The goroutine running Do keeps running and a timer eventually fires;    *)
(* nobody has to cancel the context.                                       *)
Spec == Init /\ [][Next]_vars /\ WF_vars(Begin) /\ WF_vars(Call)
                              /\ WF_vars(TimerFires) /\ WF_vars(Wake)

-----------------------------------------------------------------------------
TypeOK ==
    /\ pc \in {"start", "call", "wait", "done", "panic"}
    /\ n \in 0..MaxCalls
    /\ config \in O!ConfigType
    /\ errs \in Seq(Outcomes(FALSE) \cup Outcomes(TRUE))
    /\ ctxDone \in BOOLEAN /\ fired \in BOOLEAN /\ cancelledInWait \in BOOLEAN

\* An option that sets the attempt count or a dynamicAttempts function.
SetsAttempts(o) == o.field \in {"attempts", "dynamicAttempts"}

(* Spec section 4.5: retry is opt-in per call site.  Unless one of the    *)
(* caller's options sets the attempt count or installs a dynamicAttempts *)
(* function, newDefaultRetryConfig's single attempt stands: Do calls the *)
(* operation at most once, whatever it returns and the other hooks do.   *)
NoImplicitRetry ==
    (\A i \in DOMAIN opts : ~SetsAttempts(opts[i])) => n <= 1

\* Do returns, however the calls fail, unless the hooks say retry forever.
EventuallyReturns == <>(pc = "done")

(* Spec section 8: a context cancelled while Do waits between attempts    *)
(* makes Do return the context's error, not the operation's.               *)
CancelledWaitReturnsCtxErr ==
    (pc = "done" /\ cancelledInWait) => result = CtxErr

=============================================================================
