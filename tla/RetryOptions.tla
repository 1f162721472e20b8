---------------------------- MODULE RetryOptions ----------------------------
(***************************************************************************)
(* The configuration of retry.Do (src/internal/retry/options.go and        *)
(* newDefaultRetryConfig in src/internal/b2types/b2types.go).             *)
(*                                                                         *)
(* A Config is a record.  Its hook fields say which function the field    *)
(* holds: "default" (the closure newDefaultRetryConfig installs),         *)
(* "caller" (the function the caller passed to an option) or "nil".  An   *)
(* Option is the change its closure makes to a Config: the field it      *)
(* assigns and the value, or no field at all for emptyOption.  Do applies *)
(* the caller's options in order, so a later option overrides an earlier. *)
(***************************************************************************)
EXTENDS Naturals, Sequences, SequencesExt

\* What a hook argument of an option may be.
HookArgs == {"caller", "nil"}

ConfigType ==
    [attempts : Nat, delay : Nat,
     dynamicAttempts : {"default"} \cup HookArgs, dynamicDelay : {"default"} \cup HookArgs,
     onRetry : {"default"} \cup HookArgs, retryIf : {"default"} \cup HookArgs,
     after : {"default"} \cup HookArgs]

\* Mutant: a default that retries until the function succeeds.
NewDefaultRetryConfigForever ==
    [attempts |-> 0, delay |-> 0,
     dynamicAttempts |-> "default", dynamicDelay |-> "default",
     onRetry |-> "default", retryIf |-> "default", after |-> "default"]

\* One attempt, no delay, hooks that change nothing, time.After.
NewDefaultRetryConfig ==
    [attempts |-> 1, delay |-> 0,
     dynamicAttempts |-> "default", dynamicDelay |-> "default",
     onRetry |-> "default", retryIf |-> "default", after |-> "default"]

emptyOption == [field |-> "none", value |-> "none"]

Attempts(attempts) == [field |-> "attempts", value |-> attempts]

Delay(delay) == [field |-> "delay", value |-> delay]

\* The hook setters that return emptyOption for a nil function.
DynamicAttampts(f) == IF f = "nil" THEN emptyOption ELSE [field |-> "dynamicAttempts", value |-> f]

DynamicDelay(f) == IF f = "nil" THEN emptyOption ELSE [field |-> "dynamicDelay", value |-> f]

OnRetry(f) == IF f = "nil" THEN emptyOption ELSE [field |-> "onRetry", value |-> f]

RetryIf(f) == IF f = "nil" THEN emptyOption ELSE [field |-> "retryIf", value |-> f]

\* WithAfter installs its argument unchecked, nil included.
WithAfter(f) == [field |-> "after", value |-> f]

\* opt(config): the option's closure run on the config.
ApplyOption(c, o) == IF o.field = "none" THEN c ELSE [c EXCEPT ![o.field] = o.value]

\* config := newDefaultRetryConfig(); for _, opt := range opts { opt(config) }
NewConfig(opts) == FoldLeft(ApplyOption, NewDefaultRetryConfig, opts)

=============================================================================
