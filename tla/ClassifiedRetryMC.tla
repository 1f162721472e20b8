-------------------------- MODULE ClassifiedRetryMC --------------------------
EXTENDS ClassifiedRetry

Resp(status, retryAfter) ==
    [kind |-> "response", method |-> Method, status |-> status,
     retryAfter |-> retryAfter, body |-> "json", reply |-> TRUE]

MCCallOutcomes ==
    { Resp(200, <<>>), Resp(503, <<>>), Resp(500, <<"1">>), Resp(401, <<>>),
      [kind |-> "transport", method |-> Method, cause |-> "reset"],
      [kind |-> "transport", method |-> Method, cause |-> "unknownAuthority"] }

(* The call site's options, with nil hooks after them; hooks and a delay *)
(* without an attempt count; nil hooks only; a fixed count of two.        *)
MCOptionLists ==
    { CallSiteOptions,
      CallSiteOptions \o <<RO!DynamicAttampts("nil"), RO!RetryIf("nil"),
                           RO!OnRetry("nil"), RO!DynamicDelay("nil")>>,
      <<RO!Delay(1), RO!RetryIf("caller"), RO!OnRetry("nil")>>,
      <<RO!DynamicAttampts("nil"), RO!WithAfter("caller")>>,
      <<RO!Attempts(2), RO!OnRetry("caller")>> }

=============================================================================
