----------------------------- MODULE MCPushRetry -----------------------------
(* Small instances of PushRetry: an urgent call (priority 10) and a        *)
(* background one (priority 5), and policies a caller may supply.          *)
EXTENDS PushRetry, TLC

CONSTANTS urgent, background

MCCalls == {urgent, background}
MCPriority == urgent :> 10 @@ background :> 5

(* DEFAULT_RETRYABLE_REASONS as far as the answers tell them apart (what   *)
(* is "transient" is retried without it), in the set of a caller that      *)
(* lists a terminal reason by mistake.                                     *)
MCWideReasons == {"expired", "tooManyNow", "terminal"}
=============================================================================
