----------------------------- MODULE ApnsReasons -----------------------------
(***************************************************************************)
(* What becomes of an answer APNs refuses a request with: the classes of   *)
(* packages/push (errors.ts), the generated tables of reasons (reasons.ts),*)
(* the reading of the answer and the decision to retry (client.ts), the    *)
(* catalogue entries the classes are bound to (packages/traps), and the    *)
(* copy of the guide in scripts/send-apns.mjs.                             *)
(*                                                                         *)
(* An answer is its status, its `reason`, and whether Retry-After is 0.    *)
(* The reason "unreadable" stands for a body without one, "unlisted" for   *)
(* one no table has.                                                       *)
(***************************************************************************)
EXTENDS Integers, Sequences

(* The reasons with a class of their own, and the name its instances have: *)
(* what the SDK may have got wrong, what it never should, and what the     *)
(* provider or the service is at fault for.                                *)
CallerErrors ==
  [BadDeviceToken |-> "BadDeviceTokenError",
   InvalidProviderToken |-> "InvalidProviderTokenError",
   ExpiredProviderToken |-> "ExpiredProviderTokenError",
   TopicDisallowed |-> "TopicDisallowedError", Unregistered |-> "UnregisteredError",
   PayloadTooLarge |-> "PayloadTooLargeError", BadPriority |-> "BadPriorityError",
   BadExpirationDate |-> "BadExpirationDateError", BadDate |-> "BadDateError",
   MissingTopic |-> "MissingTopicError", MissingChannelId |-> "MissingChannelIdError",
   BadChannelId |-> "BadChannelIdError", ChannelNotRegistered |-> "ChannelNotRegisteredError",
   CannotCreateChannelConfig |-> "CannotCreateChannelConfigError",
   InvalidPushType |-> "InvalidPushTypeError", FeatureNotEnabled |-> "FeatureNotEnabledError",
   MissingPushType |-> "MissingPushTypeError"]

RequestErrors ==
  [BadCollapseId |-> "BadCollapseIdError", BadMessageId |-> "BadMessageIdError",
   BadTopic |-> "BadTopicError", DeviceTokenNotForTopic |-> "DeviceTokenNotForTopicError",
   DuplicateHeaders |-> "DuplicateHeadersError", IdleTimeout |-> "IdleTimeoutError",
   MissingDeviceToken |-> "MissingDeviceTokenError", PayloadEmpty |-> "PayloadEmptyError",
   BadCertificate |-> "BadCertificateError",
   BadCertificateEnvironment |-> "BadCertificateEnvironmentError",
   MissingProviderToken |-> "MissingProviderTokenError", BadPath |-> "BadPathError",
   MethodNotAllowed |-> "MethodNotAllowedError"]

ServiceErrors ==
  [TooManyProviderTokenUpdates |-> "TooManyProviderTokenUpdatesError",
   Forbidden |-> "ForbiddenError", InternalServerError |-> "InternalServerError",
   ServiceUnavailable |-> "ServiceUnavailableError", TooManyRequests |-> "TooManyRequestsError"]

TypedReasons == DOMAIN CallerErrors \cup DOMAIN RequestErrors \cup DOMAIN ServiceErrors

(* The name of the class of a reason: the key of every other table.        *)
ClassOf(reason) ==
  CASE reason \in DOMAIN CallerErrors -> CallerErrors[reason]
    [] reason \in DOMAIN RequestErrors -> RequestErrors[reason]
    [] reason \in DOMAIN ServiceErrors -> ServiceErrors[reason]

ApnsClasses == {ClassOf(reason) : reason \in TypedReasons} \cup {"UnknownApnsError"}

(* The classes of the package that are no ApnsError.                       *)
ClientClasses ==
  {"CreateChannelResponseError", "AbortError", "InvalidSnapshotError",
   "ClientClosedError", "MissingApnsConfigError", "MalformedApnsConfigError",
   "TokenEnvironmentMismatchError"}

(* reasonToError: every other reason is an UnknownApnsError that keeps it. *)
reasonToError(reason) ==
  IF reason \in TypedReasons THEN ClassOf(reason) ELSE "UnknownApnsError"

-----------------------------------------------------------------------------
(* The tables generated from data/apns-reasons.json.                       *)

(* The entries of the package's guide, by the first letter.                *)
ReasonGuide ==
  {"BadCertificate", "BadCertificateEnvironment", "BadChannelId", "BadCollapseId",
   "BadDate", "BadDeviceToken", "BadExpirationDate", "BadMessageId", "BadPath",
   "BadPriority", "BadTopic", "CannotCreateChannelConfig", "ChannelNotRegistered",
   "DeviceTokenNotForTopic", "DuplicateHeaders", "ExpiredProviderToken",
   "FeatureNotEnabled", "Forbidden", "IdleTimeout", "InternalServerError",
   "InvalidProviderToken", "InvalidPushType", "MethodNotAllowed", "MissingChannelId",
   "MissingDeviceToken", "MissingProviderToken", "MissingPushType", "MissingTopic",
   "PayloadEmpty", "PayloadTooLarge", "ServiceUnavailable",
   "TooManyProviderTokenUpdates", "TooManyRequests", "TopicDisallowed", "Unregistered"}

DEFAULT_RETRYABLE_REASONS ==
  {"ExpiredProviderToken", "IdleTimeout", "InternalServerError", "ServiceUnavailable",
   "TooManyRequests"}

TERMINAL_REASONS ==
  {"BadDeviceToken", "PayloadTooLarge", "TopicDisallowed", "Unregistered"}

(* The guide printApnsReason() reads: a table written by hand.             *)
ScriptGuide ==
  {"BadDeviceToken", "Unregistered", "InvalidProviderToken", "TopicDisallowed",
   "Forbidden", "BadPriority", "BadExpirationDate", "BadDate", "MissingTopic",
   "PayloadTooLarge", "ExpiredProviderToken", "TooManyRequests", "MissingChannelId",
   "BadChannelId", "ChannelNotRegistered", "InvalidPushType",
   "CannotCreateChannelConfig", "FeatureNotEnabled", "MissingPushType",
   "InternalServerError", "ServiceUnavailable", "BadCollapseId", "BadMessageId",
   "BadTopic", "DeviceTokenNotForTopic", "DuplicateHeaders", "IdleTimeout",
   "MissingDeviceToken", "PayloadEmpty", "BadCertificate", "BadCertificateEnvironment",
   "MissingProviderToken", "BadPath", "MethodNotAllowed", "TooManyProviderTokenUpdates"}

(* printApnsReason(): whether a refusal is explained, and not only shown.  *)
printApnsReason(reason) == reason \in ScriptGuide

-----------------------------------------------------------------------------
(* The answer.                                                             *)

Response == [status : {400, 503}, reason : TypedReasons \cup {"unreadable", "unlisted"},
             atOnce : BOOLEAN]

(* #shouldRetry with a policy's retryableReasons.                          *)
retries(response, retryableReasons) ==
  /\ response.reason \notin TERMINAL_REASONS
  /\ \/ response.reason = "TooManyRequests"
     \/ response.status \in 500..599
     \/ response.reason \in retryableReasons

(* computeRetryBackoffMs: only this class has a Retry-After to obey.       *)
WaitsNot(response) == response.reason = "TooManyRequests" /\ response.atOnce

-----------------------------------------------------------------------------
(* The catalogue (packages/traps), by the number of a trap.                *)

(* ERROR_CLASS_TO_TRAP_ID; the last rows are thrown on the device.         *)
ErrorClassToTrap ==
  [BadChannelIdError |-> 31, BadDateError |-> 32, BadDeviceTokenError |-> 14,
   BadExpirationDateError |-> 32, ChannelNotRegisteredError |-> 31,
   ExpiredProviderTokenError |-> 30, FeatureNotEnabledError |-> 34,
   ForbiddenError |-> 30, InvalidProviderTokenError |-> 30, InvalidSnapshotError |-> 8,
   MalformedApnsConfigError |-> 18, MissingApnsConfigError |-> 28,
   MissingChannelIdError |-> 31, MissingTopicError |-> 35, PayloadTooLargeError |-> 11,
   TokenEnvironmentMismatchError |-> 14, TooManyRequestsError |-> 15,
   TopicDisallowedError |-> 18, UnregisteredError |-> 20,
   InvalidContentStateError |-> 38]

(* TRAP_BINDINGS: every trap there ever was, with the classes it lists.    *)
TrapBindings ==
  [trap \in 1..45 |->
     CASE trap = 8  -> {"InvalidSnapshotError"}
       [] trap = 11 -> {"PayloadTooLargeError"}
       [] trap = 14 -> {"BadDeviceTokenError", "TokenEnvironmentMismatchError"}
       [] trap = 15 -> {"TooManyRequestsError"}
       [] trap = 18 -> {"TopicDisallowedError", "MalformedApnsConfigError"}
       [] trap = 20 -> {"UnregisteredError"}
       [] trap = 28 -> {"MissingApnsConfigError"}
       [] trap = 30 -> {"ExpiredProviderTokenError", "ForbiddenError",
                        "InvalidProviderTokenError"}
       [] trap = 31 -> {"BadChannelIdError", "ChannelNotRegisteredError",
                        "MissingChannelIdError"}
       [] trap = 32 -> {"BadDateError", "BadExpirationDateError"}
       [] trap = 34 -> {"FeatureNotEnabledError"}
       [] trap = 35 -> {"MissingTopicError"}
       [] trap = 38 -> {"InvalidContentStateError"}
       [] OTHER -> {}]

(* TrapIds: the ones that are not deprecated.                              *)
TrapIds == 1..45 \ {5, 22, 27, 33}

(* findTrapByErrorClass, of which trapId and docsUrl of an error are read: *)
(* the traps found, none or one.                                           *)
findTrapByErrorClass(name) ==
  {ErrorClassToTrap[n] : n \in {name} \cap DOMAIN ErrorClassToTrap} \cap DOMAIN TrapBindings
=============================================================================
