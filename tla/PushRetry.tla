------------------------------ MODULE PushRetry ------------------------------
(***************************************************************************)
(* The retry loop of PushClient (src/packages/push/src/client.ts) and the  *)
(* provider-token cache it shares between all sends (jwt.ts).              *)
(*                                                                         *)
(* A call is one send or channel-management method.  pc[c] names the await *)
(* at which it stands; an action is the code it runs from there to its     *)
(* next await.  The HTTP/2 client below (module Http2Client) is an         *)
(* environment here: a request handed to it settles, in any way that       *)
(* module allows.  Bearers are numbered in the order they are minted.      *)
(***************************************************************************)
EXTENDS Integers, SequencesExt

CONSTANTS
  Calls,             \* the method calls, each made at most once
  Priority,          \* apns-priority of each call (5 or 10)
  MaxRetries,        \* policy.maxRetries
  PriorityTenCap,    \* the clamp of effectiveRetryPolicy (2)
  RetryDisabled,     \* MOBILE_SURFACES_PUSH_DISABLE_RETRY is set
  RetryableReasons,  \* policy.retryableReasons
  JwtFailures        \* the errors with which the injected JwtCacheLike may reject

(* What APNs answers, by what #shouldRetry tells apart: 2xx, a reason in   *)
(* TERMINAL_REASONS, ExpiredProviderToken, TooManyRequests that may be     *)
(* retried at once (Retry-After: 0), any other TooManyRequests or 5xx, and *)
(* any other reason.                                                       *)
Answers == {"ok", "terminal", "expired", "tooManyNow", "transient", "other"}

(* How a request fails without an answer: a retryable transport error, an  *)
(* error with any other code, the closed error, the abort reason.          *)
Failures == {"transport", "fatal", "closed", "aborted"}

ASSUME PolicyAssumption ==
  /\ MaxRetries \in Nat /\ PriorityTenCap \in Nat
  /\ Priority \in [Calls -> {5, 10}]
  /\ RetryDisabled \in BOOLEAN /\ JwtFailures \subseteq {"transport", "fatal"}
  /\ RetryableReasons \subseteq Answers \ {"ok"}

VARIABLES
  pc,        \* the await each call stands at
  attempt,   \* `attempt`
  retried,   \* `retried`: the reasons of the attempts that were retried
  fetched,   \* the value `await this.#jwt.get()` resolves with
  bearer,    \* headers.authorization
  aborted,   \* hookMeta.signal.aborted
  hooks,     \* the hook invocations of each call, in order
  outcome,   \* how each call's promise settles
  closed,    \* PushClient.#closed
  entry,     \* JwtCache.#entry (0: undefined)
  old,       \* entry is older than refreshIntervalMs
  minted,    \* number of bearers minted so far
  rejected   \* history: the bearer last answered with ExpiredProviderToken

callVars == <<attempt, retried, fetched, bearer, hooks, outcome, rejected>>
jwtVars  == <<entry, old, minted>>
vars     == <<pc, callVars, aborted, closed, jwtVars>>

PCs == {"idle", "authorizing", "requesting", "backoff", "woken",
        "invalidated", "refreshed", "done"}
Outcomes == {"none", "AbortError", "ClientClosedError"} \cup Answers \cup Failures

Init ==
  /\ pc = [c \in Calls |-> "idle"]
  /\ attempt = [c \in Calls |-> 0]
  /\ retried = [c \in Calls |-> <<>>]
  /\ fetched = [c \in Calls |-> 0]
  /\ bearer = [c \in Calls |-> 0]
  /\ aborted = [c \in Calls |-> FALSE]
  /\ hooks = [c \in Calls |-> <<>>]
  /\ outcome = [c \in Calls |-> "none"]
  /\ closed = FALSE
  /\ entry = 0 /\ old = FALSE /\ minted = 0
  /\ rejected = [c \in Calls |-> 0]

-----------------------------------------------------------------------------
(* The policy.                                                             *)

resolveRetryPolicy == IF RetryDisabled THEN 0 ELSE MaxRetries

effectiveRetryPolicy(c) ==
  IF Priority[c] = 10 /\ PriorityTenCap < resolveRetryPolicy
  THEN PriorityTenCap ELSE resolveRetryPolicy

shouldRetry(a) ==
  /\ a # "terminal"
  /\ a \in {"tooManyNow", "transient"} \/ a \in RetryableReasons

(* Mutant: one retry more than the policy grants.                          *)
HasBudgetOffByOne(c) == attempt[c] <= effectiveRetryPolicy(c)

HasBudget(c) == attempt[c] < effectiveRetryPolicy(c)

-----------------------------------------------------------------------------
(* The JWT cache: get() mints when the entry is missing or too old.        *)

JwtGet(c) ==
  \/ /\ entry = 0 \/ old
     /\ minted' = minted + 1
     /\ entry' = minted + 1
     /\ old' = FALSE
     /\ fetched' = [fetched EXCEPT ![c] = minted + 1]
  \/ /\ entry # 0 /\ ~old
     /\ fetched' = [fetched EXCEPT ![c] = entry]
     /\ UNCHANGED jwtVars

(* Mutant: leaves the rejected entry in place.                             *)
JwtKeep == UNCHANGED jwtVars

JwtInvalidate == entry' = 0 /\ old' = FALSE /\ UNCHANGED minted

(* Time passes: the entry outlives refreshIntervalMs.                      *)
JwtAges ==
  /\ entry # 0 /\ ~old
  /\ old' = TRUE
  /\ UNCHANGED <<pc, callVars, aborted, closed, entry, minted>>

-----------------------------------------------------------------------------
(* Mutant: reports the number of attempts completed before this one.       *)
HookPrevious(c, on, final) == [on |-> on, attempt |-> attempt[c] - 1, final |-> final]

(* Mutant: every error is announced as the last one.                       *)
HookAlwaysFinal(c, on, final) == [on |-> on, attempt |-> attempt[c], final |-> TRUE]

Hook(c, on, final) == [on |-> on, attempt |-> attempt[c], final |-> final]

Settle(c, how) ==
  /\ pc' = [pc EXCEPT ![c] = "done"]
  /\ outcome' = [outcome EXCEPT ![c] = how]

(* A public method up to its `await this.#jwt.get()`.                      *)
Send(c) ==
  /\ pc[c] = "idle"
  /\ \/ /\ closed
        /\ Settle(c, "ClientClosedError")
        /\ UNCHANGED <<fetched, jwtVars>>
     \/ /\ ~closed
        /\ JwtGet(c)
        /\ pc' = [pc EXCEPT ![c] = "authorizing"]
        /\ UNCHANGED outcome
  /\ UNCHANGED <<attempt, retried, bearer, hooks, rejected, aborted, closed>>

(* Mutant: #assertOpen was checked once, before the loop.                  *)
IssueUnchecked(c) ==
  /\ pc' = [pc EXCEPT ![c] = "requesting"]
  /\ UNCHANGED outcome

(* Mutant: a closed client parks the call instead of throwing.             *)
IssueParked(c) ==
  \/ closed /\ UNCHANGED <<pc, outcome>>
  \/ ~closed /\ pc' = [pc EXCEPT ![c] = "requesting"] /\ UNCHANGED outcome

(* The head of the loop: #assertOpen, then transport.request.              *)
Issue(c) ==
  \/ closed /\ Settle(c, "ClientClosedError")
  \/ ~closed /\ pc' = [pc EXCEPT ![c] = "requesting"] /\ UNCHANGED outcome

(* The headers are complete; #executeWithRetry runs to its first request.  *)
Begin(c) ==
  /\ pc[c] = "authorizing"
  /\ bearer' = [bearer EXCEPT ![c] = fetched[c]]
  /\ \/ aborted[c] /\ Settle(c, "AbortError")
     \/ ~aborted[c] /\ Issue(c)
  /\ UNCHANGED <<attempt, retried, fetched, hooks, rejected, aborted, closed, jwtVars>>

-----------------------------------------------------------------------------
(* APNs answered.                                                          *)

(* A 2xx answer, or one that is not retried.                               *)
AnswerIsFinal(c, a) ==
  /\ a = "ok" \/ ~(shouldRetry(a) /\ HasBudget(c))
  /\ hooks' = [hooks EXCEPT ![c] =
                 Append(@, Hook(c, IF a = "ok" THEN "response" ELSE "error", TRUE))]
  /\ Settle(c, a)
  /\ UNCHANGED retried

(* A retryable answer: the error hook, then sleep(), which rejects at once *)
(* on an aborted signal unless there is nothing to wait for.  The abort is *)
(* thrown inside the try, so its catch reports it to the hook again.       *)
AnswerIsRetried(c, a) ==
  /\ a # "ok" /\ shouldRetry(a) /\ HasBudget(c)
  /\ retried' = [retried EXCEPT ![c] = Append(@, a)]
  /\ \/ /\ aborted[c] /\ a # "tooManyNow"
        /\ hooks' = [hooks EXCEPT ![c] =
                       @ \o <<Hook(c, "error", FALSE), Hook(c, "error", TRUE)>>]
        /\ Settle(c, "AbortError")
     \/ /\ ~aborted[c] \/ a = "tooManyNow"
        /\ hooks' = [hooks EXCEPT ![c] = Append(@, Hook(c, "error", FALSE))]
        /\ pc' = [pc EXCEPT ![c] = IF a = "tooManyNow" THEN "woken" ELSE "backoff"]
        /\ UNCHANGED outcome

Answer(c, a) ==
  /\ pc[c] = "requesting"
  /\ AnswerIsFinal(c, a) \/ AnswerIsRetried(c, a)
  /\ rejected' = IF a = "expired" THEN [rejected EXCEPT ![c] = bearer[c]] ELSE rejected
  /\ UNCHANGED <<attempt, fetched, bearer, aborted, closed, jwtVars>>

-----------------------------------------------------------------------------
(* The catch block of the loop, for an error that is not an ApnsError.     *)
Catch(c, f) ==
  \/ /\ aborted[c]
     /\ hooks' = [hooks EXCEPT ![c] = Append(@, Hook(c, "error", TRUE))]
     /\ Settle(c, "AbortError")
     /\ UNCHANGED retried
  \/ /\ ~aborted[c]
     /\ f # "transport" \/ ~HasBudget(c)
     /\ hooks' = [hooks EXCEPT ![c] = Append(@, Hook(c, "error", TRUE))]
     /\ Settle(c, f)
     /\ UNCHANGED retried
  \/ /\ ~aborted[c] /\ f = "transport" /\ HasBudget(c)
     /\ hooks' = [hooks EXCEPT ![c] = Append(@, Hook(c, "error", FALSE))]
     /\ retried' = [retried EXCEPT ![c] = Append(@, f)]
     /\ pc' = [pc EXCEPT ![c] = "backoff"]
     /\ UNCHANGED outcome

(* transport.request rejected.                                             *)
RequestFails(c, f) ==
  /\ pc[c] = "requesting"
  /\ f = "closed" => closed
  /\ f = "aborted" => aborted[c]
  /\ Catch(c, f)
  /\ UNCHANGED <<attempt, fetched, bearer, rejected, aborted, closed, jwtVars>>

-----------------------------------------------------------------------------
(* Which of the two sleep() calls a call stands at: the one of the catch   *)
(* block is reached by transport errors only.                              *)
InCatch(c) == Last(retried[c]) = "transport"

(* sleep() resolved.  The catch leg goes straight back to the loop; the    *)
(* other one refreshes the bearer, after dropping it if it was rejected.   *)
Wake(c) ==
  /\ pc[c] \in {"backoff", "woken"}
  /\ attempt' = [attempt EXCEPT ![c] = @ + 1]
  /\ \/ /\ InCatch(c)
        /\ Issue(c)
        /\ UNCHANGED <<fetched, jwtVars>>
     \/ /\ Last(retried[c]) = "expired"
        /\ JwtInvalidate
        /\ pc' = [pc EXCEPT ![c] = "invalidated"]
        /\ UNCHANGED <<fetched, outcome>>
     \/ /\ ~InCatch(c) /\ Last(retried[c]) # "expired"
        /\ JwtGet(c)
        /\ pc' = [pc EXCEPT ![c] = "refreshed"]
        /\ UNCHANGED outcome
  /\ UNCHANGED <<retried, bearer, hooks, rejected, aborted, closed>>

(* `await this.#jwt.invalidate()` resolved.                                *)
Refresh(c) ==
  /\ pc[c] = "invalidated"
  /\ JwtGet(c)
  /\ pc' = [pc EXCEPT ![c] = "refreshed"]
  /\ UNCHANGED <<attempt, retried, bearer, hooks, outcome, rejected, aborted, closed>>

(* `await this.#jwt.get()` resolved: `continue`.                           *)
Resend(c) ==
  /\ pc[c] = "refreshed"
  /\ bearer' = [bearer EXCEPT ![c] = fetched[c]]
  /\ Issue(c)
  /\ UNCHANGED <<attempt, retried, fetched, hooks, rejected, aborted, closed, jwtVars>>

(* It rejected instead: before the loop the error is the caller's, inside  *)
(* the loop the catch block takes it for an error of this attempt.         *)
JwtFails(c, f) ==
  /\ f \in JwtFailures
  /\ \/ pc[c] = "authorizing" /\ Settle(c, f) /\ UNCHANGED <<hooks, retried>>
     \/ pc[c] = "refreshed" /\ Catch(c, f)
  /\ UNCHANGED <<attempt, fetched, bearer, rejected, aborted, closed, jwtVars>>

-----------------------------------------------------------------------------
(* The caller aborts the signal.  A sleeping call wakes up: the first leg  *)
(* throws into the catch block, the catch leg out of the loop.             *)
Abort(c) ==
  /\ pc[c] # "done" /\ ~aborted[c]
  /\ aborted' = [aborted EXCEPT ![c] = TRUE]
  /\ \/ /\ pc[c] = "backoff"
        /\ Settle(c, "AbortError")
        /\ hooks' = IF InCatch(c) THEN hooks
                    ELSE [hooks EXCEPT ![c] = Append(@, Hook(c, "error", TRUE))]
     \/ /\ pc[c] # "backoff"
        /\ UNCHANGED <<pc, outcome, hooks>>
  /\ UNCHANGED <<attempt, retried, fetched, bearer, rejected, closed, jwtVars>>

(* close(): the transports close with it (module Http2Client).             *)
Close ==
  /\ ~closed
  /\ closed' = TRUE
  /\ UNCHANGED <<pc, callVars, aborted, jwtVars>>

-----------------------------------------------------------------------------
Continue(c) == Begin(c) \/ Wake(c) \/ Refresh(c) \/ Resend(c)
Settles(c)  == (\E a \in Answers : Answer(c, a)) \/ (\E f \in Failures : RequestFails(c, f))

Terminated == (\A c \in Calls : pc[c] = "done") /\ UNCHANGED vars

Next ==
  \/ \E c \in Calls : Send(c) \/ Continue(c) \/ Settles(c) \/ Abort(c)
  \/ \E c \in Calls, f \in Failures : JwtFails(c, f)
  \/ JwtAges \/ Close \/ Terminated

Spec == Init /\ [][Next]_vars

-----------------------------------------------------------------------------
(* Properties.                                                             *)

HookCalls == [on : {"response", "error"}, attempt : Nat, final : BOOLEAN]

TypeOK ==
  /\ pc \in [Calls -> PCs]
  /\ attempt \in [Calls -> Nat]
  /\ retried \in [Calls -> Seq((Answers \ {"ok"}) \cup {"transport"})]
  /\ fetched \in [Calls -> Nat]
  /\ bearer \in [Calls -> Nat]
  /\ aborted \in [Calls -> BOOLEAN]
  /\ hooks \in [Calls -> Seq(HookCalls)]
  /\ outcome \in [Calls -> Outcomes]
  /\ closed \in BOOLEAN
  /\ entry \in Nat /\ old \in BOOLEAN /\ minted \in Nat
  /\ rejected \in [Calls -> Nat]

(* The retry budget (README.md:130, client.ts:1404): however answers,      *)
(* transport errors and failed refreshes follow each other on the two      *)
(* legs, a call is retried at most as often as its policy allows, and the  *)
(* log it reports agrees with its attempts.                                *)
RetryBudget ==
  \A c \in Calls :
    /\ attempt[c] <= Len(retried[c])
    /\ Len(retried[c]) <= effectiveRetryPolicy(c)
    /\ outcome[c] = "ok" => Len(retried[c]) = attempt[c]

(* "Reasons that will never recover on retry and must never be retried,    *)
(* even if a caller-supplied retryableReasons set happens to include one"  *)
(* (reasons.ts:181-183).                                                   *)
TerminalNeverRetried ==
  \A c \in Calls : "terminal" \notin Range(retried[c])

(* A bearer APNs refused is not sent again by the same call, although the  *)
(* cache is shared and other calls invalidate and refill it meanwhile.     *)
RejectedBearerNotResent ==
  \A c \in Calls : pc[c] = "requesting" => bearer[c] # rejected[c] \/ rejected[c] = 0

(* After close() nothing more is handed to the transports (client.ts:1236).*)
ClosedSendsNothing ==
  [][closed => \A c \in Calls : pc'[c] = "requesting" => pc[c] = "requesting"]_vars

(* An aborted call does not sleep (README.md:180): from whichever leg it   *)
(* reaches its backoff, the signal ends it.                                *)
AbortedNeverSleeps == \A c \in Calls : aborted[c] => pc[c] # "backoff"

(* The call was aborted while it slept, or as it was about to: the attempt  *)
(* it had logged as retried never got its successor.                       *)
AbortedInBackoff(c) == outcome[c] = "AbortError" /\ attempt[c] < Len(retried[c])

(* The hooks of a call tell its story (client.ts:214-223).  "Once per      *)
(* attempt": its hooks number its attempts from 0 without a gap, but for   *)
(* the abort of a backoff after an answer, which the catch block reports   *)
(* as the same attempt once more (client.ts:1511, 1545).  "isFinalAttempt: *)
(* true fires on the error the caller will actually see": the last hook of *)
(* a settled call is final and no other is, but for a call that ends       *)
(* between two attempts, in the backoff of the catch leg (1569) or at      *)
(* #assertOpen (1454), which is told nothing more.  No call that made a    *)
(* request goes unreported, and it resolves iff its last hook is a         *)
(* response.                                                               *)
HooksInOrder ==
  \A c \in Calls :
    LET h      == hooks[c]
        done   == pc[c] = "done"
        Twice  == AbortedInBackoff(c) /\ ~InCatch(c)
        Untold == \/ outcome[c] = "ClientClosedError"
                  \/ AbortedInBackoff(c) /\ InCatch(c)
        Early  == h = <<>> /\ outcome[c] \in {"AbortError"} \cup JwtFailures
    IN /\ \A i \in 1..Len(h) :
            /\ h[i].attempt = IF Twice /\ i = Len(h) THEN i - 2 ELSE i - 1
            /\ h[i].final <=> done /\ ~Untold /\ i = Len(h)
       /\ attempt[c] <= Len(h)
       /\ done => \/ attempt[c] < Len(h)
                  \/ outcome[c] = "ClientClosedError" \/ Early
       /\ outcome[c] = "ok" <=> h # <<>> /\ Last(h).on = "response"

=============================================================================
