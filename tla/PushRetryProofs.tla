--------------------------- MODULE PushRetryProofs ---------------------------
(***************************************************************************)
(* Theorems about PushRetry, for every set of calls and every policy.      *)
(***************************************************************************)
EXTENDS PushRetry, TLAPS

(* What the log of retried reasons holds.                                  *)
Reasons == (Answers \ {"ok"}) \cup {"transport"}

(* Appending to a log.                                                     *)
LEMMA AppendFacts ==
  ASSUME NEW S, NEW s \in Seq(S), NEW e \in S
  PROVE  /\ Append(s, e) \in Seq(S)
         /\ Len(Append(s, e)) = Len(s) + 1
         /\ Last(Append(s, e)) = e
         /\ \A i \in 1..Len(s) : Append(s, e)[i] = s[i]
         /\ Append(s, e)[Len(s) + 1] = e
<1>1. Len(Append(s, e)) = Len(s) + 1
  OBVIOUS
<1>2. Append(s, e)[Len(s) + 1] = e
  OBVIOUS
<1> QED
  BY <1>1, <1>2 DEF Last

(* The initial state has the declared types.                               *)
LEMMA TypeInit == Init => TypeOK
<1> SUFFICES ASSUME Init PROVE TypeOK
  OBVIOUS
<1>1. \A S : [c \in Calls |-> <<>>] \in [Calls -> Seq(S)]
  OBVIOUS
<1>2. hooks \in [Calls -> Seq(HookCalls)] /\ retried \in [Calls -> Seq(Reasons)]
  BY <1>1 DEF Init
<1>3. pc \in [Calls -> PCs] /\ outcome \in [Calls -> Outcomes]
  BY DEF Init, PCs, Outcomes
<1>4. /\ attempt \in [Calls -> Nat] /\ fetched \in [Calls -> Nat]
      /\ bearer \in [Calls -> Nat] /\ rejected \in [Calls -> Nat]
      /\ aborted \in [Calls -> BOOLEAN]
      /\ closed \in BOOLEAN /\ entry \in Nat /\ old \in BOOLEAN /\ minted \in Nat
  BY DEF Init
<1> QED
  BY <1>2, <1>3, <1>4 DEF TypeOK, Reasons

(* What the hooks are called with.                                         *)
LEMMA HookType ==
  ASSUME TypeOK, NEW c \in Calls, NEW on \in {"response", "error"}, NEW final \in BOOLEAN
  PROVE  Hook(c, on, final) \in HookCalls
BY DEF TypeOK, Hook, HookCalls

(* get() keeps the types of what it touches.                               *)
LEMMA JwtGetType ==
  ASSUME TypeOK, NEW c \in Calls, JwtGet(c)
  PROVE  fetched' \in [Calls -> Nat] /\ entry' \in Nat /\ old' \in BOOLEAN /\ minted' \in Nat
<1>0. \/ minted' = minted + 1 /\ entry' = minted + 1 /\ fetched' = [fetched EXCEPT ![c] = minted + 1]
      \/ minted' = minted /\ entry' = entry /\ fetched' = [fetched EXCEPT ![c] = entry]
  BY DEF JwtGet, jwtVars
<1>1. fetched' \in [Calls -> Nat] /\ entry' \in Nat /\ minted' \in Nat
  BY <1>0 DEF TypeOK
<1>2. old' = old \/ old' = FALSE
  BY DEF JwtGet, jwtVars
<1> QED
  BY <1>1, <1>2 DEF TypeOK

(* The head of the loop keeps the types of what it touches.                *)
LEMMA IssueType ==
  ASSUME TypeOK, NEW c \in Calls, Issue(c)
  PROVE  pc' \in [Calls -> PCs] /\ outcome' \in [Calls -> Outcomes]
BY DEF TypeOK, Issue, Settle, PCs, Outcomes

(* Settling a call keeps the types of what it touches.                     *)
LEMMA SettleType ==
  ASSUME TypeOK, NEW c \in Calls, NEW how \in Outcomes, Settle(c, how)
  PROVE  pc' \in [Calls -> PCs] /\ outcome' \in [Calls -> Outcomes]
BY DEF TypeOK, Settle, PCs

(* A longer log of retried reasons is such a log.                          *)
LEMMA LogType ==
  ASSUME TypeOK, NEW c \in Calls
  PROVE  \A e \in Reasons :
           [retried EXCEPT ![c] = Append(retried[c], e)] \in [Calls -> Seq(Reasons)]
<1> SUFFICES ASSUME NEW e \in Reasons
             PROVE  [retried EXCEPT ![c] = Append(retried[c], e)] \in [Calls -> Seq(Reasons)]
  OBVIOUS
<1>1. retried \in [Calls -> Seq(Reasons)]
  BY DEF TypeOK, Reasons
<1>2. Append(retried[c], e) \in Seq(Reasons)
  BY <1>1, AppendFacts
<1> QED
  BY <1>1, <1>2

(* The catch block keeps the types of what it touches.                     *)
LEMMA CatchType ==
  ASSUME TypeOK, NEW c \in Calls, NEW f \in Failures, Catch(c, f)
  PROVE  /\ pc' \in [Calls -> PCs] /\ outcome' \in [Calls -> Outcomes]
         /\ hooks' \in [Calls -> Seq(HookCalls)]
         /\ retried' \in [Calls -> Seq(Reasons)]
<1>0. retried \in [Calls -> Seq(Reasons)] /\ "transport" \in Reasons
  BY DEF TypeOK, Reasons
<1> DEFINE h(final) == Append(hooks[c], Hook(c, "error", final))
<1>1. \A final \in BOOLEAN : h(final) \in Seq(HookCalls)
  BY HookType, AppendFacts DEF TypeOK
<1>2. \A final \in BOOLEAN : [hooks EXCEPT ![c] = h(final)] \in [Calls -> Seq(HookCalls)]
  BY <1>1 DEF TypeOK
<1>3. "AbortError" \in Outcomes /\ f \in Outcomes
  BY DEF Outcomes
<1>4. CASE Settle(c, "AbortError") \/ Settle(c, f)
  <2>1. pc' \in [Calls -> PCs] /\ outcome' \in [Calls -> Outcomes]
    BY <1>3, <1>4, SettleType
  <2>2. hooks' \in [Calls -> Seq(HookCalls)]
    BY <1>2 DEF Catch
  <2>3. retried' = retried \/ (f = "transport" /\ retried' = [retried EXCEPT ![c] = Append(@, f)])
    BY DEF Catch
  <2>4. retried' \in [Calls -> Seq(Reasons)]
    BY <2>3, <1>0, LogType
  <2> QED
    BY <2>1, <2>2, <2>4
<1>5. CASE /\ f = "transport"
           /\ hooks' = [hooks EXCEPT ![c] = h(FALSE)]
           /\ retried' = [retried EXCEPT ![c] = Append(@, f)]
           /\ pc' = [pc EXCEPT ![c] = "backoff"]
           /\ UNCHANGED outcome
  <2>1. hooks' \in [Calls -> Seq(HookCalls)]
    BY <1>2, <1>5
  <2>2. retried' \in [Calls -> Seq(Reasons)]
    BY <1>5, <1>0, LogType
  <2>3. pc' \in [Calls -> PCs] /\ outcome' \in [Calls -> Outcomes]
    BY <1>5 DEF TypeOK, PCs
  <2> QED
    BY <2>1, <2>2, <2>3
<1> QED
  BY <1>4, <1>5 DEF Catch

(* An answer keeps the types of what it touches.                           *)
LEMMA AnswerType ==
  ASSUME TypeOK, NEW c \in Calls, NEW a \in Answers,
         AnswerIsFinal(c, a) \/ AnswerIsRetried(c, a)
  PROVE  /\ pc' \in [Calls -> PCs] /\ outcome' \in [Calls -> Outcomes]
         /\ hooks' \in [Calls -> Seq(HookCalls)]
         /\ retried' \in [Calls -> Seq(Reasons)]
<1>1. \A on \in {"response", "error"}, final \in BOOLEAN : Hook(c, on, final) \in HookCalls
  BY HookType
<1>2. hooks[c] \in Seq(HookCalls)
  BY DEF TypeOK
<1>3. \A x, y \in HookCalls :
        Append(hooks[c], x) \in Seq(HookCalls) /\ hooks[c] \o <<x, y>> \in Seq(HookCalls)
  BY <1>2
<1>4. \A q \in Seq(HookCalls) : [hooks EXCEPT ![c] = q] \in [Calls -> Seq(HookCalls)]
  BY DEF TypeOK
<1>5. hooks' \in [Calls -> Seq(HookCalls)]
  <2>1. CASE AnswerIsFinal(c, a)
    <3>1. Hook(c, IF a = "ok" THEN "response" ELSE "error", TRUE) \in HookCalls
      BY <1>1
    <3> QED
      BY <2>1, <3>1, <1>3, <1>4 DEF AnswerIsFinal
  <2>2. CASE AnswerIsRetried(c, a)
    <3>1. Hook(c, "error", FALSE) \in HookCalls /\ Hook(c, "error", TRUE) \in HookCalls
      BY <1>1
    <3> QED
      BY <2>2, <3>1, <1>3, <1>4 DEF AnswerIsRetried
  <2> QED
    BY <2>1, <2>2
<1>6. retried' \in [Calls -> Seq(Reasons)]
  <2>1. CASE AnswerIsFinal(c, a)
    BY <2>1 DEF AnswerIsFinal, TypeOK, Reasons
  <2>2. CASE AnswerIsRetried(c, a)
    <3>1. a \in Reasons /\ retried' = [retried EXCEPT ![c] = Append(retried[c], a)]
      BY <2>2 DEF AnswerIsRetried, Reasons
    <3> QED
      BY <3>1, LogType
  <2> QED
    BY <2>1, <2>2
<1>7. pc' \in [Calls -> PCs] /\ outcome' \in [Calls -> Outcomes]
  BY DEF TypeOK, AnswerIsFinal, AnswerIsRetried, Settle, PCs, Outcomes
<1> QED
  BY <1>5, <1>6, <1>7

(* Every step keeps every variable's type.                                 *)
LEMMA TypeStep == TypeOK /\ [Next]_vars => TypeOK'
<1> SUFFICES ASSUME TypeOK, [Next]_vars PROVE TypeOK'
  OBVIOUS
<1>1. ASSUME NEW c \in Calls, Send(c) PROVE TypeOK'
  <2>1. fetched' \in [Calls -> Nat] /\ entry' \in Nat /\ old' \in BOOLEAN /\ minted' \in Nat
    BY <1>1, JwtGetType DEF Send, TypeOK, jwtVars
  <2>2. pc' \in [Calls -> PCs] /\ outcome' \in [Calls -> Outcomes]
    BY <1>1 DEF Send, Settle, TypeOK, PCs, Outcomes
  <2> QED
    BY <1>1, <2>1, <2>2 DEF Send, TypeOK
<1>2. ASSUME NEW c \in Calls, Begin(c) PROVE TypeOK'
  <2>1. pc' \in [Calls -> PCs] /\ outcome' \in [Calls -> Outcomes]
    BY <1>2, IssueType, SettleType DEF Begin, Outcomes
  <2>2. bearer' \in [Calls -> Nat]
    BY <1>2 DEF Begin, TypeOK
  <2> QED
    BY <1>2, <2>1, <2>2 DEF Begin, TypeOK, jwtVars
<1>3. ASSUME NEW c \in Calls, Wake(c) PROVE TypeOK'
  <2>1. attempt' \in [Calls -> Nat]
    BY <1>3 DEF Wake, TypeOK
  <2>2. fetched' \in [Calls -> Nat] /\ entry' \in Nat /\ old' \in BOOLEAN /\ minted' \in Nat
    <3>1. CASE UNCHANGED <<fetched, jwtVars>>
      BY <3>1 DEF TypeOK, jwtVars
    <3>2. CASE JwtInvalidate /\ UNCHANGED fetched
      BY <3>2 DEF JwtInvalidate, TypeOK
    <3>3. CASE JwtGet(c)
      BY <3>3, JwtGetType
    <3> QED
      BY <1>3, <3>1, <3>2, <3>3 DEF Wake
  <2>3. pc' \in [Calls -> PCs] /\ outcome' \in [Calls -> Outcomes]
    <3>1. CASE Issue(c)
      BY <3>1, IssueType
    <3>2. CASE UNCHANGED outcome /\ \E p \in {"invalidated", "refreshed"} : pc' = [pc EXCEPT ![c] = p]
      BY <3>2 DEF TypeOK, PCs
    <3> QED
      BY <1>3, <3>1, <3>2 DEF Wake
  <2> QED
    BY <1>3, <2>1, <2>2, <2>3 DEF Wake, TypeOK
<1>4. ASSUME NEW c \in Calls, Refresh(c) PROVE TypeOK'
  <2>1. fetched' \in [Calls -> Nat] /\ entry' \in Nat /\ old' \in BOOLEAN /\ minted' \in Nat
    BY <1>4, JwtGetType DEF Refresh
  <2>2. pc' \in [Calls -> PCs]
    BY <1>4 DEF Refresh, TypeOK, PCs
  <2> QED
    BY <1>4, <2>1, <2>2 DEF Refresh, TypeOK
<1>5. ASSUME NEW c \in Calls, Resend(c) PROVE TypeOK'
  <2>1. pc' \in [Calls -> PCs] /\ outcome' \in [Calls -> Outcomes]
    BY <1>5, IssueType DEF Resend
  <2>2. bearer' \in [Calls -> Nat]
    BY <1>5 DEF Resend, TypeOK
  <2> QED
    BY <1>5, <2>1, <2>2 DEF Resend, TypeOK, jwtVars
<1>6. ASSUME NEW c \in Calls, NEW a \in Answers, Answer(c, a) PROVE TypeOK'
  <2>1. /\ pc' \in [Calls -> PCs] /\ outcome' \in [Calls -> Outcomes]
        /\ hooks' \in [Calls -> Seq(HookCalls)] /\ retried' \in [Calls -> Seq(Reasons)]
    BY <1>6, AnswerType DEF Answer
  <2>2. rejected' \in [Calls -> Nat]
    BY <1>6 DEF Answer, TypeOK
  <2> QED
    BY <1>6, <2>1, <2>2 DEF Answer, TypeOK, jwtVars, Reasons
<1>7. ASSUME NEW c \in Calls, NEW f \in Failures, RequestFails(c, f) PROVE TypeOK'
  <2>1. /\ pc' \in [Calls -> PCs] /\ outcome' \in [Calls -> Outcomes]
        /\ hooks' \in [Calls -> Seq(HookCalls)] /\ retried' \in [Calls -> Seq(Reasons)]
    BY <1>7, CatchType DEF RequestFails
  <2> QED
    BY <1>7, <2>1 DEF RequestFails, TypeOK, jwtVars, Reasons
<1>8. ASSUME NEW c \in Calls, NEW f \in Failures, JwtFails(c, f) PROVE TypeOK'
  <2>1. CASE Settle(c, f) /\ UNCHANGED <<hooks, retried>>
    <3>1. pc' \in [Calls -> PCs] /\ outcome' \in [Calls -> Outcomes]
      BY <2>1, SettleType DEF Outcomes
    <3> QED
      BY <1>8, <2>1, <3>1 DEF JwtFails, TypeOK, jwtVars
  <2>2. CASE Catch(c, f)
    <3>1. /\ pc' \in [Calls -> PCs] /\ outcome' \in [Calls -> Outcomes]
          /\ hooks' \in [Calls -> Seq(HookCalls)] /\ retried' \in [Calls -> Seq(Reasons)]
      BY <2>2, CatchType
    <3> QED
      BY <1>8, <3>1 DEF JwtFails, TypeOK, jwtVars, Reasons
  <2> QED
    BY <1>8, <2>1, <2>2 DEF JwtFails
<1>9. ASSUME NEW c \in Calls, Abort(c) PROVE TypeOK'
  <2>1. pc' \in [Calls -> PCs] /\ outcome' \in [Calls -> Outcomes]
    BY <1>9, SettleType DEF Abort, TypeOK, Outcomes
  <2>2. hooks' \in [Calls -> Seq(HookCalls)]
    <3>1. Append(hooks[c], Hook(c, "error", TRUE)) \in Seq(HookCalls)
      BY HookType, AppendFacts DEF TypeOK
    <3> QED
      BY <1>9, <3>1 DEF Abort, TypeOK
  <2>3. aborted' \in [Calls -> BOOLEAN]
    BY <1>9 DEF Abort, TypeOK
  <2> QED
    BY <1>9, <2>1, <2>2, <2>3 DEF Abort, TypeOK, jwtVars
<1>10. CASE JwtAges
  BY <1>10 DEF JwtAges, callVars, TypeOK
<1>11. CASE Close
  BY <1>11 DEF Close, callVars, jwtVars, TypeOK
<1>12. CASE UNCHANGED vars
  BY <1>12 DEF vars, callVars, jwtVars, TypeOK
<1> QED
  BY <1>1, <1>2, <1>3, <1>4, <1>5, <1>6, <1>7, <1>8, <1>9, <1>10, <1>11, <1>12
     DEF Next, Continue, Settles, Terminated

(* Every variable keeps its type.                                          *)
THEOREM TypeCorrect == Spec => []TypeOK
BY TypeInit, TypeStep, PTL DEF Spec

-----------------------------------------------------------------------------
(* The retry budget.                                                       *)

(* At every await, how many retries were logged and how many were made.    *)
LogMatchesAttempt ==
  \A c \in Calls :
    /\ pc[c] \in {"backoff", "woken"} => Len(retried[c]) = attempt[c] + 1
    /\ pc[c] \notin {"backoff", "woken", "done"} => Len(retried[c]) = attempt[c]
    /\ pc[c] = "done" => attempt[c] <= Len(retried[c])
    /\ pc[c] = "done" /\ outcome[c] = "ok" => Len(retried[c]) = attempt[c]
    /\ pc[c] # "done" => outcome[c] = "none"

WithinPolicy == \A c \in Calls : Len(retried[c]) <= effectiveRetryPolicy(c)

BudgetInv == TypeOK /\ LogMatchesAttempt /\ WithinPolicy

(* What a step may do to the log of one call: nothing, append one retry    *)
(* that was in the budget, or make the attempt for the last one.           *)
LogKept(c) ==
  /\ retried' = retried /\ attempt' = attempt
  /\ \A d \in Calls \ {c} : pc'[d] = pc[d] /\ outcome'[d] = outcome[d]
  /\ pc[c] # "done"
  /\ pc'[c] \notin {"backoff", "woken"}
  /\ pc'[c] # "done" => pc[c] \notin {"backoff", "woken"} /\ outcome'[c] = "none"
  /\ outcome'[c] = "ok" => pc[c] = "requesting"

RetryLogged(c) ==
  /\ attempt' = attempt
  /\ \E e \in Reasons \ {"terminal"} : retried' = [retried EXCEPT ![c] = Append(retried[c], e)]
  /\ \A d \in Calls \ {c} : pc'[d] = pc[d] /\ outcome'[d] = outcome[d]
  /\ pc[c] \in {"requesting", "refreshed"}
  /\ attempt[c] < effectiveRetryPolicy(c)
  /\ \/ pc'[c] \in {"backoff", "woken"} /\ outcome'[c] = "none"
     \/ pc'[c] = "done" /\ outcome'[c] = "AbortError"

AttemptStarted(c) ==
  /\ retried' = retried /\ attempt' = [attempt EXCEPT ![c] = @ + 1]
  /\ \A d \in Calls \ {c} : pc'[d] = pc[d] /\ outcome'[d] = outcome[d]
  /\ pc[c] \in {"backoff", "woken"}
  /\ \/ pc'[c] \in {"requesting", "invalidated", "refreshed"} /\ outcome'[c] = "none"
     \/ pc'[c] = "done" /\ outcome'[c] = "ClientClosedError"

LogUntouched == UNCHANGED <<pc, retried, attempt, outcome>>

LogEffect ==
  LogUntouched \/ \E c \in Calls : LogKept(c) \/ RetryLogged(c) \/ AttemptStarted(c)

(* The budget of a policy is a number.                                     *)
LEMMA PolicyIsNat == \A c \in Calls : effectiveRetryPolicy(c) \in Nat
BY PolicyAssumption DEF effectiveRetryPolicy, resolveRetryPolicy

(* Every step has one of these effects on the logs.                        *)
LEMMA StepHasLogEffect == BudgetInv /\ [Next]_vars => LogEffect
<1> SUFFICES ASSUME BudgetInv, [Next]_vars PROVE LogEffect
  OBVIOUS
<1>0. /\ pc \in [Calls -> PCs] /\ outcome \in [Calls -> Outcomes]
      /\ \A c \in Calls : pc[c] # "done" => outcome[c] = "none"
  BY DEF BudgetInv, TypeOK, LogMatchesAttempt
<1>1. ASSUME NEW c \in Calls, Send(c) PROVE LogKept(c)
  BY <1>0, <1>1 DEF Send, Settle, LogKept, Outcomes
<1>2. ASSUME NEW c \in Calls, Begin(c) PROVE LogKept(c)
  BY <1>0, <1>2 DEF Begin, Issue, Settle, LogKept
<1>3. ASSUME NEW c \in Calls, Wake(c) PROVE AttemptStarted(c)
  BY <1>0, <1>3 DEF Wake, Issue, Settle, AttemptStarted
<1>4. ASSUME NEW c \in Calls, Refresh(c) PROVE LogKept(c)
  BY <1>0, <1>4 DEF Refresh, LogKept
<1>5. ASSUME NEW c \in Calls, Resend(c) PROVE LogKept(c)
  BY <1>0, <1>5 DEF Resend, Issue, Settle, LogKept
<1>6. ASSUME NEW c \in Calls, NEW a \in Answers, Answer(c, a)
      PROVE  LogKept(c) \/ RetryLogged(c)
  <2>1. CASE AnswerIsFinal(c, a)
    BY <1>0, <1>6, <2>1 DEF Answer, AnswerIsFinal, Settle, LogKept
  <2>2. CASE AnswerIsRetried(c, a)
    <3>1. a \in Reasons \ {"terminal"}
      BY <2>2 DEF AnswerIsRetried, shouldRetry, Reasons
    <3> QED
      BY <1>0, <1>6, <2>2, <3>1 DEF Answer, AnswerIsRetried, HasBudget, Settle, RetryLogged
  <2> QED
    BY <1>6, <2>1, <2>2 DEF Answer
<1>7. ASSUME NEW c \in Calls, NEW f \in Failures, Catch(c, f), attempt' = attempt,
             pc[c] \in {"requesting", "refreshed"}
      PROVE  LogKept(c) \/ RetryLogged(c)
  <2>1. f # "ok" /\ "transport" \in Reasons \ {"terminal"}
    BY DEF Failures, Reasons
  <2>2. CASE UNCHANGED retried /\ (Settle(c, "AbortError") \/ Settle(c, f))
    BY <1>0, <1>7, <2>1, <2>2 DEF Settle, LogKept
  <2>3. CASE /\ f = "transport" /\ HasBudget(c)
             /\ retried' = [retried EXCEPT ![c] = Append(@, f)]
             /\ pc' = [pc EXCEPT ![c] = "backoff"]
             /\ UNCHANGED outcome
    BY <1>0, <1>7, <2>1, <2>3 DEF HasBudget, RetryLogged
  <2> QED
    BY <1>7, <2>2, <2>3 DEF Catch
<1>8. ASSUME NEW c \in Calls, NEW f \in Failures, RequestFails(c, f)
      PROVE  LogKept(c) \/ RetryLogged(c)
  BY <1>7, <1>8 DEF RequestFails
<1>9. ASSUME NEW c \in Calls, NEW f \in Failures, JwtFails(c, f)
      PROVE  LogKept(c) \/ RetryLogged(c)
  <2>1. CASE pc[c] = "authorizing" /\ Settle(c, f) /\ UNCHANGED <<hooks, retried>>
    BY <1>0, <1>9, <2>1 DEF JwtFails, Settle, LogKept, Failures
  <2>2. CASE pc[c] = "refreshed" /\ Catch(c, f)
    BY <1>7, <1>9, <2>2 DEF JwtFails
  <2> QED
    BY <1>9, <2>1, <2>2 DEF JwtFails
<1>10. ASSUME NEW c \in Calls, Abort(c) PROVE LogKept(c) \/ LogUntouched
  BY <1>0, <1>10 DEF Abort, Settle, LogKept, LogUntouched
<1>11. ASSUME JwtAges \/ Close \/ UNCHANGED vars PROVE LogUntouched
  BY <1>11 DEF JwtAges, Close, vars, callVars, LogUntouched
<1>12. ASSUME NEW c \in Calls, Continue(c) PROVE LogEffect
  BY <1>2, <1>3, <1>4, <1>5, <1>12 DEF Continue, LogEffect
<1>13. ASSUME NEW c \in Calls, Settles(c) PROVE LogEffect
  BY <1>6, <1>8, <1>13 DEF Settles, LogEffect
<1>14. ASSUME NEW c \in Calls, Send(c) \/ Abort(c) PROVE LogEffect
  BY <1>1, <1>10, <1>14 DEF LogEffect
<1>15. ASSUME NEW c \in Calls, NEW f \in Failures, JwtFails(c, f) PROVE LogEffect
  BY <1>9, <1>15 DEF LogEffect
<1>16. ASSUME LogUntouched PROVE LogEffect
  BY <1>16 DEF LogEffect
<1> QED
  BY <1>11, <1>12, <1>13, <1>14, <1>15, <1>16 DEF Next, Terminated

(* The effects keep logs, attempts and policy in step.                     *)
LEMMA BudgetStep == BudgetInv /\ [Next]_vars => BudgetInv'
<1> SUFFICES ASSUME BudgetInv, [Next]_vars PROVE BudgetInv'
  OBVIOUS
<1>1. LogEffect /\ TypeOK'
  BY StepHasLogEffect, TypeStep DEF BudgetInv
<1>2. /\ attempt \in [Calls -> Nat]
      /\ \A c \in Calls : Len(retried[c]) \in Nat /\ effectiveRetryPolicy(c) \in Nat
  BY PolicyIsNat DEF BudgetInv, TypeOK
<1>3. CASE LogUntouched
  BY <1>1, <1>3 DEF LogUntouched, BudgetInv, LogMatchesAttempt, WithinPolicy, effectiveRetryPolicy
<1>4. ASSUME NEW c \in Calls, LogKept(c) PROVE LogMatchesAttempt' /\ WithinPolicy'
  BY <1>2, <1>4 DEF LogKept, BudgetInv, LogMatchesAttempt, WithinPolicy
<1>5. ASSUME NEW c \in Calls, RetryLogged(c) PROVE LogMatchesAttempt' /\ WithinPolicy'
  <2>1. /\ Len(retried'[c]) = Len(retried[c]) + 1
        /\ \A d \in Calls \ {c} : retried'[d] = retried[d]
    BY <1>5, AppendFacts DEF RetryLogged, BudgetInv, TypeOK, Reasons
  <2>2. Len(retried[c]) = attempt[c]
    BY <1>5 DEF RetryLogged, BudgetInv, LogMatchesAttempt
  <2> QED
    BY <1>2, <1>5, <2>1, <2>2 DEF RetryLogged, BudgetInv, LogMatchesAttempt, WithinPolicy
<1>6. ASSUME NEW c \in Calls, AttemptStarted(c) PROVE LogMatchesAttempt' /\ WithinPolicy'
  BY <1>2, <1>6 DEF AttemptStarted, BudgetInv, LogMatchesAttempt, WithinPolicy
<1> QED
  BY <1>1, <1>3, <1>4, <1>5, <1>6 DEF LogEffect, BudgetInv

(* At the start no retry was logged and no attempt made.                   *)
LEMMA BudgetInit == Init => BudgetInv
<1> SUFFICES ASSUME Init PROVE LogMatchesAttempt /\ WithinPolicy
  BY TypeInit DEF BudgetInv
<1> QED
  BY PolicyIsNat DEF Init, LogMatchesAttempt, WithinPolicy

(* No call is retried more often than its policy allows, and the log it    *)
(* reports agrees with the attempts it made.                               *)
THEOREM BudgetHolds == Spec => []RetryBudget
<1>1. Init => BudgetInv
  BY BudgetInit
<1>2. BudgetInv => RetryBudget
  <2> SUFFICES ASSUME BudgetInv, NEW c \in Calls
               PROVE  /\ attempt[c] <= Len(retried[c])
                      /\ Len(retried[c]) <= effectiveRetryPolicy(c)
                      /\ outcome[c] = "ok" => Len(retried[c]) = attempt[c]
    BY DEF RetryBudget
  <2>1. attempt[c] \in Nat /\ Len(retried[c]) \in Nat
    BY DEF BudgetInv, TypeOK
  <2> QED
    BY <2>1 DEF BudgetInv, LogMatchesAttempt, WithinPolicy
<1> QED
  BY <1>1, <1>2, BudgetStep, PTL DEF Spec

-----------------------------------------------------------------------------
(* Terminal reasons.                                                       *)

(* A terminal answer ends the call: no log of retries ever names one, even *)
(* when the caller lists it as retryable.                                  *)
THEOREM TerminalIsFinal == Spec => []TerminalNeverRetried
<1> DEFINE Clean == \A c \in Calls : \A i \in 1..Len(retried[c]) : retried[c][i] # "terminal"
<1>1. Init => Clean
  BY DEF Init
<1>2. BudgetInv /\ Clean /\ [Next]_vars => Clean'
  <2> SUFFICES ASSUME BudgetInv, Clean, LogEffect PROVE Clean'
    BY StepHasLogEffect
  <2>1. CASE retried' = retried
    BY <2>1
  <2>2. ASSUME NEW c \in Calls, NEW e \in Reasons \ {"terminal"},
               retried' = [retried EXCEPT ![c] = Append(retried[c], e)]
        PROVE  Clean'
    <3>0. retried \in [Calls -> Seq(Reasons)]
      BY DEF BudgetInv, TypeOK, Reasons
    <3>1. /\ Len(retried'[c]) = Len(retried[c]) + 1
          /\ \A i \in 1..Len(retried[c]) : retried'[c][i] = retried[c][i]
          /\ retried'[c][Len(retried[c]) + 1] = e
          /\ Len(retried[c]) \in Nat
      BY <2>2, <3>0, AppendFacts
    <3>2. \A i \in 1..Len(retried'[c]) : retried'[c][i] # "terminal"
      BY <3>1
    <3>3. \A d \in Calls \ {c} : retried'[d] = retried[d]
      BY <2>2, <3>0
    <3> QED
      BY <3>2, <3>3
  <2> QED
    BY <2>1, <2>2 DEF LogEffect, LogUntouched, LogKept, RetryLogged, AttemptStarted
<1>3. BudgetInv /\ Clean => TerminalNeverRetried
  <2> SUFFICES ASSUME BudgetInv, Clean, NEW c \in Calls PROVE "terminal" \notin Range(retried[c])
    BY DEF TerminalNeverRetried
  <2>1. DOMAIN retried[c] = 1..Len(retried[c])
    BY DEF BudgetInv, TypeOK
  <2> QED
    BY <2>1 DEF Range
<1>4. Spec => []BudgetInv
  <2>1. Init => BudgetInv
    BY BudgetInit
  <2> QED
    BY <2>1, BudgetStep, PTL DEF Spec
<1> HIDE DEF Clean
<1> QED
  BY <1>1, <1>2, <1>3, <1>4, PTL DEF Spec

-----------------------------------------------------------------------------
(* The bearer.                                                             *)

(* At every await, how the bearers of a call relate to the last rejected   *)
(* one; an entry of the cache is always the bearer minted last.            *)
CallInv(c) ==
  /\ bearer[c] <= minted /\ fetched[c] <= minted /\ rejected[c] <= bearer[c]
  /\ pc[c] \in {"idle", "authorizing"} => rejected[c] = 0
  /\ pc[c] \in {"authorizing", "refreshed"} => fetched[c] > rejected[c]
  /\ pc[c] = "requesting" => bearer[c] > rejected[c]
  /\ pc[c] \in {"backoff", "woken"} =>
       retried[c] # <<>> /\ (Last(retried[c]) # "expired" => bearer[c] > rejected[c])
  /\ pc[c] = "invalidated" => entry = 0 \/ minted > rejected[c]

BearerInv ==
  /\ TypeOK
  /\ entry \in {0, minted}
  /\ \A c \in Calls : CallInv(c)

(* A step that moves call c only, and leaves the cache alone or fills it   *)
(* with the newest bearer, disturbs no other call.                         *)
LEMMA OnlyOne ==
  ASSUME TypeOK, TypeOK', NEW c \in Calls, \A d \in Calls : CallInv(d),
         minted' >= minted, entry' \in {0, minted'}, entry' # entry => entry' = 0 \/ minted' > minted,
         \A d \in Calls \ {c} : /\ pc'[d] = pc[d] /\ fetched'[d] = fetched[d]
                                /\ bearer'[d] = bearer[d] /\ rejected'[d] = rejected[d]
                                /\ retried'[d] = retried[d]
  PROVE  \A d \in Calls \ {c} : CallInv(d)'
<1> SUFFICES ASSUME NEW d \in Calls \ {c} PROVE CallInv(d)'
  OBVIOUS
<1>1. /\ CallInv(d) /\ bearer[d] \in Nat /\ fetched[d] \in Nat /\ rejected[d] \in Nat
      /\ minted \in Nat /\ minted' \in Nat /\ entry \in Nat /\ entry' \in Nat
  BY DEF TypeOK
<1> QED
  BY <1>1 DEF CallInv

(* get() returns the bearer minted last, and mints one if there is none.   *)
LEMMA JwtGetIsNewest ==
  ASSUME TypeOK, entry \in {0, minted}, NEW c \in Calls, JwtGet(c)
  PROVE  /\ fetched' = [fetched EXCEPT ![c] = minted']
         /\ entry' = minted' /\ minted' > 0 /\ minted' >= minted
         /\ entry = 0 => minted' > minted
BY DEF TypeOK, JwtGet, jwtVars

(* With a cache whose get() never rejects with a retryable transport code, *)
(* as JwtCache's never does, every step keeps the relation.                *)
LEMMA BearerStep == "transport" \notin JwtFailures /\ BearerInv /\ [Next]_vars => BearerInv'
<1> SUFFICES ASSUME "transport" \notin JwtFailures, BearerInv, [Next]_vars PROVE BearerInv'
  OBVIOUS
<1>0. /\ TypeOK /\ TypeOK' /\ entry \in {0, minted} /\ \A c \in Calls : CallInv(c)
      /\ pc \in [Calls -> PCs] /\ fetched \in [Calls -> Nat] /\ bearer \in [Calls -> Nat]
      /\ rejected \in [Calls -> Nat] /\ entry \in Nat /\ minted \in Nat
      /\ retried \in [Calls -> Seq(Reasons)]
  BY TypeStep DEF BearerInv, TypeOK, Reasons
<1>a. /\ \A c \in Calls : bearer[c] \in Nat /\ fetched[c] \in Nat /\ rejected[c] \in Nat
      /\ minted \in Nat /\ minted' \in Nat /\ entry \in Nat /\ entry' \in Nat
  BY <1>0 DEF TypeOK
<1>1. ASSUME NEW c \in Calls, Send(c) PROVE BearerInv'
  <2>0. UNCHANGED <<retried, bearer, rejected>> /\ pc[c] = "idle"
    BY <1>1 DEF Send
  <2>1. CASE JwtGet(c) /\ pc' = [pc EXCEPT ![c] = "authorizing"]
    <3>1. /\ fetched' = [fetched EXCEPT ![c] = minted'] /\ entry' = minted'
          /\ minted' > 0 /\ minted' >= minted /\ (entry = 0 => minted' > minted)
      BY <1>0, <2>1, JwtGetIsNewest
    <3>2. CallInv(c)'
      <4>1. /\ pc'[c] = "authorizing" /\ fetched'[c] = minted'
            /\ bearer'[c] = bearer[c] /\ rejected'[c] = rejected[c]
        BY <1>0, <2>0, <2>1, <3>1
      <4>2. bearer[c] <= minted /\ rejected[c] <= bearer[c] /\ rejected[c] = 0
        BY <1>0, <2>0 DEF CallInv
      <4> QED
        BY <3>1, <4>1, <4>2, <1>a DEF CallInv
    <3>3. \A d \in Calls \ {c} : CallInv(d)'
      <4>1. /\ \A d \in Calls \ {c} : /\ pc'[d] = pc[d] /\ fetched'[d] = fetched[d]
                                  /\ bearer'[d] = bearer[d] /\ rejected'[d] = rejected[d]
                                  /\ retried'[d] = retried[d]
        BY <1>0, <2>0, <2>1, <3>1
      <4>3. minted' >= minted /\ entry' \in {0, minted'} /\ (entry' # entry => entry' = 0 \/ minted' > minted)
        BY <1>0, <1>a, <3>1
      <4> QED
        BY <1>0, <4>1, <4>3, OnlyOne
    <3> QED
      BY <1>0, <3>1, <3>2, <3>3 DEF BearerInv
  <2>2. CASE Settle(c, "ClientClosedError") /\ UNCHANGED <<fetched, jwtVars>>
    BY <1>0, <2>0, <2>2 DEF Settle, jwtVars, BearerInv, CallInv
  <2> QED
    BY <1>1, <2>1, <2>2 DEF Send
<1>2. ASSUME NEW c \in Calls, Begin(c) PROVE BearerInv'
  BY <1>0, <1>2 DEF Begin, Issue, Settle, jwtVars, BearerInv, CallInv
<1>3. ASSUME NEW c \in Calls, Wake(c) PROVE BearerInv'
  <2>0. UNCHANGED <<retried, bearer, rejected>> /\ pc[c] \in {"backoff", "woken"}
    BY <1>3 DEF Wake
  <2>1. CASE InCatch(c) /\ Issue(c) /\ UNCHANGED <<fetched, jwtVars>>
    BY <1>0, <2>0, <2>1 DEF InCatch, Issue, Settle, jwtVars, BearerInv, CallInv
  <2>2. CASE JwtInvalidate /\ pc' = [pc EXCEPT ![c] = "invalidated"] /\ UNCHANGED fetched
    BY <1>0, <2>0, <2>2 DEF JwtInvalidate, BearerInv, CallInv
  <2>3. CASE /\ Last(retried[c]) # "expired" /\ JwtGet(c)
             /\ pc' = [pc EXCEPT ![c] = "refreshed"]
    <3>1. /\ fetched' = [fetched EXCEPT ![c] = minted'] /\ entry' = minted'
          /\ minted' > 0 /\ minted' >= minted /\ (entry = 0 => minted' > minted)
      BY <1>0, <2>3, JwtGetIsNewest
    <3>2. CallInv(c)'
      <4>1. /\ pc'[c] = "refreshed" /\ fetched'[c] = minted'
            /\ bearer'[c] = bearer[c] /\ rejected'[c] = rejected[c]
        BY <1>0, <2>0, <2>3, <3>1
      <4>2. bearer[c] <= minted /\ rejected[c] < bearer[c]
        BY <1>0, <2>0, <2>3 DEF CallInv
      <4> QED
        BY <3>1, <4>1, <4>2, <1>a DEF CallInv
    <3>3. \A d \in Calls \ {c} : CallInv(d)'
      <4>1. /\ \A d \in Calls \ {c} : /\ pc'[d] = pc[d] /\ fetched'[d] = fetched[d]
                                  /\ bearer'[d] = bearer[d] /\ rejected'[d] = rejected[d]
                                  /\ retried'[d] = retried[d]
        BY <1>0, <2>0, <2>3, <3>1
      <4>3. minted' >= minted /\ entry' \in {0, minted'} /\ (entry' # entry => entry' = 0 \/ minted' > minted)
        BY <1>0, <1>a, <3>1
      <4> QED
        BY <1>0, <4>1, <4>3, OnlyOne
    <3> QED
      BY <1>0, <3>1, <3>2, <3>3 DEF BearerInv
  <2> QED
    BY <1>3, <2>1, <2>2, <2>3 DEF Wake
<1>4. ASSUME NEW c \in Calls, Refresh(c) PROVE BearerInv'
  <2>0. /\ UNCHANGED <<retried, bearer, rejected>> /\ pc[c] = "invalidated"
        /\ JwtGet(c) /\ pc' = [pc EXCEPT ![c] = "refreshed"]
    BY <1>4 DEF Refresh
  <2>1. /\ fetched' = [fetched EXCEPT ![c] = minted'] /\ entry' = minted'
        /\ minted' > 0 /\ minted' >= minted /\ (entry = 0 => minted' > minted)
    BY <1>0, <2>0, JwtGetIsNewest
  <2>2. CallInv(c)'
    <3>1. /\ pc'[c] = "refreshed" /\ fetched'[c] = minted'
          /\ bearer'[c] = bearer[c] /\ rejected'[c] = rejected[c]
      BY <1>0, <2>0, <2>1
    <3>2. /\ bearer[c] <= minted /\ rejected[c] <= bearer[c]
          /\ entry = 0 \/ minted > rejected[c]
      BY <1>0, <2>0 DEF CallInv
    <3> QED
      BY <2>1, <3>1, <3>2, <1>a DEF CallInv
  <2>3. \A d \in Calls \ {c} : CallInv(d)'
    <3>1. /\ \A d \in Calls \ {c} : /\ pc'[d] = pc[d] /\ fetched'[d] = fetched[d]
                                /\ bearer'[d] = bearer[d] /\ rejected'[d] = rejected[d]
                                /\ retried'[d] = retried[d]
      BY <1>0, <2>0, <2>1
    <3>2. minted' >= minted /\ entry' \in {0, minted'} /\ (entry' # entry => entry' = 0 \/ minted' > minted)
      BY <1>0, <1>a, <2>1
    <3> QED
      BY <1>0, <3>1, <3>2, OnlyOne
  <2> QED
    BY <1>0, <2>1, <2>2, <2>3 DEF BearerInv
<1>5. ASSUME NEW c \in Calls, Resend(c) PROVE BearerInv'
  BY <1>0, <1>5 DEF Resend, Issue, Settle, jwtVars, BearerInv, CallInv
<1>6. ASSUME NEW c \in Calls, NEW a \in Answers, Answer(c, a) PROVE BearerInv'
  <2>0. UNCHANGED <<fetched, bearer, entry, minted>> /\ pc[c] = "requesting"
    BY <1>6 DEF Answer, jwtVars
  <2>1. /\ \A d \in Calls \ {c} : rejected'[d] = rejected[d]
        /\ rejected'[c] = IF a = "expired" THEN bearer[c] ELSE rejected[c]
    BY <1>0, <1>6 DEF Answer
  <2>2. /\ \A d \in Calls \ {c} : pc'[d] = pc[d] /\ retried'[d] = retried[d]
        /\ \/ pc'[c] = "done"
           \/ pc'[c] \in {"backoff", "woken"} /\ retried'[c] # <<>> /\ Last(retried'[c]) = a
    <3>1. CASE AnswerIsFinal(c, a)
      BY <1>0, <3>1 DEF AnswerIsFinal, Settle
    <3>2. CASE AnswerIsRetried(c, a)
      <4>1. a \in Reasons /\ retried' = [retried EXCEPT ![c] = Append(retried[c], a)]
        BY <3>2 DEF AnswerIsRetried, Reasons
      <4>2. /\ retried'[c] # <<>> /\ Last(retried'[c]) = a
            /\ \A d \in Calls \ {c} : retried'[d] = retried[d]
        BY <1>0, <4>1, AppendFacts
      <4>3. /\ \A d \in Calls \ {c} : pc'[d] = pc[d]
            /\ pc'[c] \in {"done", "backoff", "woken"}
        BY <1>0, <3>2 DEF AnswerIsRetried, Settle
      <4> QED
        BY <4>2, <4>3
    <3> QED
      BY <1>6, <3>1, <3>2 DEF Answer
  <2>3. CallInv(c)'
    BY <1>0, <2>0, <2>1, <2>2 DEF CallInv
  <2>4. \A d \in Calls \ {c} : CallInv(d)'
    <3>1. /\ \A d \in Calls \ {c} : /\ pc'[d] = pc[d] /\ fetched'[d] = fetched[d]
                                /\ bearer'[d] = bearer[d] /\ rejected'[d] = rejected[d]
                                /\ retried'[d] = retried[d]
      BY <2>0, <2>1, <2>2
    <3>2. minted' >= minted /\ entry' \in {0, minted'} /\ (entry' # entry => entry' = 0 \/ minted' > minted)
      BY <1>0, <1>a, <2>0
    <3> QED
      BY <1>0, <3>1, <3>2, OnlyOne
  <2> QED
    BY <1>0, <2>0, <2>3, <2>4 DEF BearerInv
<1>7. ASSUME NEW c \in Calls, NEW f \in Failures, RequestFails(c, f) PROVE BearerInv'
  <2>0. /\ UNCHANGED <<fetched, bearer, rejected, entry, minted>>
        /\ pc[c] = "requesting"
    BY <1>7 DEF RequestFails, jwtVars
  <2>1. CASE UNCHANGED retried /\ pc' = [pc EXCEPT ![c] = "done"]
    BY <1>0, <2>0, <2>1 DEF BearerInv, CallInv
  <2>2. CASE /\ pc' = [pc EXCEPT ![c] = "backoff"]
             /\ f \in Reasons /\ retried' = [retried EXCEPT ![c] = Append(@, f)]
    <3>1. /\ retried'[c] # <<>>
          /\ \A d \in Calls \ {c} : retried'[d] = retried[d]
      BY <1>0, <2>2, AppendFacts
    <3> QED
      BY <1>0, <2>0, <2>2, <3>1 DEF BearerInv, CallInv
  <2> QED
    BY <1>7, <2>1, <2>2 DEF RequestFails, Catch, Settle, Reasons
<1>8. ASSUME NEW c \in Calls, Abort(c) PROVE BearerInv'
  BY <1>0, <1>8 DEF Abort, Settle, jwtVars, BearerInv, CallInv
<1>12. ASSUME NEW c \in Calls, NEW f \in Failures, JwtFails(c, f) PROVE BearerInv'
  <2>0. /\ UNCHANGED <<fetched, bearer, rejected, entry, minted>>
        /\ f # "transport"
    BY <1>12 DEF JwtFails, jwtVars
  <2>1. UNCHANGED retried /\ pc' = [pc EXCEPT ![c] = "done"]
    BY <1>12, <2>0 DEF JwtFails, Catch, Settle
  <2> QED
    BY <1>0, <2>0, <2>1 DEF BearerInv, CallInv
<1>9. CASE JwtAges
  BY <1>0, <1>9 DEF JwtAges, callVars, BearerInv, CallInv
<1>10. CASE Close
  BY <1>0, <1>10 DEF Close, callVars, jwtVars, BearerInv, CallInv
<1>11. CASE UNCHANGED vars
  BY <1>0, <1>11 DEF vars, callVars, jwtVars, BearerInv, CallInv
<1> QED
  BY <1>1, <1>2, <1>3, <1>4, <1>5, <1>6, <1>7, <1>8, <1>9, <1>10, <1>11, <1>12
     DEF Next, Continue, Settles, Terminated, JwtFails

(* With the default cache no call sends a bearer again that APNs refused,  *)
(* however many calls invalidate and refill the shared entry meanwhile.    *)
THEOREM FreshBearerAfterExpiry ==
  "transport" \notin JwtFailures => (Spec => []RejectedBearerNotResent)
<1> SUFFICES ASSUME "transport" \notin JwtFailures PROVE Spec => []RejectedBearerNotResent
  OBVIOUS
<1>1. Init => BearerInv
  BY TypeInit DEF Init, BearerInv, CallInv
<1>2. BearerInv => RejectedBearerNotResent
  BY DEF BearerInv, CallInv, TypeOK, RejectedBearerNotResent
<1>3. BearerInv /\ [Next]_vars => BearerInv'
  BY BearerStep
<1> QED
  BY <1>1, <1>2, <1>3, PTL DEF Spec

-----------------------------------------------------------------------------
(* Aborts and close().                                                     *)

(* A sleeping call is one whose signal has not aborted.                    *)
THEOREM AbortEndsSleep == Spec => []AbortedNeverSleeps
<1>1. Init => AbortedNeverSleeps
  BY DEF Init, AbortedNeverSleeps
<1>2. TypeOK /\ AbortedNeverSleeps /\ [Next]_vars => AbortedNeverSleeps'
  <2> SUFFICES ASSUME TypeOK, AbortedNeverSleeps, [Next]_vars PROVE AbortedNeverSleeps'
    OBVIOUS
  <2>0. pc \in [Calls -> PCs] /\ aborted \in [Calls -> BOOLEAN]
    BY DEF TypeOK
  <2>1. ASSUME NEW c \in Calls, Send(c) \/ Begin(c) PROVE AbortedNeverSleeps'
    BY <2>0, <2>1 DEF Send, Begin, Issue, Settle, AbortedNeverSleeps
  <2>2. ASSUME NEW c \in Calls, Wake(c) \/ Refresh(c) \/ Resend(c) PROVE AbortedNeverSleeps'
    BY <2>0, <2>2 DEF Wake, Refresh, Resend, Issue, Settle, AbortedNeverSleeps
  <2>3. ASSUME NEW c \in Calls, NEW a \in Answers, Answer(c, a) PROVE AbortedNeverSleeps'
    BY <2>0, <2>3 DEF Answer, AnswerIsFinal, AnswerIsRetried, Settle, AbortedNeverSleeps
  <2>4. ASSUME NEW c \in Calls, NEW f \in Failures, RequestFails(c, f) \/ JwtFails(c, f)
        PROVE  AbortedNeverSleeps'
    BY <2>0, <2>4 DEF RequestFails, JwtFails, Catch, Settle, AbortedNeverSleeps
  <2>5. ASSUME NEW c \in Calls, Abort(c) PROVE AbortedNeverSleeps'
    BY <2>0, <2>5 DEF Abort, Settle, AbortedNeverSleeps
  <2>6. CASE JwtAges \/ Close \/ UNCHANGED vars
    BY <2>6 DEF JwtAges, Close, vars, AbortedNeverSleeps
  <2> QED
    BY <2>1, <2>2, <2>3, <2>4, <2>5, <2>6 DEF Next, Continue, Settles, Terminated
<1> QED
  BY <1>1, <1>2, TypeCorrect, PTL DEF Spec

(* Once closed, the client hands no request to its transports.             *)
THEOREM CloseStopsRetries == Spec => ClosedSendsNothing
<1> DEFINE Sends == \E c \in Calls : pc'[c] = "requesting" /\ pc[c] # "requesting"
<1>1. TypeOK /\ [Next]_vars /\ closed => ~Sends
  <2> SUFFICES ASSUME TypeOK, [Next]_vars, closed PROVE ~Sends
    OBVIOUS
  <2>0. pc \in [Calls -> PCs]
    BY DEF TypeOK
  <2>1. ASSUME NEW c \in Calls, Send(c) \/ Begin(c) PROVE ~Sends
    BY <2>0, <2>1 DEF Send, Begin, Issue, Settle
  <2>2. ASSUME NEW c \in Calls, Wake(c) \/ Refresh(c) \/ Resend(c) PROVE ~Sends
    BY <2>0, <2>2 DEF Wake, Refresh, Resend, Issue, Settle
  <2>3. ASSUME NEW c \in Calls, NEW a \in Answers, Answer(c, a) PROVE ~Sends
    BY <2>0, <2>3 DEF Answer, AnswerIsFinal, AnswerIsRetried, Settle
  <2>4. ASSUME NEW c \in Calls, NEW f \in Failures, RequestFails(c, f) \/ JwtFails(c, f)
        PROVE  ~Sends
    BY <2>0, <2>4 DEF RequestFails, JwtFails, Catch, Settle
  <2>5. ASSUME NEW c \in Calls, Abort(c) PROVE ~Sends
    BY <2>0, <2>5 DEF Abort, Settle
  <2>6. CASE JwtAges \/ Close \/ UNCHANGED vars
    BY <2>6 DEF JwtAges, Close, vars
  <2> QED
    BY <2>1, <2>2, <2>3, <2>4, <2>5, <2>6 DEF Next, Continue, Settles, Terminated
<1>2. TypeOK /\ [Next]_vars => [closed => \A c \in Calls : pc'[c] = "requesting" => pc[c] = "requesting"]_vars
  BY <1>1
<1> QED
  BY <1>2, TypeCorrect, PTL DEF Spec, ClosedSendsNothing

-----------------------------------------------------------------------------
(* The hooks.                                                              *)

(* A log that reports the attempts 0 to n - 1, none of them finally.       *)
OpenLog(h, n) ==
  /\ Len(h) = n
  /\ \A i \in 1..n : h[i].on = "error" /\ ~h[i].final /\ h[i].attempt = i - 1

(* Such a log with one hook more, the final one, of attempt a.             *)
FinalLog(h, n, a) ==
  /\ Len(h) = n + 1
  /\ \A i \in 1..n : h[i].on = "error" /\ ~h[i].final /\ h[i].attempt = i - 1
  /\ h[n + 1].final /\ h[n + 1].attempt = a

EndsWithResponse(h) == h # <<>> /\ Last(h).on = "response"

(* The ways a call ends: refused by #assertOpen, before its first request, *)
(* in the backoff of the catch leg, in the backoff after an answer, and    *)
(* with what its last attempt came to.                                     *)
Ended(c) ==
  \/ outcome[c] = "ClientClosedError" /\ OpenLog(hooks[c], attempt[c])
  \/ /\ outcome[c] \in {"AbortError"} \cup JwtFailures
     /\ attempt[c] = 0 /\ Len(retried[c]) = 0 /\ OpenLog(hooks[c], 0)
  \/ AbortedInBackoff(c) /\ InCatch(c) /\ OpenLog(hooks[c], attempt[c] + 1)
  \/ /\ AbortedInBackoff(c) /\ ~InCatch(c) /\ FinalLog(hooks[c], attempt[c] + 1, attempt[c])
     /\ ~EndsWithResponse(hooks[c])
  \/ /\ outcome[c] # "ClientClosedError" /\ attempt[c] = Len(retried[c])
     /\ FinalLog(hooks[c], attempt[c], attempt[c])
     /\ outcome[c] = "ok" <=> EndsWithResponse(hooks[c])

(* A call that runs has reported the attempts before the present one, and  *)
(* each of them was retried; a sleeping one has reported the present one.  *)
ToldSoFar(c) ==
  /\ pc[c] \in {"idle", "authorizing"} => attempt[c] = 0
  /\ pc[c] \in {"backoff", "woken"} =>
       OpenLog(hooks[c], attempt[c] + 1) /\ Len(retried[c]) = attempt[c] + 1
  /\ pc[c] \notin {"backoff", "woken", "done"} =>
       OpenLog(hooks[c], attempt[c]) /\ Len(retried[c]) = attempt[c]
  /\ pc[c] = "done" => Ended(c)
  /\ pc[c] # "done" => outcome[c] = "none"

HooksInv == TypeOK /\ \A c \in Calls : ToldSoFar(c)

(* Appending one hook to a log of n attempts.                              *)
LEMMA LogGrows ==
  ASSUME NEW h \in Seq(HookCalls), NEW x \in HookCalls, NEW n \in Nat, OpenLog(h, n)
  PROVE  /\ ~x.final /\ x.on = "error" /\ x.attempt = n => OpenLog(Append(h, x), n + 1)
         /\ x.final => FinalLog(Append(h, x), n, x.attempt)
         /\ EndsWithResponse(Append(h, x)) <=> x.on = "response"
<1> DEFINE g == Append(h, x)
<1>1. /\ Len(h) = n /\ Len(g) = n + 1 /\ Last(g) = x
      /\ \A i \in 1..n : g[i] = h[i]
      /\ g[n + 1] = x
  BY AppendFacts DEF OpenLog
<1>2. g # <<>>
  BY <1>1
<1>3. \A i \in 1..n : g[i].on = "error" /\ ~g[i].final /\ g[i].attempt = i - 1
  BY <1>1 DEF OpenLog
<1>4. \A i \in 1..(n + 1) : i \in 1..n \/ i = n + 1
  OBVIOUS
<1> HIDE DEF g
<1>5. ASSUME ~x.final, x.on = "error", x.attempt = n PROVE OpenLog(g, n + 1)
  BY <1>1, <1>3, <1>4, <1>5 DEF OpenLog
<1>6. ASSUME x.final PROVE FinalLog(g, n, x.attempt)
  BY <1>1, <1>3, <1>6 DEF FinalLog
<1>7. EndsWithResponse(g) <=> x.on = "response"
  BY <1>1, <1>2 DEF EndsWithResponse
<1> QED
  BY <1>5, <1>6, <1>7 DEF g

(* An open log ends with an error, if with anything.                       *)
LEMMA OpenEndsOpen ==
  ASSUME NEW h \in Seq(HookCalls), NEW n \in Nat, OpenLog(h, n)
  PROVE  ~EndsWithResponse(h)
<1>1. CASE n = 0
  BY <1>1 DEF OpenLog, EndsWithResponse
<1>2. CASE n # 0
  <2>1. Last(h) = h[n] /\ n \in 1..n
    BY <1>2 DEF OpenLog, Last
  <2> QED
    BY <2>1 DEF OpenLog, EndsWithResponse
<1> QED
  BY <1>1, <1>2

(* What a step may do to the hooks of one call c; the others are kept.     *)
OthersKept(c) ==
  \A d \in Calls \ {c} : /\ pc'[d] = pc[d] /\ outcome'[d] = outcome[d]
                         /\ attempt'[d] = attempt[d] /\ hooks'[d] = hooks[d]
                         /\ retried'[d] = retried[d]

Awake == PCs \ {"backoff", "woken", "done"}
InLoop == Awake \ {"idle", "authorizing"}

(* It goes on, or it ends with no hook.                                    *)
Silent(c) ==
  /\ hooks'[c] = hooks[c] /\ retried'[c] = retried[c]
  /\ \/ /\ pc[c] \in {"idle", "authorizing"} /\ attempt'[c] = attempt[c]
        /\ pc'[c] \in Awake /\ outcome'[c] = outcome[c]
     \/ /\ pc[c] \in InLoop /\ attempt'[c] = attempt[c]
        /\ pc'[c] \in InLoop /\ outcome'[c] = outcome[c]
     \/ /\ pc[c] \in {"backoff", "woken"} /\ attempt'[c] = attempt[c] + 1
        /\ pc'[c] \in InLoop /\ outcome'[c] = outcome[c]
     \/ /\ pc[c] \in Awake /\ attempt'[c] = attempt[c]
        /\ pc'[c] = "done" /\ outcome'[c] = "ClientClosedError"
     \/ /\ pc[c] \in {"backoff", "woken"} /\ attempt'[c] = attempt[c] + 1
        /\ pc'[c] = "done" /\ outcome'[c] = "ClientClosedError"
     \/ /\ pc[c] \in {"idle", "authorizing"} /\ attempt'[c] = attempt[c]
        /\ pc'[c] = "done" /\ outcome'[c] \in {"AbortError"} \cup JwtFailures
     \/ /\ pc[c] = "backoff" /\ attempt'[c] = attempt[c] /\ Last(retried[c]) = "transport"
        /\ pc'[c] = "done" /\ outcome'[c] = "AbortError"

(* It is to be retried: the attempt is reported and logged.                *)
Reports(c) ==
  /\ attempt'[c] = attempt[c]
  /\ pc[c] \in InLoop
  /\ pc'[c] \in {"backoff", "woken"} /\ outcome'[c] = outcome[c]
  /\ hooks'[c] = Append(hooks[c], Hook(c, "error", FALSE))
  /\ \E a \in Reasons : retried'[c] = Append(retried[c], a)

(* It ends with the attempt it makes.                                      *)
Concludes(c) ==
  /\ attempt'[c] = attempt[c] /\ retried'[c] = retried[c]
  /\ pc[c] \in InLoop /\ pc'[c] = "done"
  /\ \E on \in {"response", "error"} :
       /\ outcome'[c] = "ok" <=> on = "response"
       /\ outcome'[c] # "ClientClosedError"
       /\ hooks'[c] = Append(hooks[c], Hook(c, on, TRUE))

(* It is aborted in the backoff after an answer, or as it goes to sleep.   *)
Repeats(c) ==
  /\ attempt'[c] = attempt[c]
  /\ pc'[c] = "done" /\ outcome'[c] = "AbortError"
  /\ \/ /\ pc[c] = "backoff" /\ Last(retried[c]) # "transport"
        /\ retried'[c] = retried[c]
        /\ hooks'[c] = Append(hooks[c], Hook(c, "error", TRUE))
     \/ /\ pc[c] \in InLoop
        /\ \E a \in Reasons \ {"transport"} : retried'[c] = Append(retried[c], a)
        /\ hooks'[c] = Append(Append(hooks[c], Hook(c, "error", FALSE)), Hook(c, "error", TRUE))

HookEffect ==
  \E c \in Calls :
    OthersKept(c) /\ (Silent(c) \/ Reports(c) \/ Concludes(c) \/ Repeats(c))

(* The catch block reports the error, as the last one unless it sleeps.    *)
LEMMA CatchReports ==
  ASSUME TypeOK, NEW c \in Calls, NEW f \in Failures, Catch(c, f), pc[c] \in InLoop,
         UNCHANGED attempt
  PROVE  OthersKept(c) /\ (Reports(c) \/ Concludes(c))
<1>1. /\ pc \in [Calls -> PCs] /\ outcome \in [Calls -> Outcomes]
      /\ hooks \in [Calls -> Seq(HookCalls)] /\ retried \in [Calls -> Seq(Reasons)]
  BY DEF TypeOK, Reasons
<1>2. f # "ok" /\ f # "ClientClosedError"
  BY DEF Failures
<1>3. CASE \E how \in {"AbortError", f} :
             /\ hooks' = [hooks EXCEPT ![c] = Append(@, Hook(c, "error", TRUE))]
             /\ Settle(c, how)
             /\ UNCHANGED retried
  BY <1>1, <1>2, <1>3 DEF Settle, OthersKept, Concludes
<1>4. CASE /\ f = "transport"
           /\ hooks' = [hooks EXCEPT ![c] = Append(@, Hook(c, "error", FALSE))]
           /\ retried' = [retried EXCEPT ![c] = Append(@, f)]
           /\ pc' = [pc EXCEPT ![c] = "backoff"]
           /\ UNCHANGED outcome
  BY <1>1, <1>4 DEF OthersKept, Reports, Reasons
<1> QED
  BY <1>3, <1>4 DEF Catch

(* Every step has one of these effects on the hooks.                       *)
LEMMA StepHasHookEffect ==
  TypeOK /\ [Next]_vars => HookEffect \/ UNCHANGED <<pc, outcome, attempt, hooks, retried>>
<1> SUFFICES ASSUME TypeOK, [Next]_vars
             PROVE  HookEffect \/ UNCHANGED <<pc, outcome, attempt, hooks, retried>>
  OBVIOUS
<1>0. /\ pc \in [Calls -> PCs] /\ outcome \in [Calls -> Outcomes] /\ attempt \in [Calls -> Nat]
      /\ hooks \in [Calls -> Seq(HookCalls)] /\ retried \in [Calls -> Seq(Reasons)]
  BY DEF TypeOK, Reasons
<1>1. ASSUME NEW c \in Calls, Send(c) PROVE OthersKept(c) /\ Silent(c)
  BY <1>0, <1>1 DEF Send, Settle, OthersKept, Silent, Awake, PCs
<1>2. ASSUME NEW c \in Calls, Begin(c) PROVE OthersKept(c) /\ Silent(c)
  BY <1>0, <1>2 DEF Begin, Issue, Settle, OthersKept, Silent, Awake, PCs
<1>3. ASSUME NEW c \in Calls, Wake(c) PROVE OthersKept(c) /\ Silent(c)
  BY <1>0, <1>3 DEF Wake, Issue, Settle, OthersKept, Silent, InLoop, Awake, PCs
<1>4. ASSUME NEW c \in Calls, Refresh(c) PROVE OthersKept(c) /\ Silent(c)
  BY <1>0, <1>4 DEF Refresh, OthersKept, Silent, InLoop, Awake, PCs
<1>5. ASSUME NEW c \in Calls, Resend(c) PROVE OthersKept(c) /\ Silent(c)
  BY <1>0, <1>5 DEF Resend, Issue, Settle, OthersKept, Silent, InLoop, Awake, PCs
<1>6. ASSUME NEW c \in Calls, NEW a \in Answers, Answer(c, a)
      PROVE  OthersKept(c) /\ (Reports(c) \/ Concludes(c) \/ Repeats(c))
  <2>0. pc[c] \in InLoop /\ attempt' = attempt
    BY <1>6 DEF Answer, InLoop, Awake, PCs
  <2>1. CASE AnswerIsFinal(c, a)
    <3>1. PICK on \in {"response", "error"} :
            /\ on = "response" <=> a = "ok"
            /\ hooks' = [hooks EXCEPT ![c] = Append(@, Hook(c, on, TRUE))]
      BY <2>1 DEF AnswerIsFinal
    <3>2. a # "ClientClosedError"
      BY DEF Answers
    <3> QED
      BY <1>0, <2>0, <2>1, <3>1, <3>2 DEF AnswerIsFinal, Settle, OthersKept, Concludes
  <2>2. CASE AnswerIsRetried(c, a)
    <3>0. /\ retried'[c] = Append(retried[c], a) /\ a \in Reasons \ {"transport"}
          /\ \A d \in Calls \ {c} : retried'[d] = retried[d]
      BY <1>0, <2>2 DEF AnswerIsRetried, Answers, Reasons
    <3>1. CASE /\ hooks' = [hooks EXCEPT ![c] =
                              @ \o <<Hook(c, "error", FALSE), Hook(c, "error", TRUE)>>]
               /\ Settle(c, "AbortError")
      <4>1. \A h \in Seq(HookCalls), x, y \in HookCalls : h \o <<x, y>> = Append(Append(h, x), y)
        OBVIOUS
      <4>2. hooks[c] \in Seq(HookCalls) /\ Hook(c, "error", FALSE) \in HookCalls
            /\ Hook(c, "error", TRUE) \in HookCalls
        BY <1>0, HookType
      <4>3. hooks'[c] = Append(Append(hooks[c], Hook(c, "error", FALSE)), Hook(c, "error", TRUE))
        BY <1>0, <3>1, <4>1, <4>2
      <4>4. \A d \in Calls \ {c} : hooks'[d] = hooks[d]
        BY <1>0, <3>1
      <4> QED
        BY <1>0, <2>0, <3>0, <3>1, <4>3, <4>4 DEF Settle, OthersKept, Repeats
    <3>2. CASE /\ hooks' = [hooks EXCEPT ![c] = Append(@, Hook(c, "error", FALSE))]
               /\ pc' = [pc EXCEPT ![c] = IF a = "tooManyNow" THEN "woken" ELSE "backoff"]
               /\ UNCHANGED outcome
      BY <1>0, <2>0, <3>0, <3>2 DEF OthersKept, Reports
    <3> QED
      BY <2>2, <3>1, <3>2 DEF AnswerIsRetried
  <2> QED
    BY <1>6, <2>1, <2>2 DEF Answer
<1>7. ASSUME NEW c \in Calls, NEW f \in Failures, RequestFails(c, f)
      PROVE  OthersKept(c) /\ (Reports(c) \/ Concludes(c))
  <2>1. pc[c] \in InLoop /\ UNCHANGED attempt /\ Catch(c, f)
    BY <1>7 DEF RequestFails, InLoop, Awake, PCs
  <2> QED
    BY <2>1, CatchReports
<1>8. ASSUME NEW c \in Calls, NEW f \in Failures, JwtFails(c, f) PROVE HookEffect
  <2>1. CASE pc[c] = "authorizing" /\ Settle(c, f) /\ UNCHANGED <<hooks, retried>>
    <3>1. OthersKept(c) /\ Silent(c)
      BY <1>0, <1>8, <2>1 DEF JwtFails, Settle, OthersKept, Silent
    <3> QED
      BY <3>1 DEF HookEffect
  <2>2. CASE pc[c] = "refreshed" /\ Catch(c, f)
    <3>1. pc[c] \in InLoop /\ UNCHANGED attempt
      BY <1>8, <2>2 DEF JwtFails, InLoop, Awake, PCs
    <3> QED
      BY <2>2, <3>1, CatchReports DEF HookEffect
  <2> QED
    BY <1>8, <2>1, <2>2 DEF JwtFails
<1>9. ASSUME NEW c \in Calls, Abort(c)
      PROVE  HookEffect \/ UNCHANGED <<pc, outcome, attempt, hooks, retried>>
  <2>0. pc[c] # "done" /\ UNCHANGED <<attempt, retried>>
    BY <1>9 DEF Abort
  <2>1. CASE pc[c] = "backoff" /\ Settle(c, "AbortError") /\ InCatch(c) /\ UNCHANGED hooks
    BY <1>0, <2>0, <2>1 DEF InCatch, Settle, OthersKept, Silent, HookEffect
  <2>2. CASE /\ pc[c] = "backoff" /\ Settle(c, "AbortError") /\ ~InCatch(c)
             /\ hooks' = [hooks EXCEPT ![c] = Append(@, Hook(c, "error", TRUE))]
    <3>1. OthersKept(c) /\ Repeats(c)
      BY <1>0, <2>0, <2>2 DEF InCatch, Settle, OthersKept, Repeats
    <3> QED
      BY <3>1 DEF HookEffect
  <2>3. CASE UNCHANGED <<pc, outcome, hooks>>
    BY <2>0, <2>3
  <2> QED
    BY <1>9, <2>1, <2>2, <2>3 DEF Abort
<1>10. CASE JwtAges \/ Close \/ UNCHANGED vars
  BY <1>10 DEF JwtAges, Close, vars, callVars
<1> QED
  BY <1>1, <1>2, <1>3, <1>4, <1>5, <1>6, <1>7, <1>8, <1>9, <1>10
     DEF Next, Continue, Settles, Terminated, HookEffect

(* The effects keep what every call has told so far.                       *)
LEMMA HookEffectKeeps ==
  ASSUME HooksInv, TypeOK', NEW c \in Calls, OthersKept(c),
         Silent(c) \/ Reports(c) \/ Concludes(c) \/ Repeats(c)
  PROVE  \A d \in Calls : ToldSoFar(d)'
<1>0. /\ TypeOK /\ ToldSoFar(c) /\ hooks[c] \in Seq(HookCalls) /\ retried[c] \in Seq(Reasons)
      /\ attempt[c] \in Nat /\ pc[c] \in PCs
  BY DEF HooksInv, TypeOK, Reasons
<1>1. \A d \in Calls \ {c} : ToldSoFar(d)'
  BY DEF HooksInv, OthersKept, ToldSoFar, Ended, AbortedInBackoff, InCatch
<1>2. \A on \in {"response", "error"}, final \in BOOLEAN :
        \E x \in HookCalls : /\ x = Hook(c, on, final)
                             /\ x.on = on /\ x.final = final /\ x.attempt = attempt[c]
  BY <1>0, HookType DEF Hook
<1>3. /\ OpenLog(hooks[c], attempt[c]) => ~EndsWithResponse(hooks[c])
      /\ Len(retried[c]) \in Nat
  BY <1>0, OpenEndsOpen
<1>4. \A a \in Reasons : Len(Append(retried[c], a)) = Len(retried[c]) + 1
                         /\ Last(Append(retried[c], a)) = a
  BY <1>0, AppendFacts
<1>5. SUFFICES ToldSoFar(c)'
  BY <1>1
<1>6. CASE Silent(c)
  <2>1. CASE pc'[c] # "done"
    <3>0. hooks'[c] = hooks[c] /\ retried'[c] = retried[c] /\ pc'[c] \notin {"backoff", "woken"}
      BY <1>6, <2>1 DEF Silent, InLoop, Awake
    <3>2. /\ OpenLog(hooks[c], attempt'[c]) /\ Len(retried[c]) = attempt'[c]
          /\ outcome[c] = "none"
      <4>1. CASE pc[c] \in Awake /\ attempt'[c] = attempt[c]
        BY <1>0, <4>1 DEF Awake, ToldSoFar
      <4>2. CASE pc[c] \in {"backoff", "woken"} /\ attempt'[c] = attempt[c] + 1
        BY <1>0, <4>2 DEF ToldSoFar
      <4> QED
        BY <1>6, <2>1, <4>1, <4>2 DEF Silent, InLoop, Awake, PCs
    <3>3. outcome'[c] = outcome[c]
      BY <1>6, <2>1 DEF Silent
    <3>4. pc'[c] \in {"idle", "authorizing"} => attempt'[c] = 0
      BY <1>0, <1>6, <2>1 DEF Silent, InLoop, Awake, ToldSoFar
    <3>5. OpenLog(hooks'[c], attempt'[c]) /\ Len(retried'[c]) = attempt'[c] /\ outcome'[c] = "none"
      BY <3>0, <3>2, <3>3
    <3> QED
      BY <2>1, <3>0, <3>4, <3>5 DEF ToldSoFar
  <2>2. CASE pc'[c] = "done" /\ outcome'[c] = "ClientClosedError"
    <3>0. \/ pc[c] \in Awake /\ attempt'[c] = attempt[c]
          \/ pc[c] \in {"backoff", "woken"} /\ attempt'[c] = attempt[c] + 1
      BY <1>6, <2>2 DEF Silent, InLoop, Awake, PCs
    <3>1. OpenLog(hooks[c], attempt'[c])
      <4>1. CASE pc[c] \in Awake /\ attempt'[c] = attempt[c]
        BY <1>0, <4>1 DEF Awake, ToldSoFar
      <4>2. CASE pc[c] \in {"backoff", "woken"} /\ attempt'[c] = attempt[c] + 1
        BY <1>0, <4>2 DEF ToldSoFar
      <4> QED
        BY <3>0, <4>1, <4>2
    <3>2. OpenLog(hooks'[c], attempt'[c])
      BY <1>6, <3>1 DEF Silent
    <3> QED
      BY <2>2, <3>2 DEF ToldSoFar, Ended
  <2>3. CASE /\ pc[c] \in {"idle", "authorizing"} /\ attempt'[c] = attempt[c]
             /\ pc'[c] = "done" /\ outcome'[c] \in {"AbortError"} \cup JwtFailures
    <3>1. /\ attempt[c] = 0 /\ OpenLog(hooks[c], attempt[c]) /\ Len(retried[c]) = attempt[c]
      BY <1>0, <2>3 DEF ToldSoFar
    <3>2. /\ attempt'[c] = 0 /\ OpenLog(hooks'[c], 0) /\ Len(retried'[c]) = 0
      BY <1>6, <2>3, <3>1 DEF Silent
    <3> QED
      BY <2>3, <3>2 DEF ToldSoFar, Ended
  <2>4. CASE /\ pc[c] = "backoff" /\ attempt'[c] = attempt[c] /\ Last(retried[c]) = "transport"
             /\ pc'[c] = "done" /\ outcome'[c] = "AbortError"
    <3>1. OpenLog(hooks'[c], attempt'[c] + 1) /\ attempt'[c] < Len(retried'[c])
          /\ Last(retried'[c]) = "transport"
      BY <1>0, <1>6, <2>4 DEF Silent, ToldSoFar
    <3> QED
      BY <2>4, <3>1 DEF ToldSoFar, Ended, AbortedInBackoff, InCatch
  <2> QED
    BY <1>6, <2>1, <2>2, <2>3, <2>4 DEF Silent, InLoop, Awake, PCs
<1>7. CASE Reports(c)
  <2>1. OpenLog(hooks[c], attempt[c]) /\ Len(retried[c]) = attempt[c] /\ outcome[c] = "none"
    BY <1>0, <1>7 DEF Reports, InLoop, Awake, ToldSoFar
  <2>2. OpenLog(hooks'[c], attempt[c] + 1)
    <3>1. PICK x \in HookCalls : /\ x = Hook(c, "error", FALSE)
                                 /\ x.on = "error" /\ x.final = FALSE /\ x.attempt = attempt[c]
      BY <1>2
    <3> QED
      BY <1>0, <1>7, <2>1, <3>1, LogGrows DEF Reports
  <2>3. Len(retried'[c]) = attempt[c] + 1
    BY <1>4, <1>7, <2>1 DEF Reports
  <2> QED
    BY <1>7, <2>1, <2>2, <2>3 DEF Reports, ToldSoFar
<1>8. CASE Concludes(c)
  <2>1. PICK on \in {"response", "error"} :
          /\ outcome'[c] = "ok" <=> on = "response"
          /\ outcome'[c] # "ClientClosedError"
          /\ hooks'[c] = Append(hooks[c], Hook(c, on, TRUE))
    BY <1>8 DEF Concludes
  <2>2. OpenLog(hooks[c], attempt[c]) /\ Len(retried[c]) = attempt[c]
    BY <1>0, <1>8 DEF Concludes, InLoop, Awake, ToldSoFar
  <2>3. FinalLog(hooks'[c], attempt[c], attempt[c]) /\ (EndsWithResponse(hooks'[c]) <=> on = "response")
    <3>1. PICK x \in HookCalls : /\ x = Hook(c, on, TRUE)
                                 /\ x.on = on /\ x.final = TRUE /\ x.attempt = attempt[c]
      BY <1>2
    <3> QED
      BY <1>0, <2>1, <2>2, <3>1, LogGrows
  <2>4. attempt'[c] = attempt[c] /\ retried'[c] = retried[c] /\ pc'[c] = "done"
    BY <1>8 DEF Concludes
  <2>5. Ended(c)'
    BY <2>1, <2>2, <2>3, <2>4 DEF Ended
  <2> QED
    BY <2>4, <2>5 DEF ToldSoFar
<1>9. CASE Repeats(c)
  <2>1. PICK h \in Seq(HookCalls) :
          OpenLog(h, attempt[c] + 1) /\ hooks'[c] = Append(h, Hook(c, "error", TRUE))
    <3>1. CASE pc[c] = "backoff" /\ hooks'[c] = Append(hooks[c], Hook(c, "error", TRUE))
      BY <1>0, <3>1 DEF ToldSoFar
    <3>2. CASE /\ pc[c] \in InLoop
               /\ hooks'[c] = Append(Append(hooks[c], Hook(c, "error", FALSE)), Hook(c, "error", TRUE))
      <4>1. OpenLog(hooks[c], attempt[c])
        BY <1>0, <3>2 DEF InLoop, Awake, ToldSoFar
      <4>2. PICK x \in HookCalls : /\ x = Hook(c, "error", FALSE)
                                   /\ x.on = "error" /\ x.final = FALSE /\ x.attempt = attempt[c]
        BY <1>2
      <4>3. OpenLog(Append(hooks[c], x), attempt[c] + 1) /\ Append(hooks[c], x) \in Seq(HookCalls)
        BY <1>0, <4>1, <4>2, LogGrows, AppendFacts
      <4> QED
        BY <3>2, <4>2, <4>3
    <3> QED
      BY <1>9, <3>1, <3>2 DEF Repeats
  <2>2. FinalLog(hooks'[c], attempt[c] + 1, attempt[c]) /\ ~EndsWithResponse(hooks'[c])
    <3>1. PICK x \in HookCalls : /\ x = Hook(c, "error", TRUE)
                                 /\ x.on = "error" /\ x.final = TRUE /\ x.attempt = attempt[c]
      BY <1>2
    <3>2. attempt[c] + 1 \in Nat
      BY <1>0
    <3> QED
      BY <2>1, <3>1, <3>2, LogGrows
  <2>3. attempt[c] < Len(retried'[c]) /\ Last(retried'[c]) # "transport"
    <3>1. CASE /\ pc[c] = "backoff" /\ Last(retried[c]) # "transport" /\ retried'[c] = retried[c]
      BY <1>0, <3>1 DEF ToldSoFar
    <3>2. CASE /\ pc[c] \in InLoop
               /\ \E a \in Reasons \ {"transport"} : retried'[c] = Append(retried[c], a)
      <4>1. Len(retried[c]) = attempt[c]
        BY <1>0, <3>2 DEF InLoop, Awake, ToldSoFar
      <4> QED
        BY <1>0, <1>4, <3>2, <4>1
    <3> QED
      BY <1>9, <3>1, <3>2 DEF Repeats
  <2>4. attempt'[c] = attempt[c] /\ pc'[c] = "done" /\ outcome'[c] = "AbortError"
    BY <1>9 DEF Repeats
  <2>5. Ended(c)'
    BY <2>2, <2>3, <2>4 DEF Ended, AbortedInBackoff, InCatch
  <2> QED
    BY <2>4, <2>5 DEF ToldSoFar
<1> QED
  BY <1>6, <1>7, <1>8, <1>9

(* What HooksInOrder asks of one call.                                     *)
Untold(c) == \/ outcome[c] = "ClientClosedError"
             \/ AbortedInBackoff(c) /\ InCatch(c)

InOrder(c) ==
  LET h == hooks[c]
      Twice == AbortedInBackoff(c) /\ ~InCatch(c)
  IN /\ \A i \in 1..Len(h) :
          /\ h[i].attempt = IF Twice /\ i = Len(h) THEN i - 2 ELSE i - 1
          /\ h[i].final <=> pc[c] = "done" /\ ~Untold(c) /\ i = Len(h)
     /\ attempt[c] <= Len(h)
     /\ pc[c] = "done" => \/ attempt[c] < Len(h)
                          \/ outcome[c] = "ClientClosedError"
                          \/ h = <<>> /\ outcome[c] \in {"AbortError"} \cup JwtFailures
     /\ outcome[c] = "ok" <=> EndsWithResponse(h)

(* A call that has told its story so far has told it in order.             *)
LEMMA ToldInOrder ==
  ASSUME TypeOK, NEW c \in Calls, ToldSoFar(c)
  PROVE  InOrder(c)
<1>0. /\ hooks[c] \in Seq(HookCalls) /\ retried[c] \in Seq(Reasons)
      /\ attempt[c] \in Nat /\ Len(hooks[c]) \in Nat /\ Len(retried[c]) \in Nat
      /\ JwtFailures \subseteq {"transport", "fatal"}
  BY PolicyAssumption DEF TypeOK, Reasons
<1>1. ASSUME NEW n \in Nat, OpenLog(hooks[c], n), pc[c] # "done" \/ Untold(c),
             ~(AbortedInBackoff(c) /\ ~InCatch(c)), attempt[c] <= n, outcome[c] # "ok",
             pc[c] = "done" => n > attempt[c] \/ outcome[c] = "ClientClosedError"
      PROVE  InOrder(c)
  <2>1. ~EndsWithResponse(hooks[c])
    BY <1>0, <1>1, OpenEndsOpen
  <2> QED
    BY <1>0, <1>1, <2>1 DEF InOrder, OpenLog
<1>2. CASE pc[c] # "done"
  <2>1. outcome[c] = "none" /\ ~AbortedInBackoff(c)
    BY <1>2 DEF ToldSoFar, AbortedInBackoff
  <2>2. OpenLog(hooks[c], attempt[c]) \/ OpenLog(hooks[c], attempt[c] + 1)
    BY <1>2 DEF ToldSoFar
  <2>3. attempt[c] + 1 \in Nat /\ attempt[c] <= attempt[c] + 1
    BY <1>0
  <2> QED
    BY <1>0, <1>1, <1>2, <2>1, <2>2, <2>3
<1>3. CASE outcome[c] = "ClientClosedError" /\ OpenLog(hooks[c], attempt[c])
  BY <1>0, <1>1, <1>3 DEF Untold, AbortedInBackoff
<1>4. CASE /\ outcome[c] \in {"AbortError"} \cup JwtFailures
           /\ attempt[c] = 0 /\ Len(retried[c]) = 0 /\ OpenLog(hooks[c], 0)
  <2>1. hooks[c] = <<>> /\ Len(hooks[c]) = 0 /\ ~EndsWithResponse(hooks[c])
    BY <1>0, <1>4, OpenEndsOpen DEF OpenLog
  <2>2. outcome[c] # "ok"
    BY <1>0, <1>4
  <2> QED
    BY <1>4, <2>1, <2>2 DEF InOrder
<1>5. CASE AbortedInBackoff(c) /\ InCatch(c) /\ OpenLog(hooks[c], attempt[c] + 1)
  BY <1>0, <1>1, <1>5 DEF Untold, AbortedInBackoff
<1>6. CASE /\ pc[c] = "done" /\ AbortedInBackoff(c) /\ ~InCatch(c)
           /\ FinalLog(hooks[c], attempt[c] + 1, attempt[c])
           /\ ~EndsWithResponse(hooks[c])
  <2>1. ~Untold(c) /\ outcome[c] # "ok"
    BY <1>6 DEF Untold, AbortedInBackoff
  <2>2. Len(hooks[c]) = attempt[c] + 2
    BY <1>0, <1>6 DEF FinalLog
  <2> QED
    BY <1>0, <1>6, <2>1, <2>2 DEF InOrder, FinalLog
<1>7. CASE /\ pc[c] = "done"
           /\ outcome[c] # "ClientClosedError" /\ attempt[c] = Len(retried[c])
           /\ FinalLog(hooks[c], attempt[c], attempt[c])
           /\ outcome[c] = "ok" <=> EndsWithResponse(hooks[c])
  <2>1. ~AbortedInBackoff(c) /\ ~Untold(c)
    BY <1>0, <1>7 DEF Untold, AbortedInBackoff
  <2>2. Len(hooks[c]) = attempt[c] + 1
    BY <1>0, <1>7 DEF FinalLog
  <2> QED
    BY <1>0, <1>7, <2>1, <2>2 DEF InOrder, FinalLog
<1> QED
  BY <1>2, <1>3, <1>4, <1>5, <1>6, <1>7 DEF ToldSoFar, Ended

(* The hooks of every call tell its story: one for each attempt, the last  *)
(* of a settled call final and no other, with exactly the exceptions that  *)
(* HooksInOrder names (client.ts:214-223, 1454, 1511, 1569).               *)
THEOREM HooksTellTheStory == Spec => []HooksInOrder
<1>1. Init => HooksInv
  <2> SUFFICES ASSUME Init PROVE \A c \in Calls : ToldSoFar(c)
    BY TypeInit DEF HooksInv
  <2>1. OpenLog(<<>>, 0)
    BY DEF OpenLog
  <2> QED
    BY <2>1 DEF Init, ToldSoFar
<1>2. HooksInv /\ [Next]_vars => HooksInv'
  <2> SUFFICES ASSUME HooksInv, [Next]_vars PROVE HooksInv'
    OBVIOUS
  <2>1. TypeOK /\ TypeOK'
    BY TypeStep DEF HooksInv
  <2>2. CASE HookEffect
    BY <2>1, <2>2, HookEffectKeeps DEF HookEffect, HooksInv
  <2>3. CASE UNCHANGED <<pc, outcome, attempt, hooks, retried>>
    BY <2>1, <2>3 DEF HooksInv, ToldSoFar, Ended, AbortedInBackoff, InCatch
  <2> QED
    BY <2>1, <2>2, <2>3, StepHasHookEffect
<1>3. HooksInv => HooksInOrder
  <2>1. HooksInv => \A c \in Calls : InOrder(c)
    BY ToldInOrder DEF HooksInv
  <2> QED
    BY <2>1 DEF HooksInOrder, InOrder, Untold, EndsWithResponse
<1> QED
  BY <1>1, <1>2, <1>3, PTL DEF Spec

-----------------------------------------------------------------------------
(* Refusals.                                                               *)

(* An answer the policy retries is a caller's only when nothing is left of *)
(* the budget (client.ts:1639-1669).                                       *)
RefusalsSpent ==
  \A c \in Calls : outcome[c] \in Answers \ {"ok"} /\ shouldRetry(outcome[c]) => ~HasBudget(c)

(* Only APNs refuses.                                                      *)
LEMMA NewRefusal ==
  ASSUME TypeOK, [Next]_vars, NEW d \in Calls, outcome'[d] \in Answers \ {"ok"}
  PROVE  \/ outcome'[d] = outcome[d]
         \/ AnswerIsFinal(d, outcome'[d]) /\ attempt' = attempt
<1> DEFINE Same == outcome'[d] = outcome[d]
<1>1. ASSUME NEW c \in Calls, NEW how, Settle(c, how), how \notin Answers \ {"ok"} PROVE Same
  BY <1>1 DEF Settle, TypeOK
<1>2. /\ "AbortError" \notin Answers /\ "ClientClosedError" \notin Answers
      /\ \A f \in Failures : f \notin Answers
  BY DEF Answers, Failures
<1>3. ASSUME NEW c \in Calls, Issue(c) PROVE Same
  BY <1>1, <1>2, <1>3 DEF Issue
<1>4. ASSUME NEW c \in Calls, NEW f \in Failures, Catch(c, f) PROVE Same
  BY <1>1, <1>2, <1>4 DEF Catch
<1>5. ASSUME NEW c \in Calls, Send(c) \/ Continue(c) PROVE Same
  BY <1>1, <1>2, <1>3, <1>5 DEF Send, Continue, Begin, Wake, Refresh, Resend
<1>6. ASSUME NEW c \in Calls, NEW f \in Failures, RequestFails(c, f) \/ JwtFails(c, f) PROVE Same
  BY <1>1, <1>2, <1>4, <1>6 DEF RequestFails, JwtFails
<1>7. ASSUME NEW c \in Calls, Abort(c) PROVE Same
  BY <1>1, <1>2, <1>7 DEF Abort
<1>8. JwtAges \/ Close \/ Terminated \/ UNCHANGED vars => outcome' = outcome
  BY DEF JwtAges, Close, Terminated, vars, callVars
<1>9. ASSUME NEW c \in Calls, NEW a \in Answers, Answer(c, a)
      PROVE  Same \/ (AnswerIsFinal(d, outcome'[d]) /\ attempt' = attempt)
  <2>1. CASE AnswerIsRetried(c, a)
    <3>1. Settle(c, "AbortError") \/ outcome' = outcome
      BY <2>1 DEF AnswerIsRetried
    <3>2. Same
      BY <1>1, <1>2, <3>1
    <3> QED
      BY <3>2
  <2>2. CASE AnswerIsFinal(c, a)
    <3>1. outcome' = [outcome EXCEPT ![c] = a] /\ attempt' = attempt
      BY <1>9, <2>2 DEF AnswerIsFinal, Settle, Answer
    <3>2. CASE c = d
      <4>1. outcome'[d] = a
        BY <3>1, <3>2 DEF TypeOK
      <4>2. AnswerIsFinal(d, outcome'[d])
        BY <2>2, <3>2, <4>1
      <4> QED
        BY <3>1, <4>2
    <3>3. CASE c # d
      <4>1. outcome'[d] = outcome[d]
        BY <3>1, <3>3 DEF TypeOK
      <4> QED
        BY <4>1
    <3> QED
      BY <3>2, <3>3
  <2> QED
    BY <1>9, <2>1, <2>2 DEF Answer
<1> QED
  BY <1>5, <1>6, <1>7, <1>8, <1>9 DEF Next, Settles

(* No call is given up before its budget is spent.                         *)
THEOREM RefusedWhenSpent == Spec => []RefusalsSpent
<1>1. Init => RefusalsSpent
  BY DEF Init, RefusalsSpent, Answers
<1>2. BudgetInv /\ RefusalsSpent /\ [Next]_vars => RefusalsSpent'
  <2> SUFFICES ASSUME BudgetInv, RefusalsSpent, [Next]_vars, NEW d \in Calls,
                      outcome'[d] \in Answers \ {"ok"}, shouldRetry(outcome'[d])
               PROVE  ~(attempt'[d] < effectiveRetryPolicy(d))
    BY DEF RefusalsSpent, HasBudget, effectiveRetryPolicy, shouldRetry
  <2>1. CASE outcome'[d] = outcome[d]
    <3>1. pc[d] = "done"
      BY <2>1 DEF BudgetInv, LogMatchesAttempt, Answers
    <3>2. attempt'[d] = attempt[d]
      BY <3>1, StepHasLogEffect DEF LogEffect, LogUntouched, LogKept, RetryLogged, AttemptStarted, BudgetInv, TypeOK
    <3> QED
      BY <2>1, <3>2 DEF RefusalsSpent, HasBudget
  <2>2. CASE AnswerIsFinal(d, outcome'[d]) /\ attempt' = attempt
    BY <2>2 DEF AnswerIsFinal, HasBudget
  <2> QED
    BY <2>1, <2>2, NewRefusal DEF BudgetInv
<1> QED
  BY <1>1, <1>2, BudgetInit, BudgetStep, PTL DEF Spec

=============================================================================
