----------------------------- MODULE Http2Client -----------------------------
(***************************************************************************)
(* The HTTP/2 client of packages/push (src/packages/push/src/http.ts): one *)
(* cached session per origin, a stream cap with a FIFO queue behind it, a  *)
(* lazy shared dial, re-dial of a stale session, idle close, per-request   *)
(* abort and timeout, and close() with a forced destroy.                   *)
(*                                                                         *)
(* One action is one uninterrupted run of JavaScript: a call from outside, *)
(* an event callback, or the continuation of request() after one of its    *)
(* awaits.  pc[r] names the await at which request r stands.  Sessions are *)
(* numbered by the generation that dialed them; 0 stands for `undefined`.  *)
(***************************************************************************)
EXTENDS Integers, FiniteSets, SequencesExt

CONSTANTS
  Requests,          \* calls of request(), each made at most once
  UserCap,           \* maxConcurrentStreams option
  PeerCaps,          \* values the peer's SETTINGS may carry
  StreamCapFloor,    \* STREAM_CAP_FLOOR (900)
  RequestTimeoutMs,  \* init.timeoutMs: 0 disables the stream timer
  IdleTimeoutMs,     \* 0 disables the idle timer
  CloseTimeoutMs,    \* 0 disables the forced destroy
  MaxSessions        \* bound: dials one behavior may make

ASSUME RequestsFinite == IsFiniteSet(Requests)
ASSUME CapsAreNumbers ==
  UserCap \in Int /\ PeerCaps \subseteq Nat /\ StreamCapFloor \in Nat \ {0}
ASSUME TimeoutsAreNumbers ==
  RequestTimeoutMs \in Nat /\ IdleTimeoutMs \in Nat /\ CloseTimeoutMs \in Nat
ASSUME SomeSession == MaxSessions \in Nat \ {0}

VARIABLES
  pc,                 \* the await each request stands at
  got,                \* the session each request got from #ensureSession
  outcome,            \* how each request's promise settles
  aborted,            \* init.signal.aborted
  inFlight,           \* #inFlight
  waiters,            \* #waiters
  session,            \* #session
  sessionPromise,     \* #sessionPromise, and how the dial behind it ended
  sessionGeneration,  \* #sessionGeneration
  sess,               \* Node's state of each session
  remoteCap,          \* session.remoteSettings.maxConcurrentStreams
  idleTimer,          \* #idleTimer is armed
  closed,             \* #closed
  closePromise,       \* #closePromise
  closing             \* the session close() waits for

reqVars  == <<pc, got, outcome, aborted>>
slotVars == <<inFlight, waiters>>
connVars == <<session, sessionPromise, sessionGeneration, sess, remoteCap>>
lifeVars == <<idleTimer, closed, closePromise, closing>>
vars     == <<reqVars, slotVars, connVars, lifeVars>>

Sessions == 1..MaxSessions
NoSession == 0

(* Any value above the floor stands for Infinity: the floor then binds.    *)
Infinity == StreamCapFloor + 1

SlotStates == {"granted", "dialing", "ensured", "redialing", "reensured",
               "streaming", "settled"}
PCs == {"unsent", "queued", "done"} \cup SlotStates
Outcomes == {"none", "response", "error", "timeout", "aborted", "closed"}

(* The requests that own one unit of #inFlight.                            *)
SlotHolders == {r \in Requests : pc[r] \in SlotStates}
Streams(s) == {r \in Requests : pc[r] = "streaming" /\ got[r] = s}

-----------------------------------------------------------------------------
Init ==
  /\ pc = [r \in Requests |-> "unsent"]
  /\ got = [r \in Requests |-> NoSession]
  /\ outcome = [r \in Requests |-> "none"]
  /\ aborted = [r \in Requests |-> FALSE]
  /\ inFlight = 0
  /\ waiters = <<>>
  /\ session = NoSession
  /\ sessionPromise = "none"
  /\ sessionGeneration = 0
  /\ sess = [s \in Sessions |-> "unborn"]
  /\ remoteCap = [s \in Sessions |-> Infinity]
  /\ idleTimer = FALSE
  /\ closed = FALSE
  /\ closePromise = "none"
  /\ closing = NoSession

-----------------------------------------------------------------------------
(* The stream cap and its queue.                                           *)

SmallerOf(a, b) == IF a <= b THEN a ELSE b

effectiveStreamCap(user, peer) == SmallerOf(SmallerOf(user, peer), StreamCapFloor)

userMaxConcurrentStreams == IF UserCap <= 0 THEN Infinity ELSE UserCap

PeerCap == IF session = NoSession THEN Infinity ELSE remoteCap[session]

EffectiveCap == effectiveStreamCap(userMaxConcurrentStreams, PeerCap)

Settle(r, how) ==
  /\ pc' = [pc EXCEPT ![r] = "settled"]
  /\ outcome' = [outcome EXCEPT ![r] = how]

(* Mutant: hands the slot to the head waiter and decrements as well.       *)
ReleaseSlotTwice(pcs) ==
  /\ inFlight' = inFlight - 1
  /\ waiters' = IF waiters = <<>> THEN <<>> ELSE Tail(waiters)
  /\ pc' = IF waiters = <<>> THEN pcs ELSE [pcs EXCEPT ![Head(waiters)] = "granted"]

(* Mutant: decrements without looking at the queue (a lost wake-up).       *)
ReleaseSlotNoWake(pcs) ==
  /\ inFlight' = inFlight - 1
  /\ pc' = pcs
  /\ UNCHANGED waiters

(* pcs is pc with the releasing request's own move already made.           *)
ReleaseSlot(pcs) ==
  \/ /\ waiters # <<>>
     /\ pc' = [pcs EXCEPT ![Head(waiters)] = "granted"]
     /\ waiters' = Tail(waiters)
     /\ UNCHANGED inFlight
  \/ /\ waiters = <<>>
     /\ inFlight' = inFlight - 1
     /\ pc' = pcs
     /\ UNCHANGED waiters

AcquireSlot(r) ==
  \/ /\ inFlight < EffectiveCap
     /\ inFlight' = inFlight + 1
     /\ pc' = [pc EXCEPT ![r] = "granted"]
     /\ UNCHANGED waiters
  \/ /\ inFlight >= EffectiveCap
     /\ waiters' = Append(waiters, r)
     /\ pc' = [pc EXCEPT ![r] = "queued"]
     /\ UNCHANGED inFlight

-----------------------------------------------------------------------------
(* The session cache and its shared dial.                                  *)

Healthy(s) == s # NoSession /\ sess[s] = "open"

(* #dial: a new session, numbered by the next generation.                  *)
Dial ==
  /\ sessionGeneration < MaxSessions
  /\ sessionGeneration' = sessionGeneration + 1
  /\ sess' = [sess EXCEPT ![sessionGeneration + 1] = "connecting"]
  /\ sessionPromise' = "pending"
  /\ UNCHANGED <<session, remoteCap>>

(* #ensureSession with no healthy session: join the dial in flight, or be  *)
(* the one that starts it.                                                 *)
JoinOrDial ==
  \/ sessionPromise # "none" /\ UNCHANGED connVars
  \/ sessionPromise = "none" /\ Dial

EnsureSession(r, awaiting, ready) ==
  \/ /\ Healthy(session)
     /\ pc' = [pc EXCEPT ![r] = ready]
     /\ got' = [got EXCEPT ![r] = session]
     /\ UNCHANGED connVars
  \/ /\ ~Healthy(session)
     /\ pc' = [pc EXCEPT ![r] = awaiting]
     /\ JoinOrDial
     /\ UNCHANGED got

shouldRedialStaleSession(r) == session # got[r] \/ ~Healthy(got[r])

(* The synchronous head of #executeRequest: session.request() throws on a  *)
(* session that is closed or destroyed.                                    *)
ExecuteRequest(r) ==
  \/ /\ aborted[r]
     /\ Settle(r, "aborted")
  \/ /\ ~aborted[r]
     /\ ~Healthy(got[r])
     /\ Settle(r, "error")
  \/ /\ ~aborted[r]
     /\ Healthy(got[r])
     /\ pc' = [pc EXCEPT ![r] = "streaming"]
     /\ UNCHANGED outcome

-----------------------------------------------------------------------------
(* request(), await by await.                                              *)

(* request(init): refused when closed or already aborted, else a slot.     *)
Request(r) ==
  /\ pc[r] = "unsent"
  /\ \/ /\ closed \/ aborted[r]
        /\ pc' = [pc EXCEPT ![r] = "done"]
        /\ outcome' = [outcome EXCEPT ![r] = IF closed THEN "closed" ELSE "aborted"]
        /\ UNCHANGED slotVars
     \/ /\ ~closed /\ ~aborted[r]
        /\ AcquireSlot(r)
        /\ UNCHANGED outcome
  /\ UNCHANGED <<got, aborted, connVars, lifeVars>>

(* The continuation after `await this.#acquireSlot`.                       *)
Proceed(r) ==
  /\ pc[r] = "granted"
  /\ \/ /\ closed
        /\ ReleaseSlot([pc EXCEPT ![r] = "done"])
        /\ outcome' = [outcome EXCEPT ![r] = "closed"]
        /\ UNCHANGED <<got, connVars, idleTimer>>
     \/ /\ ~closed
        /\ idleTimer' = FALSE
        /\ EnsureSession(r, "dialing", "ensured")
        /\ UNCHANGED <<outcome, slotVars>>
  /\ UNCHANGED <<aborted, closed, closePromise, closing>>

(* The continuation after the first `await this.#ensureSession()`: one     *)
(* re-dial if the session went stale meanwhile, else dispatch.             *)
Dispatch(r) ==
  /\ pc[r] = "ensured"
  /\ \/ /\ shouldRedialStaleSession(r)
        /\ EnsureSession(r, "redialing", "reensured")
        /\ UNCHANGED outcome
     \/ /\ ~shouldRedialStaleSession(r)
        /\ ExecuteRequest(r)
        /\ UNCHANGED <<got, connVars>>
  /\ UNCHANGED <<aborted, slotVars, lifeVars>>

(* The continuation after the second one: dispatch on whatever came.       *)
DispatchAgain(r) ==
  /\ pc[r] = "reensured"
  /\ ExecuteRequest(r)
  /\ UNCHANGED <<got, aborted, slotVars, connVars, lifeVars>>

(* #scheduleIdleTimer, after the slot was released.                        *)
ScheduleIdleTimer ==
  \/ (closed \/ inFlight' > 0) /\ UNCHANGED idleTimer
  \/ ~closed /\ inFlight' = 0 /\ IdleTimeoutMs > 0 /\ idleTimer' = TRUE
  \/ ~closed /\ inFlight' = 0 /\ IdleTimeoutMs = 0 /\ idleTimer' = FALSE

(* The finally block of request().                                         *)
Finish(r) ==
  /\ pc[r] = "settled"
  /\ ReleaseSlot([pc EXCEPT ![r] = "done"])
  /\ ScheduleIdleTimer
  /\ UNCHANGED <<got, outcome, aborted, connVars, closed, closePromise, closing>>

(* The caller aborts the signal of r: a queued request leaves the queue, a *)
(* streaming one is cancelled, any other only sees the flag later.         *)
Abort(r) ==
  /\ pc[r] # "done"
  /\ ~aborted[r]
  /\ aborted' = [aborted EXCEPT ![r] = TRUE]
  /\ \/ /\ pc[r] = "queued"
        /\ \E i \in 1..Len(waiters) : waiters[i] = r /\ waiters' = RemoveAt(waiters, i)
        /\ pc' = [pc EXCEPT ![r] = "done"]
        /\ outcome' = [outcome EXCEPT ![r] = "aborted"]
     \/ /\ pc[r] = "streaming"
        /\ Settle(r, "aborted")
        /\ UNCHANGED waiters
     \/ /\ pc[r] \notin {"queued", "streaming"}
        /\ UNCHANGED <<pc, outcome, waiters>>
  /\ UNCHANGED <<got, inFlight, connVars, lifeVars>>

(* The listeners of one stream; leaving "streaming" is the settled flag.   *)
StreamSettles(r, how) ==
  /\ pc[r] = "streaming"
  /\ Settle(r, how)
  /\ UNCHANGED <<got, aborted, slotVars, connVars, lifeVars>>

StreamEnd(r)     == StreamSettles(r, "response") /\ sess[got[r]] \in {"open", "closing"}
StreamError(r)   == StreamSettles(r, "error")
StreamTimeout(r) == RequestTimeoutMs > 0 /\ StreamSettles(r, "timeout")

-----------------------------------------------------------------------------
(* The dial's events.                                                      *)

(* Bound: an event that costs the client its session is taken only while   *)
(* two more dials fit, one for its successor and one for a re-dial that    *)
(* races close().                                                          *)
MayLoseSession == sessionGeneration + 1 < MaxSessions

(* onConnect                                                               *)
Connect ==
  /\ sessionPromise = "pending"
  /\ sess' = [sess EXCEPT ![sessionGeneration] = "open"]
  /\ session' = sessionGeneration
  /\ sessionPromise' = "resolved"
  /\ UNCHANGED <<reqVars, slotVars, sessionGeneration, remoteCap, lifeVars>>

(* onError                                                                 *)
ConnectFails ==
  /\ sessionPromise = "pending"
  /\ MayLoseSession
  /\ sess' = [sess EXCEPT ![sessionGeneration] = "gone"]
  /\ sessionPromise' = "rejected"
  /\ UNCHANGED <<reqVars, slotVars, session, sessionGeneration, remoteCap, lifeVars>>

DialWaiters == {r \in Requests : pc[r] \in {"dialing", "redialing"}}

(* The .finally of #ensureSession, and the requests that await it resume.  *)
DialFinally ==
  /\ sessionPromise \in {"resolved", "rejected"}
  /\ sessionPromise' = "none"
  /\ \/ /\ sessionPromise = "resolved"
        /\ pc' = [r \in Requests |->
                    IF r \notin DialWaiters THEN pc[r]
                    ELSE IF pc[r] = "dialing" THEN "ensured" ELSE "reensured"]
        /\ got' = [r \in Requests |-> IF r \in DialWaiters THEN sessionGeneration ELSE got[r]]
        /\ UNCHANGED outcome
     \/ /\ sessionPromise = "rejected"
        /\ pc' = [r \in Requests |-> IF r \in DialWaiters THEN "settled" ELSE pc[r]]
        /\ outcome' = [r \in Requests |-> IF r \in DialWaiters THEN "error" ELSE outcome[r]]
        /\ UNCHANGED got
  /\ UNCHANGED <<aborted, slotVars, session, sessionGeneration, sess, remoteCap, lifeVars>>

-----------------------------------------------------------------------------
(* The session's events.                                                   *)

(* The dropSession closure that #dial installs on session s.               *)
DropSession(s) ==
  session' = IF sessionGeneration = s /\ session = s THEN NoSession ELSE session

(* A new SETTINGS frame from the peer.                                     *)
Settings(s) ==
  /\ sess[s] = "open"
  /\ \E c \in PeerCaps : remoteCap' = [remoteCap EXCEPT ![s] = c]
  /\ UNCHANGED <<reqVars, slotVars, session, sessionPromise, sessionGeneration, sess, lifeVars>>

(* "goaway" is emitted, then Node closes the session gracefully.           *)
GoAway(s) ==
  /\ sess[s] = "open"
  /\ MayLoseSession
  /\ DropSession(s)
  /\ sess' = [sess EXCEPT ![s] = "closing"]
  /\ UNCHANGED <<reqVars, slotVars, sessionPromise, sessionGeneration, remoteCap, lifeVars>>

(* Node destroys the session (socket error, peer close, or a graceful      *)
(* close whose last stream ended); remoteSettings is empty from here on.   *)
SessionDestroyed(s) ==
  /\ \/ sess[s] = "open" /\ MayLoseSession
     \/ sess[s] = "closing"
  /\ sess' = [sess EXCEPT ![s] = "destroyed"]
  /\ remoteCap' = [remoteCap EXCEPT ![s] = Infinity]
  /\ UNCHANGED <<reqVars, slotVars, session, sessionPromise, sessionGeneration, lifeVars>>

(* "close" is emitted after the destruction, on a later tick; close() has  *)
(* its own listener on the session it waits for.                           *)
SessionClosed(s) ==
  /\ sess[s] = "destroyed"
  /\ DropSession(s)
  /\ sess' = [sess EXCEPT ![s] = "gone"]
  /\ closePromise' = IF closing = s THEN "resolved" ELSE closePromise
  /\ UNCHANGED <<reqVars, slotVars, sessionPromise, sessionGeneration, remoteCap,
                 idleTimer, closed, closing>>

(* The callback of the idle timer.                                         *)
IdleTimeout ==
  /\ idleTimer
  /\ session # NoSession => MayLoseSession
  /\ idleTimer' = FALSE
  /\ \/ /\ session # NoSession /\ inFlight = 0
        /\ session' = NoSession
        /\ sess' = IF sess[session] = "open" THEN [sess EXCEPT ![session] = "closing"] ELSE sess
     \/ /\ session = NoSession \/ inFlight > 0
        /\ UNCHANGED <<session, sess>>
  /\ UNCHANGED <<reqVars, slotVars, sessionPromise, sessionGeneration, remoteCap,
                 closed, closePromise, closing>>

-----------------------------------------------------------------------------
(* close()                                                                 *)

(* Mutant: close() rejects the waiters without emptying the queue.         *)
CloseWithoutSplice ==
  /\ ~closed
  /\ closed' = TRUE
  /\ idleTimer' = FALSE
  /\ pc' = [r \in Requests |-> IF pc[r] = "queued" THEN "done" ELSE pc[r]]
  /\ closePromise' = "resolved"
  /\ UNCHANGED <<got, outcome, aborted, slotVars, connVars, closing>>

(* The first call; later calls return the memoized promise.                *)
Close ==
  /\ ~closed
  /\ closed' = TRUE
  /\ idleTimer' = FALSE
  /\ waiters' = <<>>
  /\ pc' = [r \in Requests |-> IF pc[r] = "queued" THEN "done" ELSE pc[r]]
  /\ outcome' = [r \in Requests |-> IF pc[r] = "queued" THEN "closed" ELSE outcome[r]]
  /\ session' = NoSession
  /\ \/ /\ Healthy(session)
        /\ closing' = session
        /\ closePromise' = "pending"
        /\ sess' = [sess EXCEPT ![session] = "closing"]
     \/ /\ ~Healthy(session)
        /\ closePromise' = "resolved"
        /\ UNCHANGED <<closing, sess>>
  /\ UNCHANGED <<got, aborted, inFlight, sessionPromise, sessionGeneration, remoteCap>>

(* closeTimeoutMs expires: session.destroy(), then the promise resolves.   *)
ForcedDestroy ==
  /\ CloseTimeoutMs > 0
  /\ closePromise = "pending"
  /\ sess' = IF sess[closing] = "closing" THEN [sess EXCEPT ![closing] = "destroyed"] ELSE sess
  /\ remoteCap' = [remoteCap EXCEPT ![closing] = Infinity]
  /\ closePromise' = "resolved"
  /\ UNCHANGED <<reqVars, slotVars, session, sessionPromise, sessionGeneration,
                 idleTimer, closed, closing>>

-----------------------------------------------------------------------------
Continue(r) == Proceed(r) \/ Dispatch(r) \/ DispatchAgain(r) \/ Finish(r)
StreamEvent(r) == StreamEnd(r) \/ StreamError(r) \/ StreamTimeout(r)
SessionEvent(s) == Settings(s) \/ GoAway(s) \/ SessionDestroyed(s) \/ SessionClosed(s)

(* Nothing is left to do once every request has settled.                   *)
Terminated == (\A r \in Requests : pc[r] = "done") /\ UNCHANGED vars

Next ==
  \/ \E r \in Requests : Request(r) \/ Abort(r) \/ Continue(r) \/ StreamEvent(r)
  \/ \E s \in Sessions : SessionEvent(s)
  \/ Connect \/ ConnectFails \/ DialFinally
  \/ IdleTimeout \/ Close \/ ForcedDestroy \/ Terminated

Spec == Init /\ [][Next]_vars

(* The event loop runs every ready continuation and every armed timer.     *)
CodeFairness ==
  /\ \A r \in Requests : WF_vars(Continue(r)) /\ WF_vars(StreamTimeout(r))
  /\ WF_vars(DialFinally)
  /\ WF_vars(ForcedDestroy)

(* In addition every dial ends, one way or the other.                      *)
LiveSpec == Spec /\ CodeFairness /\ WF_vars(Connect)

-----------------------------------------------------------------------------
(* Properties.                                                             *)

TypeOK ==
  /\ pc \in [Requests -> PCs]
  /\ got \in [Requests -> Sessions \cup {NoSession}]
  /\ outcome \in [Requests -> Outcomes]
  /\ aborted \in [Requests -> BOOLEAN]
  /\ inFlight \in Nat
  /\ waiters \in Seq(Requests)
  /\ session \in Sessions \cup {NoSession}
  /\ sessionPromise \in {"none", "pending", "resolved", "rejected"}
  /\ sessionGeneration \in 0..MaxSessions
  /\ sess \in [Sessions -> {"unborn", "connecting", "open", "closing", "destroyed", "gone"}]
  /\ remoteCap \in [Sessions -> Nat]
  /\ idleTimer \in BOOLEAN
  /\ closed \in BOOLEAN
  /\ closePromise \in {"none", "pending", "resolved"}
  /\ closing \in Sessions \cup {NoSession}

(* #inFlight counts exactly the requests that own a slot, across hand-off, *)
(* abort, timeout, failed dial and close (http.ts:183-187).                *)
SlotAccounting == inFlight = Cardinality(SlotHolders)

(* The queue holds every queued request once and nothing else: an abort or *)
(* close() leaves no stale entry that would swallow a slot.                *)
QueueExact ==
  /\ \A i, j \in 1..Len(waiters) : waiters[i] = waiters[j] => i = j
  /\ \A r \in Requests :
       pc[r] = "queued" <=> \E i \in 1..Len(waiters) : waiters[i] = r

(* "Requests beyond the cap wait in a FIFO queue and dispatch as in-flight *)
(* streams complete" (http.ts:62-63): whoever waits has a stream in flight *)
(* to wait for, so no wake-up is lost.                                     *)
QueuedBehindStream == waiters # <<>> => inFlight > 0

(* The client's own cap is never exceeded, however slots change hands.     *)
OwnCapHeld == inFlight <= effectiveStreamCap(userMaxConcurrentStreams, Infinity)

(* "Produces ONE TLS handshake instead of N" (http.ts:180-183) and one     *)
(* multiplexed session: never two sessions connecting or open, and an open *)
(* one is in the cache, where idle close and close() can find it; and one  *)
(* that nobody uses has its timer armed: "after idleTimeoutMs of no        *)
(* in-flight requests, the session is closed" (README.md:187).             *)
OneSession ==
  /\ \A s, t \in Sessions :
       sess[s] \in {"connecting", "open"} /\ sess[t] \in {"connecting", "open"} => s = t
  /\ \A s \in Sessions : sess[s] = "open" => session = s
  /\ ~closed /\ session # NoSession /\ SlotHolders = {} /\ IdleTimeoutMs > 0 => idleTimer

(* The idle timer never closes a session some request still counts on.     *)
IdleSparesBusySession ==
  [][idleTimer /\ ~idleTimer' /\ session # NoSession /\ session' = NoSession /\ ~closed'
       => SlotHolders = {}]_vars

(* The cap and its queue behave like the abstract slot pool, whatever the  *)
(* session, the signals and close() do meanwhile (README.md:191-193).      *)
Pool == INSTANCE SlotPool WITH
          Clients <- Requests,
          Cap <- effectiveStreamCap(userMaxConcurrentStreams, Infinity),
          holding <- SlotHolders,
          queue <- waiters

ImplementsSlotPool == Pool!PoolSpec

(* Every request that was made settles: none is lost in the queue, behind  *)
(* a failed dial, on a dead session or across close().  close() resolves   *)
(* even when the peer never drains its streams.                            *)
RequestsSettle ==
  /\ \A r \in Requests : pc[r] # "unsent" ~> pc[r] = "done"
  /\ closed ~> closePromise = "resolved"

-----------------------------------------------------------------------------
(* What the documentation says and the code does not do: a run refutes it  *)
(* (see README, "Findings").                                               *)

(* "close() ... tears down both sessions" (packages/push/README.md:189):   *)
(* after it resolved no session of this client is up.                      *)
NothingUpAfterClose ==
  closePromise = "resolved" => \A s \in Sessions : sess[s] # "open"

=============================================================================
