--------------------------- MODULE CircuitBreaker ---------------------------
(***************************************************************************)
(* CircuitBreakerHelper.run() for one destination: a set of coroutines     *)
(* share one breaker object on one event loop.  A step of the model is     *)
(* the code a coroutine runs between two awaits; the awaits of run() are   *)
(* the attempt itself (`await call(...)`) and the backoff                  *)
(* (`await self.sleep(...)`).                                              *)
(*                                                                         *)
(* Time passes in units while every coroutine is suspended.  AttemptLimit  *)
(* is the longest an attempt stays suspended (the protocol's own timeout)  *)
(* and MaxBackoff the longest a backoff sleeps, event-loop lag included.   *)
(***************************************************************************)
EXTENDS BreakerOps

CONSTANTS
    Calls,           \* the coroutines that may be inside run()
    AllowedRetries,  \* retry_policy.allowed_retries; 0 when there is no policy
    AttemptLimit,
    MaxBackoff

ASSUME AllowedRetriesAssumption == AllowedRetries \in Nat
ASSUME AttemptLimitAssumption == AttemptLimit \in Nat
ASSUME MaxBackoffAssumption == MaxBackoff \in Nat

VARIABLES
    brk,        \* the breaker object
    pc,         \* where each coroutine is suspended
    attempts,   \* run()'s local `attempts`
    trialling,  \* run()'s local `trialling`
    age,        \* time since the coroutine's current await began
    streak      \* history: failures recorded since the last recorded success

vars == <<brk, pc, attempts, trialling, age, streak>>

\* A breaker with maximum_failures = 0 opens on its first failure too.
Threshold == IF MaxFailures = 0 THEN 1 ELSE MaxFailures

Init == /\ brk = NewBreaker
        /\ pc = [c \in Calls |-> "idle"]
        /\ attempts = [c \in Calls |-> 0]
        /\ trialling = [c \in Calls |-> FALSE]
        /\ age = [c \in Calls |-> 0]
        /\ streak = 0

-----------------------------------------------------------------------------
(* Pieces of run()'s loop body.                                            *)

\* Mutant: a retry is not counted as an attempt.
StartAttemptUncounted(c, b) ==
    /\ Admits(b)
    /\ brk' = Claimed(b)
    /\ pc' = [pc EXCEPT ![c] = "calling"]
    /\ attempts' = [attempts EXCEPT ![c] = 1]
    /\ trialling' = [trialling EXCEPT ![c] = (Claimed(b).state = "half_open")]
    /\ age' = [age EXCEPT ![c] = 0]

\* The top of the loop, from a breaker left as b: allows_execution() says
\* yes, `trialling` is read and the call is awaited.
StartAttempt(c, b) ==
    /\ Admits(b)
    /\ brk' = Claimed(b)
    /\ pc' = [pc EXCEPT ![c] = "calling"]
    /\ attempts' = [attempts EXCEPT ![c] = @ + 1]
    /\ trialling' = [trialling EXCEPT ![c] = (Claimed(b).state = "half_open")]
    /\ age' = [age EXCEPT ![c] = 0]

\* run() returns or raises, leaving the breaker as b.
Finish(c, b) ==
    /\ brk' = b
    /\ pc' = [pc EXCEPT ![c] = "idle"]
    /\ attempts' = [attempts EXCEPT ![c] = 0]
    /\ trialling' = [trialling EXCEPT ![c] = FALSE]
    /\ age' = [age EXCEPT ![c] = 0]

CountFailure == streak' = IF streak < Threshold THEN streak + 1 ELSE streak

-----------------------------------------------------------------------------
\* run() is called and its first attempt admitted.  A first call that is
\* refused raises CircuitOpen at once and changes nothing.
Enter(c) == /\ pc[c] = "idle"
            /\ StartAttempt(c, brk)
            /\ UNCHANGED streak

Succeed(c) == /\ pc[c] = "calling"
              /\ Finish(c, ReleaseTrial(RecordSuccess(brk), trialling[c]))
              /\ streak' = 0

\* _should_abort() holds: on_abort runs and the error propagates, uncounted.
Abort(c) == /\ pc[c] = "calling"
            /\ Finish(c, ReleaseTrial(brk, trialling[c]))
            /\ UNCHANGED streak

\* Mutant: one retry too many.
FailAndRetryOnceMore(c) == /\ pc[c] = "calling"
                           /\ attempts[c] <= AllowedRetries + 1
                           /\ brk' = RecordFailure(brk)
                           /\ pc' = [pc EXCEPT ![c] = "sleeping"]
                           /\ age' = [age EXCEPT ![c] = 0]
                           /\ CountFailure
                           /\ UNCHANGED <<attempts, trialling>>

\* A counted failure that _should_retry() accepts: the coroutine goes to
\* sleep inside the try, so a trial keeps its claim while it sleeps.
FailAndRetry(c) == /\ pc[c] = "calling"
                   /\ attempts[c] <= AllowedRetries
                   /\ brk' = RecordFailure(brk)
                   /\ pc' = [pc EXCEPT ![c] = "sleeping"]
                   /\ age' = [age EXCEPT ![c] = 0]
                   /\ CountFailure
                   /\ UNCHANGED <<attempts, trialling>>

\* A counted failure that ends the run: no retry is left, the policy does
\* not retry that class, or a callback raised.
FailForGood(c) == /\ pc[c] = "calling"
                  /\ Finish(c, ReleaseTrial(RecordFailure(brk), trialling[c]))
                  /\ CountFailure

\* Cancellation at either await, or an exception outside RETRIABLE_FAILURES.
Escape(c) == /\ pc[c] \in {"calling", "sleeping"}
             /\ Finish(c, ReleaseTrial(brk, trialling[c]))
             /\ UNCHANGED streak

\* The backoff ends: the finally releases the claim and the loop asks
\* allows_execution() again, with no await in between.
WakeAndRetry(c) == /\ pc[c] = "sleeping"
                   /\ StartAttempt(c, ReleaseTrial(brk, trialling[c]))
                   /\ UNCHANGED streak

\* ... and is refused: CircuitOpen chained from the recent failure.
WakeRefused(c) == /\ pc[c] = "sleeping"
                  /\ ~Admits(ReleaseTrial(brk, trialling[c]))
                  /\ Finish(c, ReleaseTrial(brk, trialling[c]))
                  /\ UNCHANGED streak

\* A unit of time passes; no await outlives its limit.
Tick == /\ \A c \in Calls : /\ pc[c] = "calling" => age[c] < AttemptLimit
                            /\ pc[c] = "sleeping" => age[c] < MaxBackoff
        /\ brk' = Aged(brk)
        /\ age' = [c \in Calls |-> IF pc[c] = "idle" THEN 0 ELSE age[c] + 1]
        /\ UNCHANGED <<pc, attempts, trialling, streak>>

EndAttempt(c) == \/ Succeed(c)
                 \/ Abort(c)
                 \/ FailAndRetry(c)
                 \/ FailForGood(c)

Wake(c) == \/ WakeAndRetry(c)
           \/ WakeRefused(c)

Next == \/ \E c \in Calls : \/ Enter(c)
                            \/ EndAttempt(c)
                            \/ Escape(c)
                            \/ Wake(c)
        \/ Tick

Spec == Init /\ [][Next]_vars

\* Every attempt ends (its protocol has a timeout) and every sleep ends.
\* Nothing makes a new request arrive.
CallFairness == \A c \in Calls : /\ WF_vars(EndAttempt(c) \/ Escape(c))
                                 /\ WF_vars(Wake(c))
FairSpec == Spec /\ CallFairness

\* In addition time passes and callers keep coming.
BusySpec == FairSpec /\ WF_vars(Tick) /\ \A c \in Calls : WF_vars(Enter(c))

-----------------------------------------------------------------------------
(* Properties.                                                             *)

\* The types of the variables, and the retry budget: run() makes at most
\* allowed_retries + 1 attempts (circuit_breaker_helper.py, _should_retry).
TypeOK == /\ brk \in Breaker
          /\ pc \in [Calls -> {"idle", "calling", "sleeping"}]
          /\ attempts \in [Calls -> 0 .. AllowedRetries + 1]
          /\ trialling \in [Calls -> BOOLEAN]
          /\ age \in [Calls -> Nat]
          /\ streak \in 0 .. Threshold

\* A taken claim always belongs to a coroutine that is still inside run(),
\* so a trial that is aborted, cancelled or raising from a callback never
\* leaves the circuit half-open with nobody able to try again.
ClaimHasOwner ==
    brk.trialTaken => \E c \in Calls : trialling[c] /\ pc[c] # "idle"

Trials == {c \in Calls : pc[c] = "calling" /\ trialling[c]}

\* The configurations in which nothing a coroutine waits for lasts as long
\* as the reset timeout; the defaults (15 s attempts, 10 s backoff, 60 s
\* reset) are among them.
TimeoutsBelowReset == AttemptLimit < Reset /\ MaxBackoff < Reset

\* HALF_OPEN: "Exactly one trial call is admitted": no two attempts that
\* found the circuit half-open are in flight together.
AtMostOneTrial ==
    brk.state = "half_open" => \A c, d \in Trials : c = d

\* While the circuit is open, everything in flight started before it
\* opened; once half-open, so did everything but the trial.  (Relates each
\* attempt's age to the clock reading _open() took, which late failures
\* move.)
NothingStartsWhileOpen ==
    \A c \in Calls :
        /\ pc[c] = "calling"
        /\ \/ brk.state = "open"
           \/ brk.state = "half_open" /\ ~trialling[c]
        => age[c] >= brk.sinceOpen

\* The circuit is closed exactly when the latest outcomes recorded, over
\* all the coroutines, are fewer than the threshold of failures in a row:
\* it neither opens early on failures a success has wiped out nor stays
\* closed after enough of them.
ClosedIffBelowThreshold == brk.state = "closed" <=> streak < Threshold

\* HALF_OPEN: "Its success closes the circuit; its failure re-opens it":
\* only the outcome of the trial ends the half-open state, never the late
\* outcome of an attempt admitted before the circuit opened.
OnlyTrialDecides ==
    [][brk.state = "half_open" /\ brk'.state # "half_open"
         => \E c \in Trials : pc'[c] # "calling"]_vars

\* run() always ends: no chain of failures, sleeps and admissions keeps a
\* caller inside it for ever.
EveryRunEnds == \A c \in Calls : pc[c] # "idle" ~> pc[c] = "idle"

BadOutcome(c) == Abort(c) \/ FailAndRetry(c) \/ FailForGood(c) \/ Escape(c)

\* When from some time on every attempt that ends succeeds, the circuit
\* closes and stays closed, whatever happened before: no lost claim and no
\* re-stamped _opened_at keeps a healthy destination shut.
RecoversWhenHealthy ==
    <>[][\A c \in Calls : ~BadOutcome(c)]_vars => <>[](brk.state = "closed")

-----------------------------------------------------------------------------
(* The inductive strengthening used by CircuitBreakerProofs.               *)

\* A coroutine outside run() has no locals, and one that sleeps has an
\* attempt left.
Locals == \A c \in Calls :
    /\ pc[c] = "idle" => attempts[c] = 0 /\ trialling[c] = FALSE
    /\ pc[c] = "sleeping" => attempts[c] <= AllowedRetries

CountIsStreak == brk.state = "closed" => brk.failures = streak

Inv == /\ TypeOK
       /\ Locals
       /\ ClaimHasOwner
       /\ NothingStartsWhileOpen
       /\ CountIsStreak
       /\ ClosedIffBelowThreshold

\* No await outlasts its limit, and half-open is entered at Reset.
Timed == /\ brk.state = "half_open" => brk.sinceOpen = Reset
         /\ \A c \in Calls :
                /\ pc[c] = "calling" => age[c] <= AttemptLimit
                /\ pc[c] = "sleeping" => age[c] <= MaxBackoff

\* The trial in flight holds the claim of a half-open circuit.
TrialHoldsClaim ==
    \A c \in Calls : pc[c] = "calling" /\ trialling[c] = TRUE
        => brk.state = "half_open" /\ brk.trialTaken = TRUE

\* A failed trial that sleeps is alone with a circuit it opened itself, no
\* longer ago than it has been sleeping.
SleepingTrialIsAlone ==
    \A c \in Calls : pc[c] = "sleeping" /\ trialling[c] = TRUE
        => /\ brk.state = "open"
           /\ brk.sinceOpen <= age[c]
           /\ \A d \in Calls : pc[d] # "calling"

TrialInv == /\ Inv
            /\ Timed
            /\ TrialHoldsClaim
            /\ SleepingTrialIsAlone
            /\ AtMostOneTrial
=============================================================================
