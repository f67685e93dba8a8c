------------------------ MODULE CircuitBreakerProofs ------------------------
(***************************************************************************)
(* Proofs about CircuitBreaker, for every set of coroutines and every      *)
(* configuration the breaker accepts.                                      *)
(***************************************************************************)
EXTENDS CircuitBreaker, TLAPS

-----------------------------------------------------------------------------
(* What the methods of the breaker return.                                 *)

\* A fresh breaker is closed, with no failure counted and no claim.
LEMMA NewBreakerFields ==
    /\ NewBreaker \in Breaker
    /\ NewBreaker.state = "closed"
    /\ NewBreaker.failures = 0
    /\ ~NewBreaker.trialTaken
BY ResetAssumption DEF NewBreaker, Breaker, BreakerState

\* A claim leaves a closed breaker alone and otherwise makes it half-open
\* with the trial taken; the clock reading and the count stay.
LEMMA ClaimedFields ==
    ASSUME NEW b \in Breaker
    PROVE  /\ Claimed(b) \in Breaker
           /\ Claimed(b).sinceOpen = b.sinceOpen
           /\ Claimed(b).failures = b.failures
           /\ b.state = "closed" => Claimed(b) = b
           /\ b.state # "closed" => /\ Claimed(b).state = "half_open"
                                    /\ Claimed(b).trialTaken = TRUE
BY DEF Claimed, Breaker, BreakerState

\* A recorded success closes the breaker and clears the count only.
LEMMA RecordSuccessFields ==
    ASSUME NEW b \in Breaker
    PROVE  /\ RecordSuccess(b) \in Breaker
           /\ RecordSuccess(b).state = "closed"
           /\ RecordSuccess(b).failures = 0
           /\ RecordSuccess(b).sinceOpen = b.sinceOpen
           /\ RecordSuccess(b).trialTaken = b.trialTaken
BY DEF RecordSuccess, Breaker, BreakerState

\* Opening stamps the clock, forgets the count and leaves the claim alone.
LEMMA OpenFields ==
    ASSUME NEW b \in Breaker
    PROVE  /\ Open(b) \in Breaker
           /\ Open(b).state = "open"
           /\ Open(b).sinceOpen = 0
           /\ Open(b).failures = 0
           /\ Open(b).trialTaken = b.trialTaken
BY ResetAssumption DEF Open, Breaker, BreakerState

\* A recorded failure opens the breaker from half-open and at the
\* threshold, stamping the clock; otherwise it only counts.
LEMMA RecordFailureFields ==
    ASSUME NEW b \in Breaker
    PROVE  /\ RecordFailure(b) \in Breaker
           /\ RecordFailure(b).trialTaken = b.trialTaken
           /\ b.state = "half_open" \/ b.failures + 1 >= MaxFailures
                => /\ RecordFailure(b).state = "open"
                   /\ RecordFailure(b).sinceOpen = 0
                   /\ RecordFailure(b).failures = 0
           /\ ~(b.state = "half_open" \/ b.failures + 1 >= MaxFailures)
                => /\ RecordFailure(b).state = b.state
                   /\ RecordFailure(b).sinceOpen = b.sinceOpen
                   /\ RecordFailure(b).failures = b.failures + 1
<1>1. CASE b.state = "half_open" \/ b.failures + 1 >= MaxFailures
    <2>1. RecordFailure(b) = Open(b)
        BY <1>1 DEF RecordFailure
    <2>2. QED
        BY <1>1, <2>1, OpenFields
<1>2. CASE ~(b.state = "half_open" \/ b.failures + 1 >= MaxFailures)
    <2>1. RecordFailure(b) = [b EXCEPT !.failures = b.failures + 1]
        BY <1>2 DEF RecordFailure
    <2>2. QED
        BY <1>2, <2>1 DEF Breaker, BreakerState
<1>3. QED
    BY <1>1, <1>2

\* The finally of run() touches the claim only.
LEMMA ReleaseTrialFields ==
    ASSUME NEW b \in Breaker, NEW t \in BOOLEAN
    PROVE  /\ ReleaseTrial(b, t) \in Breaker
           /\ ReleaseTrial(b, t).state = b.state
           /\ ReleaseTrial(b, t).sinceOpen = b.sinceOpen
           /\ ReleaseTrial(b, t).failures = b.failures
           /\ t => ReleaseTrial(b, t).trialTaken = FALSE
           /\ ~t => ReleaseTrial(b, t) = b
BY DEF ReleaseTrial, Breaker, BreakerState

\* Time only moves the clock reading, by one and never past Reset.
LEMMA AgedFields ==
    ASSUME NEW b \in Breaker
    PROVE  /\ Aged(b) \in Breaker
           /\ Aged(b).state = b.state
           /\ Aged(b).failures = b.failures
           /\ Aged(b).trialTaken = b.trialTaken
           /\ \/ Aged(b).sinceOpen = b.sinceOpen
              \/ b.sinceOpen < Reset /\ Aged(b).sinceOpen = b.sinceOpen + 1
BY ResetAssumption DEF Aged, Breaker, BreakerState

-----------------------------------------------------------------------------
(* The unconditional invariant.                                            *)

USE DEF Locals, ClaimHasOwner, NothingStartsWhileOpen, CountIsStreak,
        ClosedIffBelowThreshold

\* The initial state satisfies the inductive invariant.
LEMMA InitInv == Init => Inv
BY NewBreakerFields, MaxFailuresAssumption, AllowedRetriesAssumption
   DEF Init, Inv, TypeOK, Threshold

\* Starting an attempt from the breaker b that run() left keeps Inv.
LEMMA StartAttemptInv ==
    ASSUME Inv, NEW c \in Calls, NEW b \in Breaker,
           StartAttempt(c, b), UNCHANGED streak,
           attempts[c] <= AllowedRetries,
           b.state = brk.state, b.sinceOpen = brk.sinceOpen,
           b.failures = brk.failures,
           b.trialTaken = TRUE => b = brk /\ ~trialling[c]
    PROVE  Inv'
<1> DEFINE k == Claimed(b)
<1>1. /\ k \in Breaker
      /\ k.sinceOpen = brk.sinceOpen
      /\ k.failures = brk.failures
      /\ brk.state = "closed" => k = b
      /\ brk.state # "closed" => k.state = "half_open" /\ k.trialTaken = TRUE
    BY ClaimedFields
<1>2. brk' = k
    BY DEF StartAttempt
<1> HIDE DEF k
<1>3. /\ pc' = [pc EXCEPT ![c] = "calling"]
      /\ attempts' = [attempts EXCEPT ![c] = attempts[c] + 1]
      /\ trialling' = [trialling EXCEPT ![c] = (k.state = "half_open")]
      /\ age' = [age EXCEPT ![c] = 0]
    BY DEF StartAttempt, k
<1>4. TypeOK'
    BY <1>1, <1>2, <1>3, AllowedRetriesAssumption DEF Inv, TypeOK
<1>5. Locals'
    BY <1>3 DEF Inv, TypeOK
<1>6. ClaimHasOwner'
    BY <1>1, <1>2, <1>3 DEF Inv, TypeOK
<1>7. NothingStartsWhileOpen'
    BY <1>1, <1>2, <1>3 DEF Inv, TypeOK, Breaker, BreakerState
<1>8. CountIsStreak' /\ ClosedIffBelowThreshold'
    BY <1>1, <1>2 DEF Inv, Threshold
<1>9. QED
    BY <1>4, <1>5, <1>6, <1>7, <1>8 DEF Inv

\* What a recorded failure does to the count and to the history, whichever
\* coroutine records it.
LEMMA CountFailureInv ==
    ASSUME Inv, CountFailure, NEW b, b = RecordFailure(brk)
    PROVE  /\ b \in Breaker
           /\ b.trialTaken = brk.trialTaken
           /\ streak' \in 0 .. Threshold
           /\ b.state = "closed" => b.failures = streak'
           /\ b.state = "closed" <=> streak' < Threshold
           /\ \/ b.state = "open" /\ b.sinceOpen = 0
              \/ b.state = brk.state /\ b.sinceOpen = brk.sinceOpen
<1>1. brk \in Breaker /\ streak \in 0 .. Threshold /\ brk.failures \in Nat
    BY DEF Inv, TypeOK, Breaker
<1>2. Threshold \in Nat /\ Threshold >= 1
    BY MaxFailuresAssumption DEF Threshold
<1>3. CASE brk.state = "closed"
    <2>1. brk.failures = streak /\ streak < Threshold
        BY <1>3 DEF Inv
    <2>2. streak' = streak + 1
        BY <2>1 DEF CountFailure
    <2>3. brk.failures + 1 >= MaxFailures <=> streak + 1 >= Threshold
        BY <1>1, <2>1, MaxFailuresAssumption DEF Threshold
    <2>4. QED
        BY <1>1, <1>2, <1>3, <2>1, <2>2, <2>3, RecordFailureFields
<1>4. CASE brk.state # "closed"
    <2>1. streak = Threshold /\ streak' = streak
        BY <1>1, <1>2, <1>4 DEF Inv, CountFailure
    <2>2. QED
        BY <1>1, <1>2, <1>4, <2>1, RecordFailureFields
<1>5. QED
    BY <1>3, <1>4

\* Leaving run() with the breaker b keeps Inv, when b's count agrees with
\* the history, b is no older than brk, and the claim is dropped by its
\* owner.
LEMMA FinishInv ==
    ASSUME Inv, NEW c \in Calls, NEW b \in Breaker, Finish(c, b),
           b.trialTaken = TRUE => brk.trialTaken = TRUE /\ trialling[c] = FALSE,
           streak' \in 0 .. Threshold,
           b.state = "closed" => b.failures = streak',
           b.state = "closed" <=> streak' < Threshold,
           \/ b.state = "closed"
           \/ b.state = "open" /\ b.sinceOpen = 0
           \/ b.state = brk.state /\ b.sinceOpen = brk.sinceOpen
    PROVE  Inv'
<1>1. /\ brk' = b
      /\ pc' = [pc EXCEPT ![c] = "idle"]
      /\ attempts' = [attempts EXCEPT ![c] = 0]
      /\ trialling' = [trialling EXCEPT ![c] = FALSE]
      /\ age' = [age EXCEPT ![c] = 0]
    BY DEF Finish
<1>2. TypeOK'
    BY <1>1, AllowedRetriesAssumption DEF Inv, TypeOK
<1>3. Locals'
    BY <1>1 DEF Inv, TypeOK
<1>4. ClaimHasOwner'
    BY <1>1 DEF Inv, TypeOK
<1>5. NothingStartsWhileOpen'
    BY <1>1 DEF Inv, TypeOK
<1>6. CountIsStreak' /\ ClosedIffBelowThreshold'
    BY <1>1 DEF Threshold
<1>7. QED
    BY <1>2, <1>3, <1>4, <1>5, <1>6 DEF Inv

\* Every step of the specification keeps Inv.
LEMMA NextInv == Inv /\ [Next]_vars => Inv'
<1> SUFFICES ASSUME Inv, [Next]_vars PROVE Inv'
    OBVIOUS
<1>0. /\ brk \in Breaker
      /\ \A c \in Calls : trialling[c] \in BOOLEAN /\ attempts[c] \in Nat
      /\ streak \in 0 .. Threshold
      /\ Threshold \in Nat \ {0}
    BY AllowedRetriesAssumption, MaxFailuresAssumption
       DEF Inv, TypeOK, Threshold
<1>1. ASSUME NEW c \in Calls, Enter(c) PROVE Inv'
    <2>1. trialling[c] = FALSE /\ attempts[c] = 0
        BY <1>1 DEF Enter, Inv
    <2>2. /\ attempts[c] <= AllowedRetries
          /\ brk.trialTaken = TRUE => brk = brk /\ ~trialling[c]
        BY <2>1, AllowedRetriesAssumption
    <2>3. StartAttempt(c, brk) /\ UNCHANGED streak
        BY <1>1 DEF Enter
    <2>4. QED
        BY <1>0, <2>2, <2>3, StartAttemptInv
<1>2. ASSUME NEW c \in Calls, Succeed(c) PROVE Inv'
    <2> DEFINE r == RecordSuccess(brk)
               b == ReleaseTrial(r, trialling[c])
    <2>1. /\ r \in Breaker
          /\ r.state = "closed" /\ r.failures = 0
          /\ r.trialTaken = brk.trialTaken
        BY <1>0, RecordSuccessFields
    <2> HIDE DEF r
    <2>2. /\ b \in Breaker
          /\ b.state = "closed" /\ b.failures = 0
          /\ b.trialTaken = TRUE
               => brk.trialTaken = TRUE /\ trialling[c] = FALSE
        BY <1>0, <2>1, ReleaseTrialFields
    <2>3. Finish(c, b) /\ streak' = 0
        BY <1>2 DEF Succeed, r
    <2> HIDE DEF b
    <2>4. /\ streak' \in 0 .. Threshold
          /\ b.state = "closed" => b.failures = streak'
          /\ b.state = "closed" <=> streak' < Threshold
        BY <1>0, <2>2, <2>3
    <2>5. QED
        BY <2>2, <2>3, <2>4, FinishInv
<1>3. ASSUME NEW c \in Calls, Abort(c) \/ Escape(c) \/ WakeRefused(c)
      PROVE  Inv'
    <2> DEFINE b == ReleaseTrial(brk, trialling[c])
    <2>1. /\ b \in Breaker
          /\ b.state = brk.state /\ b.sinceOpen = brk.sinceOpen
          /\ b.failures = brk.failures
          /\ b.trialTaken = TRUE
               => brk.trialTaken = TRUE /\ trialling[c] = FALSE
        BY <1>0, ReleaseTrialFields
    <2>2. Finish(c, b) /\ streak' = streak
        BY <1>3 DEF Abort, Escape, WakeRefused
    <2> HIDE DEF b
    <2>3. /\ b.state = "closed" => b.failures = streak'
          /\ b.state = "closed" <=> streak' < Threshold
        BY <2>1, <2>2 DEF Inv
    <2>4. QED
        BY <1>0, <2>1, <2>2, <2>3, FinishInv
<1>4. ASSUME NEW c \in Calls, FailForGood(c) PROVE Inv'
    <2> DEFINE r == RecordFailure(brk)
               b == ReleaseTrial(r, trialling[c])
    <2>1. Finish(c, b) /\ CountFailure
        BY <1>4 DEF FailForGood
    <2>2. /\ r \in Breaker
          /\ r.trialTaken = brk.trialTaken
          /\ streak' \in 0 .. Threshold
          /\ r.state = "closed" => r.failures = streak'
          /\ r.state = "closed" <=> streak' < Threshold
          /\ \/ r.state = "open" /\ r.sinceOpen = 0
             \/ r.state = brk.state /\ r.sinceOpen = brk.sinceOpen
        BY <2>1, CountFailureInv
    <2> HIDE DEF r
    <2>3. /\ b \in Breaker
          /\ b.state = r.state /\ b.failures = r.failures
          /\ b.sinceOpen = r.sinceOpen
          /\ b.trialTaken = TRUE
               => brk.trialTaken = TRUE /\ trialling[c] = FALSE
        BY <1>0, <2>2, ReleaseTrialFields
    <2> HIDE DEF b
    <2>4. QED
        BY <2>1, <2>2, <2>3, FinishInv
<1>5. ASSUME NEW c \in Calls, FailAndRetry(c) PROVE Inv'
    <2>1. /\ brk' \in Breaker
          /\ brk'.trialTaken = brk.trialTaken
          /\ streak' \in 0 .. Threshold
          /\ brk'.state = "closed" => brk'.failures = streak'
          /\ brk'.state = "closed" <=> streak' < Threshold
          /\ \/ brk'.state = "open" /\ brk'.sinceOpen = 0
             \/ brk'.state = brk.state /\ brk'.sinceOpen = brk.sinceOpen
        BY <1>5, CountFailureInv DEF FailAndRetry
    <2>2. /\ pc[c] = "calling" /\ attempts[c] <= AllowedRetries
          /\ pc' = [pc EXCEPT ![c] = "sleeping"]
          /\ age' = [age EXCEPT ![c] = 0]
          /\ attempts' = attempts /\ trialling' = trialling
        BY <1>5 DEF FailAndRetry
    <2>3. TypeOK'
        BY <2>1, <2>2 DEF Inv, TypeOK
    <2>4. Locals'
        BY <2>2 DEF Inv, TypeOK
    <2>5. ClaimHasOwner'
        BY <2>1, <2>2 DEF Inv, TypeOK
    <2>6. NothingStartsWhileOpen'
        BY <2>1, <2>2 DEF Inv, TypeOK
    <2>7. QED
        BY <2>1, <2>3, <2>4, <2>5, <2>6 DEF Inv, Threshold
<1>6. ASSUME NEW c \in Calls, WakeAndRetry(c) PROVE Inv'
    <2> DEFINE b == ReleaseTrial(brk, trialling[c])
    <2>1. /\ b \in Breaker
          /\ b.state = brk.state /\ b.sinceOpen = brk.sinceOpen
          /\ b.failures = brk.failures
          /\ b.trialTaken = TRUE => b = brk /\ ~trialling[c]
        BY <1>0, ReleaseTrialFields
    <2>2. StartAttempt(c, b) /\ UNCHANGED streak
        BY <1>6 DEF WakeAndRetry
    <2>3. attempts[c] <= AllowedRetries
        BY <1>6 DEF WakeAndRetry, Inv
    <2> HIDE DEF b
    <2>4. QED
        BY <2>1, <2>2, <2>3, StartAttemptInv
<1>7. ASSUME Tick PROVE Inv'
    <2>1. /\ brk' \in Breaker
          /\ brk'.state = brk.state /\ brk'.failures = brk.failures
          /\ brk'.trialTaken = brk.trialTaken
          /\ brk'.sinceOpen <= brk.sinceOpen + 1
        BY <1>0, <1>7, AgedFields, ResetAssumption DEF Tick, Breaker
    <2>2. /\ age' = [c \in Calls |-> IF pc[c] = "idle" THEN 0 ELSE age[c] + 1]
          /\ UNCHANGED <<pc, attempts, trialling, streak>>
        BY <1>7 DEF Tick
    <2>3. TypeOK'
        BY <2>1, <2>2 DEF Inv, TypeOK
    <2>4. NothingStartsWhileOpen'
        BY <1>0, <2>1, <2>2, ResetAssumption DEF Inv, TypeOK, Breaker
    <2>5. QED
        BY <2>1, <2>2, <2>3, <2>4 DEF Inv, Threshold
<1>8. ASSUME UNCHANGED vars PROVE Inv'
    BY <1>8 DEF vars, Inv, TypeOK, Threshold
<1>9. QED
    BY <1>1, <1>2, <1>3, <1>4, <1>5, <1>6, <1>7, <1>8
       DEF Next, EndAttempt, Wake

\* Inv holds in every reachable state.
THEOREM InvHolds == Spec => []Inv
<1>1. QED
    BY InitInv, NextInv, PTL DEF Spec

\* Type correctness, the retry budget included.
THEOREM TypeCorrect == Spec => []TypeOK
<1>1. Inv => TypeOK
    BY DEF Inv
<1>2. QED
    BY InvHolds, <1>1, PTL

\* A claimed trial always has a live owner, on every route out of run().
THEOREM ClaimSafety == Spec => []ClaimHasOwner
<1>1. Inv => ClaimHasOwner
    BY DEF Inv
<1>2. QED
    BY InvHolds, <1>1, PTL

\* Nothing starts while the circuit is open.
THEOREM OpenSafety == Spec => []NothingStartsWhileOpen
<1>1. Inv => NothingStartsWhileOpen
    BY DEF Inv
<1>2. QED
    BY InvHolds, <1>1, PTL

\* The circuit is closed exactly below the threshold of failures in a row.
THEOREM ThresholdSafety == Spec => []ClosedIffBelowThreshold
<1>1. Inv => ClosedIffBelowThreshold
    BY DEF Inv
<1>2. QED
    BY InvHolds, <1>1, PTL

-----------------------------------------------------------------------------
(* One trial at a time, when no await lasts as long as the reset timeout.  *)

USE DEF Timed, TrialHoldsClaim, SleepingTrialIsAlone, AtMostOneTrial, Trials

\* In a half-open circuit only the trial is in flight: whatever was in
\* flight when it opened has reached its limit since.
LEMMA HalfOpenOnlyTrials ==
    ASSUME TimeoutsBelowReset, TrialInv, brk.state = "half_open"
    PROVE  \A c \in Calls : /\ pc[c] = "calling" => trialling[c] = TRUE
                            /\ pc[c] = "sleeping" => trialling[c] = FALSE
<1> SUFFICES ASSUME NEW c \in Calls
             PROVE  /\ pc[c] = "calling" => trialling[c] = TRUE
                    /\ pc[c] = "sleeping" => trialling[c] = FALSE
    OBVIOUS
<1>1. trialling[c] \in BOOLEAN /\ age[c] \in Nat
    BY DEF TrialInv, Inv, TypeOK
<1>2. ASSUME pc[c] = "calling", trialling[c] = FALSE PROVE FALSE
    <2>1. age[c] >= Reset /\ age[c] <= AttemptLimit
        BY <1>2 DEF TrialInv, Inv
    <2>2. QED
        BY <1>1, <2>1, ResetAssumption, AttemptLimitAssumption
           DEF TimeoutsBelowReset
<1>3. ASSUME pc[c] = "sleeping", trialling[c] = TRUE PROVE FALSE
    BY <1>3 DEF TrialInv
<1>4. QED
    BY <1>1, <1>2, <1>3

\* While a failed trial sleeps the reset timeout cannot have elapsed.
LEMMA SleepingTrialNotAdmitted ==
    ASSUME TimeoutsBelowReset, TrialInv, NEW c \in Calls,
           pc[c] = "sleeping", trialling[c] = TRUE
    PROVE  brk.state = "open" /\ brk.sinceOpen < Reset
<1>1. /\ brk.state = "open"
      /\ brk.sinceOpen <= age[c] /\ age[c] <= MaxBackoff
    BY DEF TrialInv
<1>2. brk.sinceOpen \in Nat /\ age[c] \in Nat
    BY ResetAssumption DEF TrialInv, Inv, TypeOK, Breaker
<1>3. QED
    BY <1>1, <1>2, ResetAssumption, MaxBackoffAssumption DEF TimeoutsBelowReset

\* The initial state satisfies the strengthened invariant.
LEMMA InitTrialInv == Init => TrialInv
BY InitInv, NewBreakerFields, AttemptLimitAssumption, MaxBackoffAssumption
   DEF Init, TrialInv

\* Starting an attempt keeps TrialInv when nobody who sleeps owns a claim
\* other than the one that is being released.
LEMMA StartAttemptTrialInv ==
    ASSUME TimeoutsBelowReset, TrialInv, Inv', NEW c \in Calls,
           NEW b \in Breaker, StartAttempt(c, b), pc[c] # "calling",
           b.state = brk.state, b.sinceOpen = brk.sinceOpen,
           trialling[c] = FALSE => b = brk,
           pc[c] = "idle" => trialling[c] = FALSE
    PROVE  TrialInv'
<1> DEFINE k == Claimed(b)
<1>1. /\ brk' = k
      /\ pc' = [pc EXCEPT ![c] = "calling"]
      /\ trialling' = [trialling EXCEPT ![c] = (k.state = "half_open")]
      /\ age' = [age EXCEPT ![c] = 0]
      /\ Admits(b)
    BY DEF StartAttempt
<1>2. /\ k \in Breaker
      /\ k.sinceOpen = brk.sinceOpen
      /\ brk.state = "closed" => k = b
      /\ brk.state # "closed" => k.state = "half_open" /\ k.trialTaken = TRUE
    BY ClaimedFields
<1> HIDE DEF k
<1>3. /\ brk \in Breaker
      /\ pc \in [Calls -> {"idle", "calling", "sleeping"}]
      /\ trialling \in [Calls -> BOOLEAN]
      /\ age \in [Calls -> Nat]
    BY DEF TrialInv, Inv, TypeOK
<1>4. \A d \in Calls : ~(pc[d] = "sleeping" /\ trialling[d] = TRUE)
    <2> SUFFICES ASSUME NEW d \in Calls, pc[d] = "sleeping", trialling[d] = TRUE
                 PROVE  FALSE
        OBVIOUS
    <2>1. brk.state = "open" /\ brk.sinceOpen < Reset
        BY SleepingTrialNotAdmitted
    <2>2. QED
        BY <1>1, <1>3, <2>1, ResetAssumption DEF Admits, Breaker
<1>5. b = brk
    BY <1>3, <1>4
<1>6. CASE brk.state = "closed"
    <2>1. \A d \in Calls : pc[d] # "idle" => trialling[d] = FALSE
        BY <1>3, <1>4, <1>6 DEF TrialInv
    <2>2. brk' = brk /\ trialling' = [trialling EXCEPT ![c] = FALSE]
        BY <1>1, <1>2, <1>5, <1>6
    <2>3. Timed'
        BY <1>1, <1>3, <1>6, <2>2, AttemptLimitAssumption DEF TrialInv
    <2>4. TrialHoldsClaim' /\ SleepingTrialIsAlone' /\ AtMostOneTrial'
        BY <1>1, <1>3, <1>6, <2>1, <2>2
    <2>5. QED
        BY <2>3, <2>4 DEF TrialInv
<1>7. CASE brk.state # "closed"
    <2>1. brk'.state = "half_open" /\ brk'.trialTaken = TRUE
          /\ brk'.sinceOpen = brk.sinceOpen
          /\ trialling' = [trialling EXCEPT ![c] = TRUE]
        BY <1>1, <1>2, <1>7
    <2>2. brk.sinceOpen = Reset
        BY <1>1, <1>3, <1>5, <1>7, ResetAssumption
           DEF Admits, Breaker, BreakerState, TrialInv
    <2>3. Timed'
        BY <1>1, <1>3, <2>1, <2>2, AttemptLimitAssumption DEF TrialInv
    <2>4. \A d \in Calls : ~(pc[d] = "calling" /\ trialling[d] = TRUE)
        BY <1>1, <1>5, <1>7 DEF Admits, TrialInv
    <2>5. TrialHoldsClaim' /\ SleepingTrialIsAlone' /\ AtMostOneTrial'
        BY <1>1, <1>3, <1>4, <2>1, <2>4
    <2>6. QED
        BY <2>3, <2>5 DEF TrialInv
<1>8. QED
    BY <1>6, <1>7

\* An attempt that ends leaves nobody else with a trial, in flight or asleep.
LEMMA NoOtherTrial ==
    ASSUME TimeoutsBelowReset, TrialInv, NEW c \in Calls, pc[c] = "calling"
    PROVE  \A d \in Calls \ {c} : trialling[d] = FALSE
<1> SUFFICES ASSUME NEW d \in Calls \ {c}, trialling[d] # FALSE PROVE FALSE
    OBVIOUS
<1>1. /\ trialling[c] \in BOOLEAN /\ trialling[d] = TRUE
      /\ pc[d] \in {"idle", "calling", "sleeping"}
    BY DEF TrialInv, Inv, TypeOK
<1>2. pc[d] # "sleeping" /\ pc[d] # "idle"
    BY <1>1 DEF TrialInv, Inv
<1>3. pc[d] = "calling" /\ brk.state = "half_open"
    BY <1>1, <1>2 DEF TrialInv
<1>4. trialling[c] = TRUE
    BY <1>3, HalfOpenOnlyTrials
<1>5. QED
    BY <1>1, <1>3, <1>4 DEF TrialInv

\* Leaving run() with the breaker b keeps TrialInv.
LEMMA FinishTrialInv ==
    ASSUME TimeoutsBelowReset, TrialInv, Inv', NEW c \in Calls,
           NEW b \in Breaker, Finish(c, b), pc[c] # "idle",
           b.state = "half_open" => /\ brk.state = "half_open"
                                    /\ b.sinceOpen = brk.sinceOpen,
           pc[c] = "sleeping" => /\ b.state = brk.state
                                 /\ b.sinceOpen = brk.sinceOpen
                                 /\ trialling[c] = FALSE => b = brk
    PROVE  TrialInv'
<1>1. /\ brk' = b
      /\ pc' = [pc EXCEPT ![c] = "idle"]
      /\ trialling' = [trialling EXCEPT ![c] = FALSE]
      /\ age' = [age EXCEPT ![c] = 0]
    BY DEF Finish
<1>2. /\ pc \in [Calls -> {"idle", "calling", "sleeping"}]
      /\ trialling \in [Calls -> BOOLEAN]
      /\ age \in [Calls -> Nat]
    BY DEF TrialInv, Inv, TypeOK
<1>3. Timed'
    BY <1>1, <1>2 DEF TrialInv
<1>4. CASE pc[c] = "calling"
    <2>1. \A d \in Calls : trialling'[d] = FALSE
        BY <1>1, <1>2, <1>4, NoOtherTrial
    <2>2. QED
        BY <1>3, <2>1 DEF TrialInv
<1>5. CASE pc[c] = "sleeping" /\ trialling[c] = FALSE
    <2>1. TrialHoldsClaim' /\ SleepingTrialIsAlone' /\ AtMostOneTrial'
        BY <1>1, <1>2, <1>5 DEF TrialInv
    <2>2. QED
        BY <1>3, <2>1 DEF TrialInv
<1>6. CASE pc[c] = "sleeping" /\ trialling[c] = TRUE
    <2>1. brk.state = "open" /\ \A d \in Calls : pc[d] # "calling"
        BY <1>6 DEF TrialInv
    <2>2. TrialHoldsClaim' /\ SleepingTrialIsAlone' /\ AtMostOneTrial'
        BY <1>1, <1>2, <1>6, <2>1 DEF TrialInv
    <2>3. QED
        BY <1>3, <2>2 DEF TrialInv
<1>7. QED
    BY <1>2, <1>4, <1>5, <1>6

\* Every step keeps TrialInv.
LEMMA NextTrialInv ==
    ASSUME TimeoutsBelowReset
    PROVE  TrialInv /\ [Next]_vars => TrialInv'
<1> SUFFICES ASSUME TrialInv, [Next]_vars PROVE TrialInv'
    OBVIOUS
<1>0. /\ Inv'
      /\ brk \in Breaker
      /\ pc \in [Calls -> {"idle", "calling", "sleeping"}]
      /\ trialling \in [Calls -> BOOLEAN]
      /\ age \in [Calls -> Nat]
      /\ \A c \in Calls : trialling[c] \in BOOLEAN
    BY NextInv DEF TrialInv, Inv, TypeOK
<1>1. ASSUME NEW c \in Calls, Enter(c) PROVE TrialInv'
    <2>1. trialling[c] = FALSE /\ pc[c] = "idle" /\ StartAttempt(c, brk)
        BY <1>1 DEF Enter, TrialInv, Inv
    <2>2. QED
        BY <1>0, <2>1, StartAttemptTrialInv
<1>2. ASSUME NEW c \in Calls, WakeAndRetry(c) PROVE TrialInv'
    <2> DEFINE b == ReleaseTrial(brk, trialling[c])
    <2>1. /\ b \in Breaker
          /\ b.state = brk.state /\ b.sinceOpen = brk.sinceOpen
          /\ trialling[c] = FALSE => b = brk
        BY <1>0, ReleaseTrialFields
    <2>2. StartAttempt(c, b) /\ pc[c] = "sleeping"
        BY <1>2 DEF WakeAndRetry
    <2> HIDE DEF b
    <2>3. QED
        BY <1>0, <2>1, <2>2, StartAttemptTrialInv
<1>3. ASSUME NEW c \in Calls, Abort(c) \/ Escape(c) \/ WakeRefused(c)
      PROVE  TrialInv'
    <2> DEFINE b == ReleaseTrial(brk, trialling[c])
    <2>1. /\ b \in Breaker
          /\ b.state = brk.state /\ b.sinceOpen = brk.sinceOpen
          /\ trialling[c] = FALSE => b = brk
        BY <1>0, ReleaseTrialFields
    <2>2. Finish(c, b) /\ pc[c] # "idle"
        BY <1>3 DEF Abort, Escape, WakeRefused
    <2> HIDE DEF b
    <2>3. QED
        BY <1>0, <2>1, <2>2, FinishTrialInv
<1>4. ASSUME NEW c \in Calls, Succeed(c) PROVE TrialInv'
    <2> DEFINE r == RecordSuccess(brk)
               b == ReleaseTrial(r, trialling[c])
    <2>1. r \in Breaker /\ r.state = "closed"
        BY <1>0, RecordSuccessFields
    <2> HIDE DEF r
    <2>2. b \in Breaker /\ b.state = "closed"
        BY <1>0, <2>1, ReleaseTrialFields
    <2>3. Finish(c, b) /\ pc[c] = "calling"
        BY <1>4 DEF Succeed, r
    <2> HIDE DEF b
    <2>4. QED
        BY <1>0, <2>2, <2>3, FinishTrialInv
<1>5. ASSUME NEW c \in Calls, FailForGood(c) PROVE TrialInv'
    <2> DEFINE r == RecordFailure(brk)
               b == ReleaseTrial(r, trialling[c])
    <2>1. r \in Breaker /\ r.state # "half_open"
        BY <1>0, RecordFailureFields
    <2> HIDE DEF r
    <2>2. b \in Breaker /\ b.state # "half_open"
        BY <1>0, <2>1, ReleaseTrialFields
    <2>3. Finish(c, b) /\ pc[c] = "calling"
        BY <1>5 DEF FailForGood, r
    <2> HIDE DEF b
    <2>4. QED
        BY <1>0, <2>2, <2>3, FinishTrialInv
<1>6. ASSUME NEW c \in Calls, FailAndRetry(c) PROVE TrialInv'
    <2>1. /\ pc[c] = "calling"
          /\ pc' = [pc EXCEPT ![c] = "sleeping"]
          /\ age' = [age EXCEPT ![c] = 0]
          /\ trialling' = trialling
          /\ brk' = RecordFailure(brk)
        BY <1>6 DEF FailAndRetry
    <2>2. /\ brk'.state # "half_open"
          /\ brk.state = "half_open" => brk'.state = "open" /\ brk'.sinceOpen = 0
        BY <1>0, <2>1, RecordFailureFields
    <2>3. \A d \in Calls \ {c} : trialling[d] = FALSE
        BY <2>1, NoOtherTrial
    <2>4. Timed'
        BY <1>0, <2>1, <2>2, MaxBackoffAssumption DEF TrialInv
    <2>5. TrialHoldsClaim' /\ AtMostOneTrial'
        BY <1>0, <2>1, <2>2, <2>3
    <2>6. SleepingTrialIsAlone'
        <3>1. CASE trialling[c] = FALSE
            BY <1>0, <2>1, <2>3, <3>1
        <3>2. CASE trialling[c] = TRUE
            <4>1. brk.state = "half_open"
                BY <2>1, <3>2 DEF TrialInv
            <4>2. \A d \in Calls \ {c} : pc[d] # "calling"
                BY <2>3, <4>1, HalfOpenOnlyTrials
            <4>3. QED
                BY <1>0, <2>1, <2>2, <2>3, <4>1, <4>2
        <3>3. QED
            BY <1>0, <3>1, <3>2
    <2>7. QED
        BY <1>0, <2>4, <2>5, <2>6 DEF TrialInv
<1>7. ASSUME Tick PROVE TrialInv'
    <2>1. /\ brk'.state = brk.state
          /\ brk'.trialTaken = brk.trialTaken
          /\ brk'.sinceOpen <= brk.sinceOpen + 1
          /\ brk'.sinceOpen <= Reset
          /\ brk.sinceOpen = Reset => brk'.sinceOpen = Reset
          /\ brk.sinceOpen \in Nat /\ brk'.sinceOpen \in Nat
        BY <1>0, <1>7, AgedFields, ResetAssumption DEF Tick, Breaker
    <2>2. /\ \A c \in Calls : /\ pc[c] = "calling" => age[c] < AttemptLimit
                              /\ pc[c] = "sleeping" => age[c] < MaxBackoff
          /\ age' = [c \in Calls |-> IF pc[c] = "idle" THEN 0 ELSE age[c] + 1]
          /\ pc' = pc /\ trialling' = trialling
        BY <1>7 DEF Tick
    <2>3. Timed'
        <3>1. brk'.state = "half_open" => brk'.sinceOpen = Reset
            BY <2>1 DEF TrialInv
        <3>2. \A c \in Calls :
                 /\ pc[c] = "calling" => age[c] + 1 <= AttemptLimit
                 /\ pc[c] = "sleeping" => age[c] + 1 <= MaxBackoff
            BY <1>0, <2>2, AttemptLimitAssumption, MaxBackoffAssumption
        <3>3. QED
            BY <2>2, <3>1, <3>2
    <2>4. TrialHoldsClaim' /\ AtMostOneTrial'
        BY <2>1, <2>2 DEF TrialInv
    <2>5. SleepingTrialIsAlone'
        BY <1>0, <2>1, <2>2 DEF TrialInv
    <2>6. QED
        BY <1>0, <2>3, <2>4, <2>5 DEF TrialInv
<1>8. ASSUME UNCHANGED vars PROVE TrialInv'
    BY <1>0, <1>8 DEF vars, TrialInv
<1>9. QED
    BY <1>1, <1>2, <1>3, <1>4, <1>5, <1>6, <1>7, <1>8
       DEF Next, EndAttempt, Wake

\* TrialInv holds in every reachable state of such a configuration.
THEOREM TrialInvHolds ==
    ASSUME TimeoutsBelowReset
    PROVE  Spec => []TrialInv
<1>1. Init => TrialInv
    BY InitTrialInv
<1>2. TrialInv /\ [Next]_vars => TrialInv'
    BY NextTrialInv
<1>3. QED
    BY <1>1, <1>2, PTL DEF Spec

\* When no attempt and no backoff lasts as long as the reset timeout, the
\* half-open circuit admits one trial at a time, however many coroutines
\* race for it.
THEOREM OneTrialAtATime ==
    ASSUME TimeoutsBelowReset
    PROVE  Spec => []AtMostOneTrial
<1>1. TrialInv => AtMostOneTrial
    BY DEF TrialInv
<1>2. QED
    BY TrialInvHolds, <1>1, PTL

\* In the same configurations only the trial's own outcome ends the
\* half-open state.
THEOREM TrialDecides ==
    ASSUME TimeoutsBelowReset
    PROVE  Spec => OnlyTrialDecides
<1>1. ASSUME TrialInv, [Next]_vars,
             brk.state = "half_open", brk'.state # "half_open"
      PROVE  \E c \in Trials : pc'[c] # "calling"
    <2>0. brk \in Breaker /\ pc \in [Calls -> {"idle", "calling", "sleeping"}]
          /\ trialling \in [Calls -> BOOLEAN]
        BY <1>1 DEF TrialInv, Inv, TypeOK
    <2>1. ASSUME NEW c \in Calls, pc[c] = "calling", pc'[c] # "calling"
          PROVE  \E d \in Trials : pc'[d] # "calling"
        <3>1. c \in Trials
            BY <1>1, <2>1, HalfOpenOnlyTrials
        <3>2. QED
            BY <2>1, <3>1
    <2>2. ASSUME NEW c \in Calls,
                 \/ Succeed(c) \/ FailForGood(c) \/ FailAndRetry(c) \/ Abort(c)
          PROVE  \E d \in Trials : pc'[d] # "calling"
        <3>1. pc[c] = "calling" /\ pc'[c] # "calling"
            BY <2>0, <2>2 DEF Succeed, FailForGood, FailAndRetry, Abort, Finish
        <3>2. QED
            BY <2>1, <3>1
    <2>3. ASSUME NEW c \in Calls, NEW t \in BOOLEAN,
                 brk' = ReleaseTrial(brk, t) \/ brk' = Claimed(ReleaseTrial(brk, t))
          PROVE  FALSE
        <3>1. ReleaseTrial(brk, t) \in Breaker
              /\ ReleaseTrial(brk, t).state = "half_open"
            BY <1>1, <2>0, ReleaseTrialFields
        <3>2. Claimed(ReleaseTrial(brk, t)).state = "half_open"
            BY <3>1, ClaimedFields
        <3>3. QED
            BY <1>1, <2>3, <3>1, <3>2
    <2>4. ASSUME NEW c \in Calls, Escape(c) \/ WakeRefused(c) \/ WakeAndRetry(c)
          PROVE  FALSE
        <3>1. \/ brk' = ReleaseTrial(brk, trialling[c])
              \/ brk' = Claimed(ReleaseTrial(brk, trialling[c]))
            BY <2>4 DEF Escape, WakeRefused, WakeAndRetry, Finish, StartAttempt
        <3>2. QED
            BY <2>0, <2>3, <3>1
    <2>5. ASSUME NEW c \in Calls, Enter(c) PROVE FALSE
        <3>1. brk' = Claimed(brk)
            BY <2>5 DEF Enter, StartAttempt
        <3>2. QED
            BY <1>1, <2>0, <3>1, ClaimedFields
    <2>6. ~Tick
        BY <1>1, <2>0, AgedFields DEF Tick
    <2>7. ~UNCHANGED vars
        BY <1>1 DEF vars
    <2>8. QED
        BY <1>1, <2>2, <2>4, <2>5, <2>6, <2>7 DEF Next, EndAttempt, Wake
<1>2. TrialInv /\ [Next]_vars
        => [brk.state = "half_open" /\ brk'.state # "half_open"
              => \E c \in Trials : pc'[c] # "calling"]_vars
    BY <1>1
<1>3. QED
    BY TrialInvHolds, <1>2, PTL DEF Spec, OnlyTrialDecides
=============================================================================
