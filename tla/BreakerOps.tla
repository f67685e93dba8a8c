----------------------------- MODULE BreakerOps -----------------------------
(***************************************************************************)
(* The state of one CircuitBreakerHelper object and the synchronous        *)
(* methods that read and write it                                          *)
(* (helpers/internal/circuit_breaker_helper.py).  No method here awaits,   *)
(* so on the single event loop each one is a function of the old state.    *)
(*                                                                         *)
(* The clock is kept as a distance: sinceOpen stands for                   *)
(* clock() - _opened_at.  It stops growing at Reset, beyond which the only *)
(* comparison the code makes no longer changes, and stands still while the *)
(* breaker is closed, when nothing reads it and _open() will overwrite it. *)
(***************************************************************************)
EXTENDS Integers

CONSTANTS
    MaxFailures,    \* maximum_failures; 0 is legal and opens on the first one
    Reset           \* reset_timeout_seconds; 0 is legal

ASSUME MaxFailuresAssumption == MaxFailures \in Nat
ASSUME ResetAssumption == Reset \in Nat

BreakerState == {"closed", "open", "half_open"}

Breaker == [state      : BreakerState,
            failures   : Nat,
            sinceOpen  : 0 .. Reset,
            trialTaken : BOOLEAN]

\* CircuitBreakerHelper.__init__
NewBreaker == [state |-> "closed", failures |-> 0,
               sinceOpen |-> 0, trialTaken |-> FALSE]

-----------------------------------------------------------------------------
(* allows_execution() returns TRUE exactly when Admits(b), and then leaves *)
(* Claimed(b) behind.  When it returns FALSE the breaker is unchanged: an  *)
(* OPEN breaker whose reset has elapsed drops any old claim, so it never   *)
(* refuses.                                                                *)

\* Mutant: the comparison with the reset timeout is off by one.
AdmitsEarly(b) == \/ b.state = "closed"
                  \/ b.state = "open" /\ b.sinceOpen + 1 >= Reset
                  \/ b.state = "half_open" /\ ~b.trialTaken

\* Mutant: half-open admits whoever asks, the check-then-act race the
\* docstring of allows_execution describes.
AdmitsFreely(b) == \/ b.state = "closed"
                   \/ b.state = "open" /\ b.sinceOpen >= Reset
                   \/ b.state = "half_open"

Admits(b) == \/ b.state = "closed"
             \/ b.state = "open" /\ b.sinceOpen >= Reset
             \/ b.state = "half_open" /\ ~b.trialTaken

Claimed(b) == IF b.state = "closed"
              THEN b
              ELSE [b EXCEPT !.state = "half_open", !.trialTaken = TRUE]

-----------------------------------------------------------------------------
\* Mutant: opening the circuit again does not read the clock.
OpenUnstamped(b) == [b EXCEPT !.state = "open", !.failures = 0]

\* _open
Open(b) == [state |-> "open", failures |-> 0,
            sinceOpen |-> 0, trialTaken |-> b.trialTaken]

\* Mutant: closing the circuit keeps the old failure count.
RecordSuccessKeepingCount(b) == [b EXCEPT !.state = "closed"]

\* record_success
RecordSuccess(b) == [b EXCEPT !.state = "closed", !.failures = 0]

\* record_failure.  It does not look for OPEN: a late failure of an attempt
\* admitted earlier is counted too, and may stamp _opened_at again.
RecordFailure(b) ==
    IF b.state = "half_open" \/ b.failures + 1 >= MaxFailures
    THEN Open(b)
    ELSE [b EXCEPT !.failures = @ + 1]

\* Mutant: nobody releases the claim.
ReleaseNothing(b, trialling) == b

\* The finally of run(): the attempt that found HALF_OPEN drops the claim,
\* whoever holds it by then.
ReleaseTrial(b, trialling) ==
    IF trialling THEN [b EXCEPT !.trialTaken = FALSE] ELSE b

\* One unit of clock() passes.
Aged(b) == IF b.state = "closed" \/ b.sinceOpen = Reset
           THEN b
           ELSE [b EXCEPT !.sinceOpen = @ + 1]
=============================================================================
