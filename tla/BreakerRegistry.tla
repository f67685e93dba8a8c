-------------------------- MODULE BreakerRegistry --------------------------
(***************************************************************************)
(* The process-wide registry of breakers                                   *)
(* (helpers/internal/breaker_registry.py) composed with the requests that  *)
(* look breakers up in their constructor (BaseRequestClass.__init__) and   *)
(* use them later, inside handle_request().                                *)
(*                                                                         *)
(* The registry is an OrderedDict: `registry` is its key order, least      *)
(* recently used first, and breakerOf its values.  A request keeps the     *)
(* object it was given, so an object outlives its eviction while someone   *)
(* holds it.  Requests carry no retry_config (the default), so each makes  *)
(* one attempt; CircuitBreaker has the retry loop.                         *)
(***************************************************************************)
EXTENDS BreakerOps, Sequences, SequencesExt, FiniteSets

CONSTANTS
    Destinations,   \* keys (family, host, port)
    Requests,       \* concurrent request() calls
    Maximum,        \* BREAKER_REGISTRY_MAX
    AttemptLimit,   \* longest an attempt stays in flight
    Watched         \* the destination the refinement and Isolation look at

ASSUME RequestsAssumption == IsFiniteSet(Requests)
ASSUME MaximumAssumption == Maximum \in Nat \ {0}
ASSUME AttemptLimitAssumption == AttemptLimit \in Nat
ASSUME WatchedAssumption == Watched \in Destinations

\* Object identities.  Live objects are registered or held by a request;
\* the last one is the object a lookup is about to create.
Objects == 1 .. Maximum + Cardinality(Requests) + 1
NoObject == 0

VARIABLES
    registry,   \* _BREAKERS' keys, least recently used first
    breakerOf,  \* _BREAKERS' values, NoObject for a key it lacks
    heap,       \* the breaker objects
    phase, dest, obj, trialling, age,   \* per request
    recency,    \* history: every key looked up, in order of its last lookup
    dropped,    \* history: requests whose key left _BREAKERS since their lookup
    failed      \* history: a failure was recorded for Watched

regVars == <<registry, breakerOf>>
reqVars == <<phase, dest, obj, trialling, age>>
vars == <<registry, breakerOf, heap, phase, dest, obj, trialling, age,
          recency, dropped, failed>>

Init == /\ registry = <<>>
        /\ breakerOf = [d \in Destinations |-> NoObject]
        /\ heap = [o \in Objects |-> NewBreaker]
        /\ phase = [r \in Requests |-> "idle"]
        /\ dest = [r \in Requests |-> Watched]
        /\ obj = [r \in Requests |-> NoObject]
        /\ trialling = [r \in Requests |-> FALSE]
        /\ age = [r \in Requests |-> 0]
        /\ recency = <<>>
        /\ dropped = {}
        /\ failed = FALSE

Live == {breakerOf[d] : d \in Destinations} \cup {obj[r] : r \in Requests}
Fresh == CHOOSE o \in Objects : o \notin Live

\* Objects nobody can reach any more are forgotten.
Collected(h, live) == [o \in Objects |-> IF o \in live THEN h[o] ELSE NewBreaker]

-----------------------------------------------------------------------------
\* Mutant: a hit does not count as a use.
UsedInsertionOrder(keys, d) == IF d \in ToSet(keys) THEN keys ELSE Append(keys, d)

\* move_to_end on a hit, insertion at the end on a miss.
Used(keys, d) ==
    IF d \in ToSet(keys)
    THEN Append(RemoveAt(keys, CHOOSE i \in DOMAIN keys : keys[i] = d), d)
    ELSE Append(keys, d)

\* Mutant: one entry too many is kept.
TrimmedLate(keys) ==
    IF Len(keys) > Maximum + 1
    THEN SubSeq(keys, Len(keys) - Maximum, Len(keys))
    ELSE keys

\* while len(_BREAKERS) > maximum: popitem(last=False)
Trimmed(keys) ==
    IF Len(keys) > Maximum
    THEN SubSeq(keys, Len(keys) - Maximum + 1, Len(keys))
    ELSE keys

\* Mutant: the key forgets the port, so every destination shares one entry.
GetBreakerUnkeyed(d) ==
    LET taken == {breakerOf[e] : e \in Destinations} \ {NoObject}
    IN  IF taken # {} THEN CHOOSE o \in taken : TRUE ELSE Fresh

\* Mutant: a breaker per request, which "can therefore never open" (H8).
GetBreakerPerRequest(d) == Fresh

\* What get_breaker(d) returns: the registered object, or a new one.
GetBreaker(d) == IF breakerOf[d] # NoObject THEN breakerOf[d] ELSE Fresh

\* get_breaker(): the object returned and the registry it leaves.
LookUp(d) ==
    LET keys == Trimmed(Used(registry, d))
    IN  /\ registry' = keys
        /\ breakerOf' = [e \in Destinations |->
                            IF e \notin ToSet(keys) THEN NoObject
                            ELSE IF e = d THEN GetBreaker(d)
                            ELSE breakerOf[e]]
        /\ recency' = Used(recency, d)

Evicted == {d \in Destinations : breakerOf[d] # NoObject /\ breakerOf'[d] = NoObject}
HoldersOf(D) == {r \in Requests : phase[r] # "idle" /\ dest[r] \in D}

\* BaseRequestClass.__init__ looks the breaker up and the constructor returns.
Construct(r, d) ==
    /\ phase[r] = "idle"
    /\ LookUp(d)
    /\ phase' = [phase EXCEPT ![r] = "built"]
    /\ dest' = [dest EXCEPT ![r] = d]
    /\ obj' = [obj EXCEPT ![r] = GetBreaker(d)]
    /\ dropped' = dropped \cup HoldersOf(Evicted)
    /\ heap' = Collected(heap, Live')
    /\ UNCHANGED <<trialling, age, failed>>

\* The lookup happens before the subclass validates its own settings: a
\* request refused for them has still used, or created, an entry.
ConstructRejected(r, d) ==
    /\ phase[r] = "idle"
    /\ LookUp(d)
    /\ UNCHANGED <<reqVars, failed>>
    /\ dropped' = dropped \cup HoldersOf(Evicted)
    /\ heap' = Collected(heap, Live')

\* reset(), the test-only hook that empties the registry.
ResetRegistry ==
    /\ registry # <<>>
    /\ registry' = <<>>
    /\ breakerOf' = [d \in Destinations |-> NoObject]
    /\ recency' = <<>>
    /\ UNCHANGED <<reqVars, failed>>
    /\ dropped' = dropped \cup HoldersOf(ToSet(registry))
    /\ heap' = Collected(heap, Live')

-----------------------------------------------------------------------------
(* run() on the object the request holds.                                  *)

Start(r) ==
    /\ phase[r] = "built"
    /\ Admits(heap[obj[r]])
    /\ heap' = [heap EXCEPT ![obj[r]] = Claimed(@)]
    /\ phase' = [phase EXCEPT ![r] = "calling"]
    /\ trialling' = [trialling EXCEPT
                        ![r] = (Claimed(heap[obj[r]]).state = "half_open")]
    /\ UNCHANGED <<regVars, dest, obj, age, recency, dropped, failed>>

\* The request is over; b is what it leaves of its breaker.
End(r, b) ==
    /\ phase' = [phase EXCEPT ![r] = "idle"]
    /\ dest' = [dest EXCEPT ![r] = Watched]
    /\ obj' = [obj EXCEPT ![r] = NoObject]
    /\ trialling' = [trialling EXCEPT ![r] = FALSE]
    /\ age' = [age EXCEPT ![r] = 0]
    /\ dropped' = dropped \ {r}
    /\ UNCHANGED <<regVars, recency>>
    /\ heap' = Collected([heap EXCEPT ![obj[r]] = b], Live')

Refused(r) == /\ phase[r] = "built"
              /\ ~Admits(heap[obj[r]])
              /\ End(r, heap[obj[r]])
              /\ UNCHANGED failed

\* The transport fails before run() is reached, for example while an FTP
\* client connects.
NeverRun(r) == /\ phase[r] = "built"
               /\ End(r, heap[obj[r]])
               /\ UNCHANGED failed

Succeed(r) ==
    /\ phase[r] = "calling"
    /\ End(r, ReleaseTrial(RecordSuccess(heap[obj[r]]), trialling[r]))
    /\ UNCHANGED failed

Fail(r) ==
    /\ phase[r] = "calling"
    /\ End(r, ReleaseTrial(RecordFailure(heap[obj[r]]), trialling[r]))
    /\ failed' = (failed \/ dest[r] = Watched)

\* An abort, a cancellation or a bug: uncounted.
Escape(r) ==
    /\ phase[r] = "calling"
    /\ End(r, ReleaseTrial(heap[obj[r]], trialling[r]))
    /\ UNCHANGED failed

Tick == /\ \A r \in Requests : phase[r] = "calling" => age[r] < AttemptLimit
        /\ heap' = [o \in Objects |-> Aged(heap[o])]
        /\ age' = [r \in Requests |-> IF phase[r] = "calling" THEN age[r] + 1
                                                              ELSE 0]
        /\ UNCHANGED <<regVars, phase, dest, obj, trialling,
                       recency, dropped, failed>>

Next == \/ \E r \in Requests :
              \/ \E d \in Destinations : Construct(r, d) \/ ConstructRejected(r, d)
              \/ Start(r)
              \/ Refused(r)
              \/ NeverRun(r)
              \/ Succeed(r)
              \/ Fail(r)
              \/ Escape(r)
        \/ Tick

Spec == Init /\ [][Next]_vars

\* Nothing in the package calls reset(); the tests do.
TestSpec == Init /\ [][Next \/ ResetRegistry]_vars

-----------------------------------------------------------------------------
(* Properties.                                                             *)

\* The types of the variables, and the registry's bound: never more than
\* BREAKER_REGISTRY_MAX entries once a lookup is done.
TypeOK == /\ registry \in Seq(Destinations)
          /\ Len(registry) <= Maximum
          /\ breakerOf \in [Destinations -> Objects \cup {NoObject}]
          /\ heap \in [Objects -> Breaker]
          /\ phase \in [Requests -> {"idle", "built", "calling"}]
          /\ dest \in [Requests -> Destinations]
          /\ obj \in [Requests -> Objects \cup {NoObject}]
          /\ trialling \in [Requests -> BOOLEAN]
          /\ age \in [Requests -> 0 .. AttemptLimit]
          /\ recency \in Seq(Destinations)
          /\ dropped \subseteq Requests
          /\ failed \in BOOLEAN

\* "Eviction is by least-recent use, not by insertion order": the registry
\* holds exactly the Maximum destinations looked up last, in that order,
\* rejected requests included, and a breaker for each of them.
RegistryIsLRU ==
    /\ registry = Trimmed(recency)
    /\ \A d \in Destinations :
          breakerOf[d] # NoObject <=> d \in ToSet(registry)

\* "The same object on every call for the same key, which is the property
\* H8 turns on": while a destination stays registered, all its requests
\* share the registered breaker.
SharedBreaker ==
    \A r \in Requests :
        phase[r] # "idle" /\ r \notin dropped => obj[r] = breakerOf[dest[r]]

\* One flaky host never opens the circuit of another destination: a request
\* to the watched one, which stands for any of them, finds its breaker
\* disturbed only if that destination itself has failed.
Isolation ==
    \A r \in Requests :
        phase[r] # "idle" /\ dest[r] = Watched /\ ~failed
            => heap[obj[r]].state = "closed" /\ heap[obj[r]].failures = 0

\* What get_breaker promises: the bounded LRU, one object per destination, and
\* no destination disturbed by another.
RegistryInv == TypeOK /\ RegistryIsLRU /\ SharedBreaker /\ Isolation


-----------------------------------------------------------------------------
(* The requests of one destination behave as the coroutines of one         *)
(* CircuitBreaker that never retries, replaced by a new one when the       *)
(* destination leaves the registry.                                        *)

WatchedBreaker == IF breakerOf[Watched] = NoObject THEN NewBreaker
                                                   ELSE heap[breakerOf[Watched]]
Watching(r) == phase[r] = "calling" /\ obj[r] = breakerOf[Watched]

Single == INSTANCE CircuitBreaker WITH
    Calls <- Requests,
    AllowedRetries <- 0,
    MaxBackoff <- 0,
    brk <- WatchedBreaker,
    pc <- [r \in Requests |-> IF Watching(r) THEN "calling" ELSE "idle"],
    attempts <- [r \in Requests |-> IF Watching(r) THEN 1 ELSE 0],
    trialling <- [r \in Requests |-> Watching(r) /\ trialling[r]],
    age <- [r \in Requests |-> IF Watching(r) THEN age[r] ELSE 0],
    streak <- IF WatchedBreaker.state = "closed"
              THEN WatchedBreaker.failures
              ELSE IF MaxFailures = 0 THEN 1 ELSE MaxFailures

\* The composition implements the one-breaker specification: sharing
\* through the registry adds no behaviour and loses no outcome, and only
\* the eviction of the destination ever starts a breaker over.  Requests
\* that still hold an evicted object no longer touch the destination's.
ImplementsBreaker ==
    /\ Single!Init
    /\ [][Single!Next \/ (Watched \in Evicted /\ Single!Init')]_Single!vars
=============================================================================
