---------------------------- MODULE TraceScopes ----------------------------
(***************************************************************************)
(* Whose events a shared request tracer records                            *)
(* (utils/request_tracer.py, with HttpRequest.handle_request and the       *)
(* redirect events of helpers/internal/request_helper.py).                 *)
(*                                                                         *)
(* One tracer serves every call of every task.  Its results_collector is a *)
(* view of the mapping its ContextVar holds in the running task's context; *)
(* a task starts with a copy of its parent's context, so with its parent's *)
(* mapping.  handle_request binds a fresh mapping (a scope) for each call; *)
(* every aiohttp request of the call, one per hop and attempt, resolves    *)
(* the view once, when its trace context is made.  A caller may also use   *)
(* the tracer on a session of its own, outside the gateway.                *)
(*                                                                         *)
(* A timing is known by the request it is measured from: requests of a     *)
(* call are numbered from 1, and 0 means the key is absent.                *)
(***************************************************************************)
EXTENDS Integers

CONSTANTS
    Tasks,
    Main,            \* the task that starts the others
    MaxScopes,       \* bound: mappings ever bound
    AllowedRetries,  \* of the breaker's retry policy
    MaxRedirects

ASSUME MainAssumption == Main \in Tasks
ASSUME BoundsAssumption == /\ MaxScopes \in Nat
                           /\ AllowedRetries \in Nat
                           /\ MaxRedirects \in Nat

Scopes == 1 .. MaxScopes
None == 0     \* no mapping; as a writer, the caller's own session
Requests == 0 .. (AllowedRetries + 1) * (MaxRedirects + 1)

\* The keys of one mapping that matter here.
Empty == [start |-> 0,           \* on_request_start
          exception |-> 0,       \* on_request_exception
          redirect |-> 0,        \* on_request_redirect
          isRedirect |-> FALSE]  \* is_redirect

VARIABLES
    alive,     \* tasks that have been started
    context,   \* the ContextVar's value in each task's context
    results,   \* the mappings
    used,      \* how many of them have been bound
    stage,     \* where each task is
    scope,     \* self.trace_collectors of the call it makes
    tracing,   \* context.results of the aiohttp request in flight
    event,     \* redirected_at: the request the last hop was measured from
    hop, attempt,
    issued,    \* history: requests the call has issued
    reported,  \* scopes some envelope's request_tracer names
    finished,  \* history: scopes whose call has ended
    writers,   \* history: the calls whose requests wrote to each mapping
    truth      \* history: what happened to each call

locals == <<scope, tracing, event, hop, attempt, issued>>
traceVars == <<alive, context, results, used, stage, scope, tracing, event,
               hop, attempt, issued, reported, finished, writers, truth>>

\* What a call came to: the last request it issued, the last one that
\* raised, the last one whose redirect was followed, and whether the
\* attempt that issued a request last followed one.
Untold == [last |-> 0, raised |-> 0, redirected |-> 0, followed |-> FALSE]
ToldIssued(w, n, h) == [w EXCEPT !.last = n, !.followed = @ /\ h > 0]
ToldFollowed(w, n) == [w EXCEPT !.redirected = n, !.followed = TRUE]

TraceInit == /\ alive = {Main}
             /\ context = [t \in Tasks |-> None]
             /\ results = [s \in Scopes |-> Empty]
             /\ used = 0
             /\ stage = [t \in Tasks |-> "idle"]
             /\ scope = [t \in Tasks |-> None]
             /\ tracing = [t \in Tasks |-> None]
             /\ event = [t \in Tasks |-> 0]
             /\ hop = [t \in Tasks |-> 0]
             /\ attempt = [t \in Tasks |-> 0]
             /\ issued = [t \in Tasks |-> 0]
             /\ reported = {}
             /\ finished = {}
             /\ writers = [s \in Scopes |-> {}]
             /\ truth = [s \in Scopes |-> Untold]

-----------------------------------------------------------------------------
(* Contexts.                                                               *)

\* asyncio.create_task or gather: the child gets a copy of the context.
Spawn(t, u) ==
    /\ t \in alive /\ stage[t] = "idle"
    /\ u \notin alive
    /\ alive' = alive \cup {u}
    /\ context' = [context EXCEPT ![u] = context[t]]
    /\ UNCHANGED <<results, used, stage, locals, reported, finished, writers,
                   truth>>

\* Mutant: the collector keeps its mapping in an attribute of the tracer.
VarSetShared(t, s) == [u \in Tasks |-> s]

\* ContextVar.set in the running task.
VarSet(t, s) == [context EXCEPT ![t] = s]

\* Mutant: a scope that is already bound is used again.
ScopeForKept(t) == IF context[t] # None THEN context[t] ELSE used + 1

\* begin_trace_scope: the mapping a call binds, a new one every time.
ScopeFor(t) == used + 1

\* ResultsCollector.current(), and what it binds when nothing is bound.
Current(t) == IF context[t] = None THEN used + 1 ELSE context[t]

Touch(t) == IF context[t] = None
            THEN used' = used + 1 /\ context' = VarSet(t, Current(t))
            ELSE UNCHANGED <<used, context>>

-----------------------------------------------------------------------------
(* The tracer's callbacks, on mapping r.                                   *)

\* on_request_start, of request n.
Started(r, n) == [r EXCEPT !.start = n, !.isRedirect = FALSE]

\* on_request_exception, measured from on_request_start as on_request_end
\* and the timings in between are.
Raised(r) == [r EXCEPT !.exception = r.start]

\* Mutant: the redirect is measured when it is written, after the loop.
MeasuredLate(r, e) == r.start

\* measure_redirect: the base instant of the request just answered.
Measured(r, e) == e

\* record_redirect, in the finally of make_http_request.
RecordRedirect(r, e) ==
    IF e = 0 THEN r
    ELSE [r EXCEPT !.redirect = Measured(r, e), !.isRedirect = TRUE]

-----------------------------------------------------------------------------
(* A call of the gateway.                                                  *)

\* handle_request binds the scope in the running task and puts it on the
\* envelope, unless the session is the caller's: then the envelope reports
\* [], although the tracers on that session are bound and written to.
HandleRequest(t, owned) ==
    /\ t \in alive /\ stage[t] = "idle"
    /\ used < MaxScopes
    /\ context' = VarSet(t, ScopeFor(t))
    /\ scope' = [scope EXCEPT ![t] = ScopeFor(t)]
    /\ used' = IF ScopeFor(t) > used THEN ScopeFor(t) ELSE used
    /\ reported' = IF owned THEN reported \cup {ScopeFor(t)} ELSE reported
    /\ stage' = [stage EXCEPT ![t] = "between"]
    /\ attempt' = [attempt EXCEPT ![t] = 1]
    /\ UNCHANGED <<alive, results, tracing, event, hop, issued, finished,
                   writers, truth>>

\* trace_context: the mapping the callbacks of one request write into.
Tracing(t) == Current(t)

\* aiohttp starts a request: the first of an attempt, or the next hop.
Issue(t) ==
    /\ stage[t] = "between"
    /\ LET n == issued[t] + 1 IN
       /\ issued' = [issued EXCEPT ![t] = n]
       /\ results' = [results EXCEPT ![Tracing(t)] = Started(@, n)]
       /\ truth' = [truth EXCEPT ![scope[t]] = ToldIssued(@, n, hop[t])]
    /\ tracing' = [tracing EXCEPT ![t] = Tracing(t)]
    /\ writers' = [writers EXCEPT ![Tracing(t)] = @ \cup {scope[t]}]
    /\ stage' = [stage EXCEPT ![t] = "inflight"]
    /\ Touch(t)
    /\ UNCHANGED <<alive, scope, event, hop, attempt, reported, finished>>

\* Mutant: one hop too many is followed.
MayFollowLate(t) == hop[t] <= MaxRedirects

MayFollow(t) == hop[t] < MaxRedirects

\* The answer is a redirect, and it is followed.
Follow(t) ==
    /\ stage[t] = "inflight"
    /\ MayFollow(t)
    /\ event' = [event EXCEPT ![t] = results[scope[t]].start]
    /\ hop' = [hop EXCEPT ![t] = @ + 1]
    /\ truth' = [truth EXCEPT ![scope[t]] = ToldFollowed(@, issued[t])]
    /\ stage' = [stage EXCEPT ![t] = "between"]
    /\ UNCHANGED <<alive, context, results, used, scope, tracing, attempt,
                   issued, reported, finished, writers>>

\* The attempt is over: its redirect is recorded and the call ends, or
\* run() backs off before the next one.  rs: what the callbacks left.
Leave(t, rs, retriable) ==
    /\ results' = [rs EXCEPT ![scope[t]] = RecordRedirect(@, event[t])]
    /\ event' = [event EXCEPT ![t] = 0]
    /\ hop' = [hop EXCEPT ![t] = 0]
    /\ tracing' = [tracing EXCEPT ![t] = None]
    /\ UNCHANGED <<alive, context, used, reported, writers>>
    /\ \/ /\ retriable
          /\ attempt[t] <= AllowedRetries
          /\ attempt' = [attempt EXCEPT ![t] = @ + 1]
          /\ stage' = [stage EXCEPT ![t] = "backoff"]
          /\ UNCHANGED <<scope, issued, finished>>
       \/ /\ stage' = [stage EXCEPT ![t] = "idle"]
          /\ scope' = [scope EXCEPT ![t] = None]
          /\ attempt' = [attempt EXCEPT ![t] = 0]
          /\ issued' = [issued EXCEPT ![t] = 0]
          /\ finished' = finished \cup {scope[t]}

\* A response arrives that is not followed: it is read, or refused, or the
\* chain is too long, or reading it fails; aiohttp's request has ended.
Answered(t) ==
    /\ stage[t] = "inflight"
    /\ Leave(t, results, TRUE)
    /\ UNCHANGED truth

\* aiohttp raises: the transport failed, or the task was cancelled (which
\* run() does not retry).
Raises(t, retriable) ==
    /\ stage[t] = "inflight"
    /\ Leave(t, [results EXCEPT ![tracing[t]] = Raised(@)], retriable)
    /\ truth' = [truth EXCEPT ![scope[t]].raised = issued[t]]

\* The attempt ends between two requests.  When the deadline has passed
\* (hop_deadline) or a body's file cannot be read run() retries; the circuit
\* found open and a cancellation, also of the backoff, end the call.
Stopped(t, retriable) ==
    /\ stage[t] = "between" \/ (stage[t] = "backoff" /\ ~retriable)
    /\ Leave(t, results, retriable)
    /\ UNCHANGED truth

Retry(t) ==
    /\ stage[t] = "backoff"
    /\ stage' = [stage EXCEPT ![t] = "between"]
    /\ UNCHANGED <<alive, context, results, used, locals, reported, finished,
                   writers, truth>>

-----------------------------------------------------------------------------
(* The caller drives the tracer itself, on a session of its own.           *)

DirectStart(t) ==
    /\ t \in alive /\ stage[t] = "idle"
    /\ Current(t) <= MaxScopes
    /\ results' = [results EXCEPT ![Current(t)] = Started(@, 1)]
    /\ tracing' = [tracing EXCEPT ![t] = Current(t)]
    /\ writers' = [writers EXCEPT ![Current(t)] = @ \cup {None}]
    /\ stage' = [stage EXCEPT ![t] = "direct"]
    /\ Touch(t)
    /\ UNCHANGED <<alive, scope, event, hop, attempt, issued, reported,
                   finished, truth>>

DirectEnd(t) ==
    /\ stage[t] = "direct"
    /\ \E r \in {results[tracing[t]], Raised(results[tracing[t]])} :
          results' = [results EXCEPT ![tracing[t]] = r]
    /\ tracing' = [tracing EXCEPT ![t] = None]
    /\ stage' = [stage EXCEPT ![t] = "idle"]
    /\ UNCHANGED <<alive, context, used, scope, event, hop, attempt, issued,
                   reported, finished, writers, truth>>

TraceNext == \E t \in Tasks :
    \/ \E u \in Tasks : Spawn(t, u)
    \/ \E owned \in BOOLEAN : HandleRequest(t, owned)
    \/ Issue(t)
    \/ Follow(t)
    \/ Answered(t)
    \/ \E retriable \in BOOLEAN : Raises(t, retriable) \/ Stopped(t, retriable)
    \/ Retry(t)
    \/ DirectStart(t)
    \/ DirectEnd(t)

TraceSpec == TraceInit /\ [][TraceNext]_traceVars

-----------------------------------------------------------------------------
(* Properties.                                                             *)

\* The types of the variables; counters stay within their bounds.
TraceTypeOK ==
    /\ alive \subseteq Tasks
    /\ used \in 0 .. MaxScopes
    /\ context \in [Tasks -> 0 .. used]
    /\ results \in [Scopes -> [start : Requests, exception : Requests,
                               redirect : Requests,
                               isRedirect : BOOLEAN]]
    /\ stage \in [Tasks -> {"idle", "between", "inflight", "backoff", "direct"}]
    /\ scope \in [Tasks -> 0 .. used]
    /\ tracing \in [Tasks -> 0 .. used]
    /\ event \in [Tasks -> Requests]
    /\ hop \in [Tasks -> 0 .. MaxRedirects]
    /\ attempt \in [Tasks -> 0 .. AllowedRetries + 1]
    /\ issued \in [Tasks -> Requests]
    /\ reported \cup finished \subseteq 1 .. used
    /\ writers \in [Scopes -> SUBSET (0 .. used)]
    /\ truth \in [Scopes -> [last : Requests, raised : Requests,
                             redirected : Requests, followed : BOOLEAN]]

\* "Two concurrent calls through one tracer see two different mappings
\* without either knowing the other exists": no call's events land in the
\* mapping of another call, of the same task or a concurrent one, although
\* tasks inherit the mapping their parent had bound.  Only the caller's own
\* use of the tracer, outside the gateway, may add to a call's mapping.
OwnEventsOnly ==
    \A s \in Scopes, c \in 1 .. used : c \in writers[s] => c = s

\* The mapping of a call that has ended, successfully or not, tells exactly
\* what happened to that call: its last request, the failure of any of its
\* attempts and none from elsewhere, and a redirect timed from the request
\* that was redirected rather than the one it led to.
TraceComplete ==
    \A s \in finished : None \notin writers[s] =>
        /\ results[s].start = truth[s].last
        /\ results[s].exception = truth[s].raised
        /\ results[s].redirect = truth[s].redirected
        /\ results[s].isRedirect = truth[s].followed

\* "Those collectors are the caller's [...] and would alias one mutating
\* dict across every envelope the session served": each envelope that
\* reports a trace keeps it as its call left it, whatever is called later;
\* only a request the caller itself makes in a context that still holds the
\* mapping writes to it again.
EnvelopeKept ==
    [][\A s \in reported \cap finished :
          results'[s] # results[s]
             => \E t \in Tasks :
                   /\ s \in {tracing[t], tracing'[t]}
                   /\ "direct" \in {stage[t], stage'[t]}]_traceVars

\* A mapping holds the events of its call: none of another's, and all of them.
TraceInv == TraceTypeOK /\ OwnEventsOnly /\ TraceComplete
=============================================================================
