# A TLA+ model of asyncio-gateway

asyncio-gateway gives a Python program one coroutine, `request()`, for ten
protocols. Every call runs through the same parts: validation, an optional
pre-processor, a protocol client, a circuit breaker with a retry loop shared by
all calls to one destination, an envelope that reports the outcome, an optional
post-processor. What is hard to test in it is what happens *between* awaits:
several coroutines on one breaker, a cancellation that arrives while a thread
finishes a system call, a deadline that expires while a provider call still
runs, a redirect chain a server chooses. This directory models those parts,
checks them with TLC on small instances and proves their safety properties with
TLAPS for every instance.

Paths below are relative to `asyncio_gateway/`. `PROJECT.json` maps every
definition to the source lines it models and lists components, runs, mutants,
findings, hazards and theorems.

## Inventory

| Part | State it keeps | Operations | What is hard, and what must hold |
| --- | --- | --- | --- |
| `helpers/internal/circuit_breaker_helper.py` | `state`, `failures`, `_opened_at`, `_trial_taken` per breaker; `attempts`, `trialling` per `run()` | `allows_execution`, `record_success`, `record_failure`, `run` | Coroutines overlap in attempts and backoffs. One trial at a time, decided by its own outcome; nothing starts while open; claims are never lost; runs end; a healthy destination recovers |
| `helpers/internal/breaker_registry.py`, `helpers/internal/base.py` | `_BREAKERS`, an ordered dict bounded by `BREAKER_REGISTRY_MAX` | `get_breaker`, `reset`, `BaseRequestClass.__init__` | Eviction while requests hold the object. One breaker per destination, LRU by use, no destination disturbs another |
| `asyncio_gateway.py`, `utils/envelope.py` | one envelope per call | `request`, `run_processor`, `checked_envelope`, `new_envelope`, `finalise_ok`, `finalise_error` | Caller code holds the live envelope. The verdict, the dispatch and the breaker key come from the call |
| `logic/http_client.py`, `helpers/internal/request_helper.py` | locals of one exchange | `make_http_request`, `redirect_target`, `after_redirect`, `hop_deadline`, `record_redirect`, `_exchange`, `_copy_into_envelope` | A chain of hops the server chooses, under one deadline, with credentials that must not cross origins and bodies that can be read once |
| `logic/gcs_client.py` | `_GCS_PERMITS`, the private thread pool, one lease per request | `_acquire_gcs_lease`, `_GcsLease.run`, `release`, `_shutdown_gcs_offloader`, the attempts | Threads outlive deadlines and cancellations. Permits balance, no work outlives its lease, shutdown waits |
| `utils/paths.py` | files, descriptors | `stream_to_path` and its shielded thread calls; `resolve_within`, `open_within`, `safe_writer`, `safe_unlink`, `read_guarded_file` | Cancellation races system calls in threads; other processes change the tree between two of them. No torn target, no partial file, no leaks, nothing outside touched, honest results |
| `logic/ftp_client.py`, `logic/sftp_client.py`, `utils/contained_io.py` | the session, the local files of a transfer, `TransferBudget` | option checks, connect, login, `_run_command`, `_run_session`, quit; `mkdir`, `_open`, `write`, `close`, `_discard` of the two wrappers | Retries on top of partial files, one budget over files and attempts, cleanup by name while another transfer writes there, threads that finish after a cancellation, an unauthenticated peer only on request |
| `logic/s3_client.py`, `logic/grpc_client.py`, `utils/http_file_config.py` | one SDK client or channel per call, the streaming body of a download | one operation under the breaker, the close in a task of its own, masking | Closed once and after use on every path, which of several errors is reported, a deadline or cancellation against a late answer |
| `logic/soap_client.py`, `logic/jsonrpc_client.py`, `logic/graphql_client.py` | none | build a document, judge an answer | A peer's error under a good status, a good document under a bad one |
| `utils/request_tracer.py` | a mapping per call, found through a context variable | trace callbacks, `begin_trace_scope`, redirect timing | Tasks inherit contexts: concurrent calls with one tracer must not mix, and an envelope keeps its trace |
| `utils/redaction.py`, `utils/exceptions.py`, `utils/status_map.py`, `utils/constants.py`, `auth.py`, date and filter helpers | none | pure functions and tables | string processing |

How they interact: `request()` builds the client, whose constructor looks the
breaker up in the registry; `handle_request()` passes an attempt to
`CircuitBreakerHelper.run`, which calls it once or several times; the attempt is
an HTTP exchange, a GCS offload or a transfer; the client fills the envelope and
closes it, or raises a typed error that `request()` turns into one.

## Modules

**BreakerOps** has the breaker object as a record and its methods as operators:
`Admits`/`Claimed` are `allows_execution`, `RecordSuccess`, `RecordFailure`,
`Open`, `ReleaseTrial`. The clock reading `_opened_at` is kept as its age
(`sinceOpen`), capped at the reset timeout, from where on it makes no
difference.

**CircuitBreaker** runs any number of coroutines in `run()` on one breaker. A
step is what happens between two awaits: `Enter`, `Succeed`, `Abort`,
`FailAndRetry`, `FailForGood`, `Escape` (cancellation or an exception outside
`RETRIABLE_FAILURES`), `WakeAndRetry`, `WakeRefused`, and `Tick` for the clock.
`AttemptLimit` and `MaxBackoff` bound how long an attempt and a backoff last;
the properties say which relation to `Reset` they need.

**BreakerRegistry** adds the LRU and the requests that look a breaker up, keep
the object and use it later, so that an evicted breaker lives on in the hands of
a request. It instantiates CircuitBreaker for one watched destination and shows
that the requests that reach it implement the one-breaker specification, which
only the eviction of the destination starts over (`ImplementsBreaker`). The
mapping takes the registered object as the breaker and the requests that hold it
as its coroutines.

**GatewayRequest** is `request()` for the five selectors that speak over HTTP,
with the envelope as a record. Processors are the environment: they may write
any key, remove keys, raise or be cancelled. **Verdicts** is what the five
clients make of an answer: a status class, whether the text decodes, a media
type and a document of the protocol.

**HttpExchange** is `make_http_request` with the retry around it. The server
answers anything; a URL is its origin; headers are of three kinds (on the
cross-origin allowlist, declared safe by the caller, anything else).

**GcsOffload** is the lease and its worker thread: submission, start, deadline,
drain, the provider calls of an attempt (connect, client, work, close),
publication of a download, cancellation at every await, retry, shutdown. The
service has one object that uploads create under the generation precondition;
an upload may take effect although its answer is lost.

**StreamToPath** is `stream_to_path` with several writers of both modes on one
path. A file is known by the writer that created it, so that a directory entry,
a descriptor and a temporary name can disagree as they do on disk. A shielded
call is one step that takes notice of a cancellation only at its end;
`start`, `chunk`, `yield` and `classify` are the awaits a cancellation ends at
once. Failures of cleanup calls, which the code ignores, are not modelled.

**PathGuard** is one level below: resolving a path, walking to it, opening,
checking and truncating the leaf, each its own system call, and `safe_writer` or
`read_guarded_file` around it. Other processes exchange directory, links and
files between any two of them (`Others`). A path is a directory and a leaf; one
other directory stands for everything outside.

**Transfer** runs FTP and SFTP requests to the same local directory: session,
breaker, files one after the other, blocks, and the cleanup of both wrappers. A
directory entry knows which request created its file, and a descriptor whether
it still belongs to the entry; a thread call whose request was cancelled happens
later (`late`). A download that names no `client_path` or `local_path` is a call
of its own (`plain`): `_path_io_factory` returns aioftp's own `PathIO`, and
`_run_operation` calls asyncssh's `get` itself. The library then writes to the
working directory, with mode `wb`, no budget and no removal of what a failed
write left (`PlainWrite`, `PlainClose`). The model takes that directory for the
one the other requests download to, the case in which they meet. Its local
errors are retriable, unlike the wrappers' `LocalWriteError`: asyncssh's are
`OSError`s, and aioftp's `PathIOError` is even reported as a failure of the
transport (`LocalFailure`, `Retriable`). `_being_cancelled` is modelled as
`Task.cancelling()`, so for Python 3.11 and later; on 3.10 it reads the exception
chain. **TransferSetup** is what a client makes of its options: which
combinations it refuses, whether the peer is authenticated, whether there is a
local path, and a removal with one, which is a `TypeError` of the library
(`"misfit"`).

**SdkSession** is one S3 or gRPC request: client or channel, attempts, the
streaming body with its two closers, the close in a task nobody cancels, and the
order in which cancellation, close error and failure are reported.

**TraceScopes** has tasks that inherit each other's context, the tracer's
mapping per call, the callbacks of every hop and attempt, and the caller's own
use of the tracer. An attempt also ends between two requests (`Stopped`): when
`hop_deadline` finds the time used up or a body cannot be built, `run()` retries
in the same mapping; an open circuit or a cancellation ends the call.

Each `...Proofs` module holds the theorems about the module it is named after;
OutputProofs has those about StreamToPath and TraceScopes, what a call leaves to
its caller.
The `MC...` modules declare symmetry sets and constants for TLC.

Definitions marked `Mutant` next to the definition they vary are plausible bugs
of that code. Each property of a passing run, and where it is a conjunction each
of its parts, is violated when one of them takes the place of the original
(`mutants` in `PROJECT.json`).

## Runs

Several properties are conjunctions of named parts, stated one by one in the
module: `RegistryInv` = `TypeOK`, `RegistryIsLRU`, `SharedBreaker`, `Isolation`,
and so on. The table names the parts.

| Run | Shows | Bounds |
| --- | --- | --- |
| BreakerShared | `TypeOK`, `ClaimHasOwner`, `NothingStartsWhileOpen`, `ClosedIffBelowThreshold`, `EveryRunEnds`, `RecoversWhenHealthy`, with attempts and backoffs longer than the reset timeout | 3 coroutines, threshold 2, 1 retry, reset 2, attempts and backoffs to 3 |
| BreakerOneTrial | `AtMostOneTrial`, `OnlyTrialDecides` when attempts and backoffs are shorter than the reset timeout | 3 coroutines, 2 retries, reset 3, both limits 2 |
| BreakerLongBackoff | violated: `AtMostOneTrial` with a backoff as long as the reset timeout | 3 coroutines, 1 retry, reset 2 |
| RegistryLRU | `RegistryInv` (`RegistryIsLRU`, `SharedBreaker`, `Isolation`), `ImplementsBreaker` | 3 destinations, registry of 2, 2 requests |
| GatewayEnvelope | `EnvelopeInv` (`EnvelopeHonest`, `BodyKept`, `LoggedIffEnvelope`), `PeerJudged` (`PeerSaidSo`, `PeerErrorTyped`), `ArgumentsDecide` (`KeyedByArguments`, `RefusedUnsent`), `MaskedOnlyInEcho` | none: the model is finite |
| HttpChain | `CredentialsStayHome`, `OneDeadline`, `BodyRebuilt` (`BodyIsReplayable`, `BodylessUntilRepeated`), `ChainInv` (`SchemesChecked`, `TracedIffFollowed`) | 3 origins, 3 redirects, 1 retry, timeout of 3 ticks |
| GcsLeases | `LeaseInv` (`PermitsConserved`, `NoQueueing`, `ShutdownOnlyWhenIdle`), `LeaseCoversWork`, `CancellationHonoured`, `OneUploadWins`, `LeasesEnd` (`EveryLeaseEnds`, `ShutdownCompletes`) | 2 requests, 1 lease, 1 retry, 2 cancellations each |
| StreamTarget | `TargetInv` (`NeverTorn`, `SuccessStays`), `OutcomeHonest` (`ResultHonest`, `CancellationNotLost`), `NothingLeft`, `ExistingKept`, `EveryStreamEnds` | 1 overwriting and 2 exclusive writers, 1 chunk, 1 cancellation each |
| PathGuard | `GuardInv` (`OutsideUntouched`, `LimitHolds`), `CleanupInv` (`NothingLeaks`, `NoPartialFile`, `CancellationSeen`), `ExistingKept`, and that both calls end | 3 blocks, limit 2, 3 changes by others, 2 cancellations |
| Transfer | `SessionInv` (`PeerVerified`, `SessionClosed`), `FilesInv` (`BudgetHolds`, `FailedWriteRemoved`, `SuccessIsWhole`), `CancellationReported`, `ExclusiveKeeps`, and that all requests end | 1 FTP and 1 SFTP request, each with or without a local path, 2 files of at most 1 block, budget 1, 2 attempts, 1 cancellation each |
| SdkCleanup | `CleanupInv` (`ClosedAfterUse`, `BodyClosedOnce`), `OutcomeInv` (`CancellationWins`, `CloseErrorReported`, `SurfacesMasked`, `TokenSurvives`), `EveryCallEnds` | 1 request of any kind, 2 attempts, 3 cancellations |
| TraceScopes | `TraceInv` (`OwnEventsOnly`, `TraceComplete`), `EnvelopeKept` | 3 tasks, 2 calls, 1 retry, 1 redirect |

Why the bounds are enough to be interesting. Three coroutines are the smallest
number with a trial, a sleeper that used to be the trial and a third that is
wrongly let in; one retry lets a coroutine fail, sleep and come back. A registry
of two with three destinations evicts. Three redirects leave the first origin,
change the verb and come back. One lease and two requests exhaust the permits,
and a second cancellation hits the code that handles the first. One chunk
already gives an empty, a whole and a failed file, and with one writer of the
other mode two exclusive writers can each create the target in turn. Two files
and a budget of one block make a transfer that fits in each file and not in
both; two requests, one of each kind, meet in one directory entry. Three changes
by others withdraw a leaf, put another and exchange the directory during one
call. Three cancellations hit the call, the close of its body and the close of
its client. Three tasks are a parent and two children that inherit its mapping,
of whom two make calls while the third uses the tracer on its own.

`CHECK_DEADLOCK FALSE` stands in the runs of HttpExchange, GatewayRequest,
StreamToPath and SdkSession, where an exchange, a call or a stream ends and
nothing follows. In PathGuard and Transfer the action `Terminated` stands for
that end. Every counter in them is bounded and no other step leads back, so
that the deadlock check shows that every call ends.

Fairness. Attempts end (each client has a timeout) and an event loop wakes
sleepers, so `EndAttempt` or `Escape`, and `Wake`, are weakly fair; `BusySpec`
adds that time passes and callers keep calling, without which a circuit with no
traffic has no reason to close. In GcsOffload the event loop and the worker
threads are weakly fair: `_GcsLease.run` waits for the provider call and relies
on it to return. In StreamToPath each task's next step is weakly fair: system
calls return, and the HTTP and SDK timeouts bound the wait for a chunk. In
SdkSession a request's next step is: the SDK calls have deadlines, and the close
is awaited without one. No action of the environment (cancellation, a caller, a
server's choice of answer) is fair.

## What disagrees

BreakerLongBackoff shows the code doing other than its comments say (`findings`
quotes them): a trial that sleeps between attempts releases a claim that is not
its own, and its retry runs as a second trial.

A download without a local path (`logic/ftp_client.py:795` and 1000-1003,
`logic/sftp_client.py:1019-1022`) does other than the repository says, too. It is
in the model as `plain`, and three properties are stated for requests with a local
path because it violates them. Without the exception TLC finds the first two of
these within a dozen steps:

- It truncates the file it finds in the working directory whatever `overwrite`
  says (`ExclusiveKeeps`). The repository's `README.md:1106` says "Downloads
  refuse to overwrite by default", and so does `logic/sftp_client.py:818-821`.
- It writes more than `max_response_bytes` (`BudgetHolds`), which
  `README.md:733` and 750 call the "Download ceiling"; `logic/ftp_client.py:791-793`
  says that a command with no `client_path` "touches no local file".
- It keeps a file whose write or flush failed (`FailedWriteRemoved`).
- When its file cannot be closed, the error replaces a cancellation and is a
  retriable one, so that a cancelled request may make another attempt and even
  succeed (`CancellationReported`).

What does hold for it: a reported success means whole files of one attempt
(`SuccessIsWhole`), and all that is said of the session.

Other behaviours the models have and a reader should know of. Where a property
makes an exception for one, its comment says so:

- When attempts last as long as the reset timeout, the late outcome of an older
  attempt decides a half-open circuit (hence the condition `TimeoutsBelowReset`).
- A breaker with failures and a request in flight can be evicted
  (`helpers/internal/breaker_registry.py:117`; compare lines 13-15). Any step of
  `ImplementsBreaker` that starts over is such an eviction.
- FTP connects outside `circuit_breaker.run`: a host that refuses connections
  never opens its circuit (`logic/ftp_client.py:702`, `NeverRun`).
- After a 301, 302 or 303 turned a POST into a bodyless GET, the next 301, 302,
  307 or 308 sends the POST's body again (`helpers/internal/request_helper.py:1105`;
  compare 739-742). `BodylessUntilRepeated`.
- GCS: a cancellation while a failed attempt closes its client is dropped, and
  the retry may succeed (`logic/gcs_client.py:1810`; compare
  `docs/specs/gcs_selector_spec.md:234-235`). One that arrives during the close
  after a committed download is raised in place of the success
  (`logic/gcs_client.py:1833`; compare 235-237). `CancellationHonoured`.
- GCS: an upload whose answer was lost is retried, finds its own object and
  reports a failed precondition. `OneUploadWins`.
- A cancellation during the cleanup of a failed stream is dropped and the
  failure raised (`utils/paths.py:1716`, `CancellationNotLost`), and so for the
  body of a failed S3 download (`utils/http_file_config.py:630`,
  `CancellationWins`).
- `safe_writer` does not shield its closes: a cancellation there leaves the
  partial file (`utils/paths.py:1029`, `NoPartialFile`). So does a cancellation
  in the `_discard` of the FTP wrapper (`utils/contained_io.py:797`,
  `FailedWriteRemoved`), and an open that fails or is cancelled after it created
  the file.
- The number of a file's names is read once, after the open: a name that goes
  before that hides a second one outside (`utils/paths.py:300`,
  `OutsideUntouched`).
- A flush that fails while a cancelled transfer closes its file hides the
  cancellation (`utils/contained_io.py:779`, `CancellationReported`).
- An overwriting transfer, or one without a local path, truncates a file that
  another one is still writing; `SuccessIsWhole` is for requests that do not meet
  one.
- A removal with a local path passes the option checks and ends in a `TypeError`
  that no envelope reports (`logic/ftp_client.py:993`).
- A JSON-RPC answer that is no JSON is judged by what a pre-processor left in
  the envelope's `json` (`logic/jsonrpc_client.py:307`, `PeerSaidSo`).
- A failing post-processor discards a completed result. The docstring of
  `request()` agrees with the code, `docs/specs/v1_release_spec.md:3938` does
  not.
- An exclusive writer's cleanup removes by name what an overwriting writer may
  have put there since. An exclusive download cancelled in its last close leaves
  the complete file.
- A caller that uses the tracer itself, in a context that still holds a call's
  mapping, writes into that call's trace; a retried call's trace keeps the
  failure of the earlier attempt (`TraceComplete`, `EnvelopeKept`).

## Proofs

Eight modules have theorems. Each theorem is about every value of the constants:
any set of requests, tasks, destinations or writers, any number of files,
attempts, redirects, cancellations and changes by others. Each states a property
that a run checks.

| Module | Proved |
| --- | --- |
| CircuitBreakerProofs | `TypeOK`, `ClaimHasOwner`, `NothingStartsWhileOpen`, `ClosedIffBelowThreshold`; `AtMostOneTrial` and `OnlyTrialDecides` under `TimeoutsBelowReset` |
| BreakerRegistryProofs | `RegistryInv`; the refinement `ImplementsBreaker` |
| HttpExchangeProofs | `CredentialsStayHome`, `OneDeadline`, `BodyRebuilt`, `ChainInv` |
| GcsOffloadProofs | `LeaseInv`, `LeaseCoversWork`, `CancellationHonoured`, `OneUploadWins` |
| OutputProofs | StreamToPath: `TargetInv`, `OutcomeHonest`, `NothingLeft`, `ExistingKept`; TraceScopes: `TraceInv`, `EnvelopeKept` |
| PathGuardProofs | `GuardInv`, `CleanupInv`, `ExistingKept` |
| TransferProofs | `SessionInv`, `FilesInv`, `CancellationReported`, `ExclusiveKeeps` |
| SdkSessionProofs | `CleanupInv`, `OutcomeInv` |

All have the same shape: an inductive `Inv`, one lemma per action that preserves
it, `Invariance == Spec => []Inv`, and the properties as its consequences. The
action properties (`ExistingKept`, `ExclusiveKeeps`, `OnlyTrialDecides`,
`EnvelopeKept`) and the refinement are shown for one step from `Inv`. (TraceScopes
has longer names, `TraceIInv` and so on.) What `Inv` adds to the properties, and why:

- **CircuitBreaker.** `Locals` (a coroutine outside `run()` has no locals, a
  sleeping one has an attempt left) and `CountIsStreak` (a closed breaker's
  counter is the length of the current run of failures). For the trial, `Timed`
  (no await outlasts its limit, and a half-open circuit opened exactly `Reset`
  ago), `TrialHoldsClaim` and `SleepingTrialIsAlone` (a failed trial that sleeps
  faces the circuit it opened itself, opened no longer ago than it has slept).
  `Timed` and `NothingStartsWhileOpen` exclude that an attempt from before the
  opening is still in flight at half-open, which is where `TimeoutsBelowReset`
  (attempts and backoffs shorter than the reset timeout) enters.
  BreakerLongBackoff shows that the bound on backoffs cannot be dropped; with
  attempts as long as the reset timeout TLC finds `OnlyTrialDecides` violated.
- **BreakerRegistry.** That the registry is the tail of the order of last use is
  lemma `TrimUsed`: to use a key and trim the whole order, or the trimmed one,
  comes to the same. A new breaker is nobody's because there is one object
  identity more than can be registered or held (`FreshIsFree`, by counting, which
  needs that the requests are finitely many). An object is of one destination for
  as long as anybody has it (`OwnInv`), objects out of reach are as new and a
  closed breaker is below its threshold (`HeapInv`), and the watched destination's
  objects are untouched before its first failure (`CleanInv`), which is
  `Isolation`. The proof is for `TestSpec`, so `reset()` is covered too.
  For `ImplementsBreaker` every action is matched with what the mapping makes of
  it. Lookups leave the watched breaker alone, create it as new, or evict it,
  which is the only step that starts it over; then nobody calls through it any
  more. `Start` and the outcomes are `Enter`, `Succeed`, `FailForGood` and
  `Escape` if the request holds the registered object and stutter otherwise;
  `Tick` is `Tick`. The mapped `streak` (the counter of a closed breaker, the
  threshold of any other) grows as `CountFailure` says because of `HeapInv`.
- **HttpExchange.** Credentials that are still there mean that no origin was
  crossed (`OriginInv`), although the current target may again be the first one;
  time spent and time left make up the timeout, and a hop's own timeout is what
  is left (`TimeInv`); a hop about to be issued has a fresh body (`BodyInv`); the
  flag of a redirect is down while an attempt that has issued a request runs
  (`RedirectInv`).
- **GcsOffload.** The set of leased requests is finite and counted by `active`
  (`PoolInv`), so that the requests themselves need not be finite. What a request
  has at each stage follows from its place (`JobInv`, `LocalsInv`), also who must
  close the client (`ClientInv`). A cancellation that must be honoured is retained
  by `lease.run`, or is the failure the close will raise, or was reported
  (`AskedInv`). An upload that came back owns the object (`UploadInv`).
- **StreamToPath.** Descriptors, parents and temporary names follow from the call
  awaited (`HoldsInv`). `SuccessStays` needs to know that a failed exclusive
  writer's unlink by name hits its own file: `OneOwner` says that at most one
  exclusive writer is entitled to unlink, and `CreatedInv` that the entry is its
  own or an overwriting writer's.
- **PathGuard.** A file differs from what it was by the writer's own counted
  blocks only (`DataInv`). `OutsideUntouched` rests on `NamesInv`: a file from
  outside keeps its name there until the writer unlinks, so with a name inside it
  has two (lemma `TwoNames`, on the cardinality of its names), and the check of
  the count refuses it. `OwnInv` and `RemovedInv` carry the cleanup: an exclusive
  writer only ever has the file it created, and nobody gives a name back to it.
- **Transfer.** A thread call that nobody waits for belongs to a cancelled
  request and does one thing (`LateInv`). What is stored was charged before it was
  written (`BudgetInv`, with lemmas on the cardinality of the stored blocks), for
  requests with a local path; the others are never in a place that discards or
  unlinks (`PlaceInv`). Where nobody overwrites, by asking for it or by naming no
  local path (`Exclusive`), an entry a request writes to, or will unlink, is its
  own (`OwnInv`). `DoneInv` is the loop invariant of a download: the files before
  the current one are whole, the current one holds the blocks written so far. For
  what one request does to the invariant of another there is one lemma per effect
  on the disk (`OtherKept`, `OtherOpened`, `OtherStored`, `OtherUnlinked`).
- **TraceScopes.** A task in a call has the call's mapping in its context, and no
  other task has it there or writes to it (`PlaceInv`, `Apart`): contexts are
  copied only by tasks that are in no call, and every call binds a mapping that is
  still empty (`UnboundInv`). The mapping of a call in progress tells the truth
  but for the redirect that waits for the end of the attempt (`StoryInv`), also
  when a retry starts after an attempt that ended between two hops. The
  bound on the requests of a call is a product, attempts times hops (`BudgetInv`).
- **SdkSession.** The client is open exactly between entering and closing
  (`ClientLife`), bodies and RPCs live within an attempt (`AttemptLife`), and a
  cancellation that was not dropped is being raised, or is noted by a shielded
  wait where nothing outranks it (`CancellationKept`).

Assumptions are the named `ASSUME`s on the constants, which TLC evaluates in the
runs: numbers are natural (thresholds, limits, bounds), positive where the code
has at least one (attempts, leases, files, blocks); the two kinds of writers or
of requests are disjoint; names of requests differ from the values that stand for
nobody and for the content of before; the first URL's scheme is allowed and the
verb is one of the four modelled; the requests that use the registry at a time
are finitely many, since object identities are numbers up to a bound.

What the attempts at proof showed about the model. PathGuard bounded the write
that a cancelled body still has in flight by the limit only, so that a limit above
the length of the body let a file grow beyond it; the action now has the bound of
the ordinary write. That an outcome recorded as a failure is never a success
(SdkSession), and that a request whose removal was interrupted is one whose file
was spoilt (Transfer), had not been stated and are needed: they are part of `Inv`.
Two definitions were put differently to be reasoned about: `Used`
(BreakerRegistry) removes the key at its position, as `move_to_end` does, instead
of filtering the sequence, and the history of TraceScopes is updated by the
operators `ToldIssued` and `ToldFollowed`.

Only model-checked:

- liveness (`EveryRunEnds`, `RecoversWhenHealthy`, `LeasesEnd`,
  `EveryStreamEnds`, `EveryCallEnds`) and that the calls of PathGuard and
  Transfer end: fairness and ENABLED are outside the prover;
- GatewayRequest: it has no constants, so TLC's run covers every state and a
  proof would add nothing.

No module declares a RECURSIVE operator, which the prover could not handle.

## Plan

Done: all modules, and the proofs above; every safety property of a module with
constants is proved.

To do: retries inside the registry (its requests make one attempt each), so that
the refinement covers the sleeping coroutines of CircuitBreaker too.

## Not modelled

- `utils/redaction.py`: what its patterns match. When surfaces are masked is in
  GatewayRequest and SdkSession.
- Parsing and building of URLs, headers, XML, JSON and multipart bodies: string
  processing in one synchronous step. What can come of it is an outcome.
- The validators of caller options (HTTP, SOAP, GCS, S3 and gRPC constructors):
  pure checks that raise before anything happens. Those of FTP and SFTP are
  modelled, since they decide whether the peer is authenticated.
- Dispatch of the non-HTTP selectors in `request()`; their clients are modelled
  from `handle_request` on.
- Remote listings, file stats and transfer results, which are data; upload
  sources of a transfer, which are only read.
- Where the local names of a download without a local path come from: the library
  makes them from the server's.
- Tracers that are not the library's, and a call nested in another call of the
  same task.
- Logging beyond whether it happens, `auth.py`, `helpers/common/date_helper.py`.
