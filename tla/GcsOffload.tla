----------------------------- MODULE GcsOffload -----------------------------
(***************************************************************************)
(* The private GCS offloader (logic/gcs_client.py): capacity leases, the   *)
(* thread pool that runs the synchronous Google SDK, the deadline and      *)
(* cancellation handling of _GcsLease.run, and the attempts built on it.   *)
(*                                                                         *)
(* Every command makes attempts of the same shape: connect (credentials),  *)
(* create a storage client, work (bucket, blob and the provider calls of   *)
(* the command), and close the client if one was accepted.  A request      *)
(* makes one provider call at a time, so job[r] is its only future.  Each  *)
(* stage is several provider calls in a row; one stands for them all.  A   *)
(* download ends its work by publishing the file (stream_to_path), an      *)
(* upload begins by reading one.                                           *)
(* Requests may run on event loops of different threads: the permits and   *)
(* the counters are guarded by threading primitives for that reason.       *)
(***************************************************************************)
EXTENDS Integers, FiniteSets

CONSTANTS
    Requests,
    MaxLeases,       \* _GCS_MAX_LEASES: permits and worker threads
    AllowedRetries,  \* of the breaker's retry policy
    MaxCancels       \* bound: how often one request's task is cancelled

ASSUME RequestsAssumption == "none" \notin Requests
ASSUME MaxLeasesAssumption == MaxLeases \in Nat \ {0}
ASSUME AllowedRetriesAssumption == AllowedRetries \in Nat
ASSUME MaxCancelsAssumption == MaxCancels \in Nat

Commands == {"upload", "download", "other"}
Stages == {"connect", "client", "work", "close"}
Nobody == "none"   \* the object does not exist
Finished == {"ok", "error", "timeout"}   \* what a provider call may come to

VARIABLES
    permits,    \* _GCS_PERMITS
    active,     \* _GCS_ACTIVE_LEASES
    closing,    \* _GCS_ADMISSION_CLOSING
    shutdowns,  \* calls of _GCS_EXECUTOR.shutdown
    command,    \* self.command: an upload, a download or another
    pc,         \* where the request's task is suspended
    stage,      \* which provider call of the attempt it is making
    job,        \* its executor future
    client,     \* the storage client of the attempt, as the SDK sees it
    owned,      \* the attempt's local `client` is not None
    body,       \* the attempt's local `body_error`
    cancelled,  \* the cancellation lease.run retains
    attempts, cancels,
    object,     \* the request whose upload the service stored, if any
    uploaded,   \* history: requests whose upload was reported as done
    asked,      \* history: cancelled before its work was accepted, other
                \* than while a failed attempt closed its client
    result      \* how the last request ended

poolVars == <<permits, active, closing, shutdowns>>
service == <<object, uploaded>>
vars == <<permits, active, closing, shutdowns, command, pc, stage, job, client,
          owned, body, cancelled, attempts, cancels, object, uploaded, asked,
          result>>

Init == /\ permits = MaxLeases
        /\ active = 0
        /\ closing = FALSE
        /\ shutdowns = 0
        /\ command = [r \in Requests |-> "other"]
        /\ pc = [r \in Requests |-> "idle"]
        /\ stage = [r \in Requests |-> "connect"]
        /\ job = [r \in Requests |-> "none"]
        /\ client = [r \in Requests |-> "none"]
        /\ owned = [r \in Requests |-> FALSE]
        /\ body = [r \in Requests |-> "none"]
        /\ cancelled = [r \in Requests |-> FALSE]
        /\ attempts = [r \in Requests |-> 0]
        /\ cancels = [r \in Requests |-> 0]
        /\ object = Nobody
        /\ uploaded = {}
        /\ asked = [r \in Requests |-> FALSE]
        /\ result = [r \in Requests |-> "none"]

-----------------------------------------------------------------------------
(* Capacity.                                                               *)

\* _acquire_gcs_lease() succeeds.  A refused request gets GcsCapacityError
\* and changes nothing.  Only the upload reads a local file first.
Acquire(r) ==
    /\ pc[r] = "idle"
    /\ ~closing
    /\ permits > 0
    /\ permits' = permits - 1
    /\ active' = active + 1
    /\ \E k \in Commands :
          /\ command' = [command EXCEPT ![r] = k]
          /\ pc' = [pc EXCEPT ![r] = IF k = "upload" THEN "reading" ELSE "ready"]
    /\ attempts' = [attempts EXCEPT ![r] = 1]
    /\ result' = [result EXCEPT ![r] = "none"]
    /\ asked' = [asked EXCEPT ![r] = FALSE]
    /\ cancels' = [cancels EXCEPT ![r] = 0]
    /\ UNCHANGED <<closing, shutdowns, stage, job, client, owned, body, cancelled,
                   service>>

\* Mutant: a request that was cancelled forgets its permit.
ReleaseUnlessCancelled(r) ==
    IF result'[r] = "cancelled" THEN UNCHANGED poolVars ELSE
    /\ permits' = permits + 1
    /\ active' = active - 1
    /\ shutdowns' = IF closing /\ active' = 0 /\ shutdowns = 0
                    THEN shutdowns + 1 ELSE shutdowns
    /\ UNCHANGED closing

\* Mutant: the final release forgets that the offloader is closing.
ReleaseWithoutShutdown(r) ==
    /\ permits' = permits + 1
    /\ active' = active - 1
    /\ UNCHANGED <<closing, shutdowns>>

\* lease.release(), from the finally of handle_request: the lock is free,
\* so it does not suspend.
Release(r) ==
    /\ permits' = permits + 1
    /\ active' = active - 1
    /\ shutdowns' = IF closing /\ active' = 0 /\ shutdowns = 0
                    THEN shutdowns + 1 ELSE shutdowns
    /\ UNCHANGED closing

\* Mutant: the executor is shut down while leases are out.
ShutDownAtOnce ==
    /\ closing' = TRUE
    /\ shutdowns' = IF shutdowns = 0 THEN shutdowns + 1 ELSE shutdowns
    /\ UNCHANGED <<permits, active, command, pc, stage, job, client, owned, body,
                   cancelled, attempts, cancels, asked, service, result>>

\* Mutant: a second call shuts the idle executor down a second time.
ShutDownRepeatedly ==
    /\ closing' = TRUE
    /\ shutdowns' = IF active = 0 THEN shutdowns + 1 ELSE shutdowns
    /\ UNCHANGED <<permits, active, command, pc, stage, job, client, owned, body,
                   cancelled, attempts, cancels, asked, service, result>>

\* _shutdown_gcs_offloader(), which may be called again and again.
ShutDown ==
    /\ closing' = TRUE
    /\ shutdowns' = IF active = 0 /\ shutdowns = 0
                    THEN shutdowns + 1 ELSE shutdowns
    /\ UNCHANGED <<permits, active, command, pc, stage, job, client, owned, body,
                   cancelled, attempts, cancels, asked, service, result>>

-----------------------------------------------------------------------------
(* The request's exits and the attempt's.                                  *)

\* handle_request ends with res; its locals are gone.
Finish(r, res) ==
    /\ result' = [result EXCEPT ![r] = res]
    /\ Release(r)
    /\ pc' = [pc EXCEPT ![r] = "idle"]
    /\ stage' = [stage EXCEPT ![r] = "connect"]
    /\ client' = [client EXCEPT ![r] = IF @ = "closed" THEN "none" ELSE @]
    /\ owned' = [owned EXCEPT ![r] = FALSE]
    /\ body' = [body EXCEPT ![r] = "none"]
    /\ cancelled' = [cancelled EXCEPT ![r] = FALSE]
    /\ attempts' = [attempts EXCEPT ![r] = 0]
    /\ command' = [command EXCEPT ![r] = "other"]

\* The breaker's run() retries after a failure that is not abortable.
BackOff(r) ==
    /\ attempts[r] <= AllowedRetries
    /\ pc' = [pc EXCEPT ![r] = "backoff"]
    /\ stage' = [stage EXCEPT ![r] = "connect"]
    /\ client' = [client EXCEPT ![r] = IF @ = "closed" THEN "none" ELSE @]
    /\ owned' = [owned EXCEPT ![r] = FALSE]
    /\ body' = [body EXCEPT ![r] = "none"]
    /\ cancelled' = [cancelled EXCEPT ![r] = FALSE]
    /\ UNCHANGED <<poolVars, command, attempts, result>>

\* An attempt raises kind: a cancellation leaves run() at once, any other
\* failure is retried or ends the request.
AttemptRaises(r, kind) ==
    \/ Finish(r, kind)
    \/ kind # "cancelled" /\ BackOff(r)

\* Mutant: a failed attempt leaves its client to the garbage collector.
CallRaisesWithoutClose(r, kind) == AttemptRaises(r, kind)

\* lease.run raises kind inside the attempt.  In the body that closes the
\* client, if the attempt has one, and only then raises; a body failure
\* outranks whatever the close raises.
CallRaises(r, kind) ==
    \/ /\ stage[r] # "close"
       /\ owned[r]
       /\ body' = [body EXCEPT ![r] = kind]
       /\ stage' = [stage EXCEPT ![r] = "close"]
       /\ pc' = [pc EXCEPT ![r] = "ready"]
       /\ cancelled' = [cancelled EXCEPT ![r] = FALSE]
       /\ UNCHANGED <<poolVars, command, client, owned, attempts, result>>
    \/ /\ stage[r] # "close"
       /\ ~owned[r]
       /\ AttemptRaises(r, kind)
    \/ /\ stage[r] = "close"
       /\ AttemptRaises(r, IF body[r] # "none" THEN body[r] ELSE kind)

\* Mutant: the deadline that had expired already is reported instead.
DrainedErrorFirst(r) == IF job[r] = "ok" THEN "error"
                        ELSE IF cancelled[r] THEN "cancelled" ELSE "error"

\* What lease.run raises once it has drained.
DrainedError(r) == IF cancelled[r] THEN "cancelled" ELSE "error"

-----------------------------------------------------------------------------
(* _GcsLease.run.                                                          *)

Submit(r) ==
    /\ pc[r] = "ready"
    /\ job' = [job EXCEPT ![r] = "queued"]
    /\ pc' = [pc EXCEPT ![r] = "starting"]
    /\ UNCHANGED <<poolVars, command, stage, client, owned, body,
                   cancelled, attempts, cancels, asked, service, result>>

\* The spin on the `started` event sees that the worker has begun.
Started(r) ==
    /\ pc[r] = "starting"
    /\ job[r] # "queued"
    /\ pc' = [pc EXCEPT ![r] = "waiting"]
    /\ UNCHANGED <<poolVars, command, stage, job, client, owned,
                   body, cancelled, attempts, cancels, asked, service, result>>

\* The result is in before the deadline and the attempt goes on.
AcceptStep(r) ==
    /\ pc[r] = "waiting" /\ job[r] = "ok" /\ stage[r] # "close"
    /\ job' = [job EXCEPT ![r] = "none"]
    /\ IF command[r] = "download" /\ stage[r] = "work"
       THEN /\ pc' = [pc EXCEPT ![r] = "publishing"]
            /\ UNCHANGED stage
       ELSE /\ pc' = [pc EXCEPT ![r] = "ready"]
            /\ stage' = [stage EXCEPT ![r] = CASE @ = "connect" -> "client"
                                               [] @ = "client" -> "work"
                                               [] @ = "work" -> "close"]
    /\ owned' = [owned EXCEPT ![r] = @ \/ stage[r] = "client"]
    /\ UNCHANGED <<poolVars, command, client, body, cancelled,
                   attempts, cancels, asked, service, result>>

\* stream_to_path is done with the last chunk: it has replaced the file, or
\* could not.  StreamToPath models it.
Published(r) ==
    /\ pc[r] = "publishing"
    /\ \/ /\ pc' = [pc EXCEPT ![r] = "ready"]
          /\ stage' = [stage EXCEPT ![r] = "close"]
          /\ UNCHANGED <<poolVars, command, client, owned, body, cancelled,
                         attempts, result>>
       \/ CallRaises(r, "error")
    /\ UNCHANGED <<job, cancels, asked, service>>

\* The close is in: the attempt returns, or raises its body failure.
AcceptClose(r) ==
    /\ pc[r] = "waiting" /\ job[r] = "ok" /\ stage[r] = "close"
    /\ job' = [job EXCEPT ![r] = "none"]
    /\ \/ /\ body[r] = "none"
          /\ Finish(r, "ok")
          /\ uploaded' = IF command[r] = "upload" THEN uploaded \cup {r}
                                                  ELSE uploaded
       \/ body[r] # "none" /\ AttemptRaises(r, body[r]) /\ UNCHANGED uploaded
    /\ UNCHANGED <<cancels, asked, object>>

\* The provider's exception is in before the deadline.
AcceptError(r) ==
    /\ pc[r] = "waiting" /\ job[r] = "error"
    /\ job' = [job EXCEPT ![r] = "none"]
    /\ CallRaises(r, "error")
    /\ UNCHANGED <<cancels, asked, service>>

\* The deadline expires, before the future is done or just after; a
\* TimeoutError the provider itself raised is caught by the same clause.
Expire(r) ==
    /\ pc[r] = "waiting"
    /\ pc' = [pc EXCEPT ![r] = "draining"]
    /\ UNCHANGED <<poolVars, command, stage, job, client, owned,
                   body, cancelled, attempts, cancels, asked, service, result>>

\* Mutant: the drain stops waiting for the worker.
DrainedEarly(r) ==
    /\ pc[r] = "draining"
    /\ CallRaises(r, DrainedError(r))
    /\ UNCHANGED <<job, cancels, asked, service>>

\* _drain_provider_future is done.  A late client is closed by one more
\* job; any other late result is dropped.
Drained(r) ==
    /\ pc[r] = "draining" /\ job[r] \in Finished
    /\ \/ /\ stage[r] = "client" /\ job[r] = "ok"
          /\ job' = [job EXCEPT ![r] = "queued"]
          /\ pc' = [pc EXCEPT ![r] = "cleaning"]
          /\ UNCHANGED <<poolVars, command, stage, client, owned, body, cancelled,
                         attempts, result>>
       \/ /\ ~(stage[r] = "client" /\ job[r] = "ok")
          /\ job' = [job EXCEPT ![r] = "none"]
          /\ CallRaises(r, DrainedError(r))
    /\ UNCHANGED <<cancels, asked, service>>

Cleaned(r) ==
    /\ pc[r] = "cleaning" /\ job[r] \in Finished
    /\ job' = [job EXCEPT ![r] = "none"]
    /\ CallRaises(r, DrainedError(r))
    /\ UNCHANGED <<cancels, asked, service>>

-----------------------------------------------------------------------------
(* The worker threads.                                                     *)

Running == {r \in Requests : job[r] = "running"}

JobStarts(r) ==
    /\ job[r] = "queued"
    /\ Cardinality(Running) < MaxLeases
    /\ job' = [job EXCEPT ![r] = "running"]
    /\ UNCHANGED <<poolVars, command, pc, stage, client, owned,
                   body, cancelled, attempts, cancels, asked, service, result>>

\* Mutant: only the first attempt carries if_generation_match.
MayCreateOnRetry(r) == object = Nobody \/ attempts[r] > 1

\* The service, asked with if_generation_match=0, the default, in every
\* attempt: it answers 412 when the object exists.
MayCreate(r) == object = Nobody

\* What a provider call that comes to res has done to the object: an upload
\* that the caller sees fail may have been stored.
Stored(r, res) ==
    IF command[r] = "upload" /\ stage[r] = "work" /\ pc[r] # "cleaning"
    THEN IF res = "ok" THEN MayCreate(r) /\ object' = r
         ELSE \/ UNCHANGED object
              \/ MayCreate(r) /\ object' = r
    ELSE UNCHANGED object

\* A provider call returns or raises.  Closing counts as done however it
\* ends.
JobEnds(r, res) ==
    /\ job[r] = "running"
    /\ Stored(r, res)
    /\ job' = [job EXCEPT ![r] = res]
    /\ client' = [client EXCEPT ![r] =
          IF stage[r] = "close" \/ pc[r] = "cleaning" THEN "closed"
          ELSE IF stage[r] = "client" /\ res = "ok" THEN "open"
          ELSE @]
    /\ UNCHANGED <<poolVars, command, pc, stage, owned, body, cancelled,
                   attempts, cancels, asked, uploaded, result>>

-----------------------------------------------------------------------------
(* The rest of the request.                                                *)

\* read_guarded_file returns, or refuses the file.
ReadDone(r) ==
    /\ pc[r] = "reading"
    /\ \/ /\ pc' = [pc EXCEPT ![r] = "ready"]
          /\ UNCHANGED <<poolVars, command, stage, client, owned, body, cancelled,
                         attempts, result>>
       \/ Finish(r, "error")
    /\ UNCHANGED <<job, cancels, asked, service>>

\* Mutant: the retry is not counted as an attempt.
BackoffDoneUncounted(r) ==
    /\ pc[r] = "backoff"
    /\ \/ /\ pc' = [pc EXCEPT ![r] = "ready"]
          /\ UNCHANGED <<poolVars, command, stage, client, owned, body, cancelled,
                         attempts, result>>
       \/ Finish(r, "error")
    /\ UNCHANGED <<job, cancels, asked, service>>

\* The backoff is over: the next attempt starts or the circuit is open.
BackoffDone(r) ==
    /\ pc[r] = "backoff"
    /\ \/ /\ pc' = [pc EXCEPT ![r] = "ready"]
          /\ attempts' = [attempts EXCEPT ![r] = @ + 1]
          /\ UNCHANGED <<poolVars, command, stage, client, owned, body, cancelled,
                         result>>
       \/ Finish(r, "error")
    /\ UNCHANGED <<job, cancels, asked, service>>

NoteCancel(r) ==
    /\ cancels[r] < MaxCancels
    /\ cancels' = [cancels EXCEPT ![r] = @ + 1]
    /\ asked' = [asked EXCEPT ![r] = @ \/ stage[r] # "close"]

\* task.cancel() reaches the task at a provider call: lease.run keeps the
\* first cancellation and drains, however many more arrive.
CancelCall(r) ==
    /\ pc[r] \in {"starting", "waiting", "draining", "cleaning"}
    /\ NoteCancel(r)
    /\ cancelled' = [cancelled EXCEPT ![r] = TRUE]
    /\ pc' = [pc EXCEPT ![r] = IF @ = "cleaning" THEN @ ELSE "draining"]
    /\ UNCHANGED <<poolVars, command, stage, job, client, owned, body, attempts,
                   service, result>>

\* ... at the local write, which raises it before the replacement is
\* dispatched and drops it afterwards, ...
CancelPublish(r) ==
    /\ pc[r] = "publishing"
    /\ NoteCancel(r)
    /\ CallRaises(r, "cancelled")
    /\ UNCHANGED <<job, service>>

\* ... or at the local read or the backoff, where it simply propagates.
CancelElsewhere(r) ==
    /\ pc[r] \in {"reading", "backoff"}
    /\ NoteCancel(r)
    /\ Finish(r, "cancelled")
    /\ UNCHANGED <<job, service>>

LoopStep(r) == \/ Submit(r) \/ Started(r) \/ AcceptStep(r) \/ AcceptClose(r)
               \/ AcceptError(r) \/ Expire(r) \/ Drained(r) \/ Cleaned(r)
               \/ ReadDone(r) \/ BackoffDone(r) \/ Published(r)
WorkerStep(r) == JobStarts(r) \/ \E res \in Finished : JobEnds(r, res)

Next == \/ \E r \in Requests : \/ Acquire(r)
                               \/ LoopStep(r)
                               \/ WorkerStep(r)
                               \/ CancelCall(r)
                               \/ CancelPublish(r)
                               \/ CancelElsewhere(r)
        \/ ShutDown

Spec == Init /\ [][Next]_vars

\* The event loop keeps running its tasks; worker threads get scheduled and
\* every provider call returns (each has an SDK or a socket timeout).
FairSpec == Spec /\ \A r \in Requests : /\ WF_vars(LoopStep(r))
                                        /\ WF_vars(WorkerStep(r))

-----------------------------------------------------------------------------
(* Properties.                                                             *)

\* The types of the variables; counters stay within their bounds.
TypeOK ==
    /\ permits \in 0 .. MaxLeases
    /\ active \in 0 .. MaxLeases
    /\ closing \in BOOLEAN
    /\ shutdowns \in 0 .. 1
    /\ command \in [Requests -> Commands]
    /\ pc \in [Requests -> {"idle", "reading", "ready", "starting", "waiting",
                            "draining", "cleaning", "publishing", "backoff"}]
    /\ stage \in [Requests -> Stages]
    /\ job \in [Requests -> {"none", "queued", "running"} \cup Finished]
    /\ client \in [Requests -> {"none", "open", "closed"}]
    /\ owned \in [Requests -> BOOLEAN]
    /\ body \in [Requests -> {"none", "error", "cancelled"}]
    /\ cancelled \in [Requests -> BOOLEAN]
    /\ attempts \in [Requests -> 0 .. AllowedRetries + 1]
    /\ cancels \in [Requests -> 0 .. MaxCancels]
    /\ object \in Requests \cup {Nobody}
    /\ uploaded \subseteq Requests
    /\ asked \in [Requests -> BOOLEAN]
    /\ result \in [Requests -> {"none", "ok", "error", "cancelled"}]

Leased == {r \in Requests : pc[r] # "idle"}

\* No permit is lost or returned twice, on any mix of refusals, deadlines
\* and repeated cancellations: the free permits, the active-lease count and
\* the requests inside handle_request always agree.
PermitsConserved == /\ permits + active = MaxLeases
                    /\ active = Cardinality(Leased)

\* "The lease is released only after every private provider future has
\* finished [and] every provider resource it owns has closed": outside its
\* lease a request has no job and no open client, and the client of an
\* attempt is gone before the next attempt starts.
LeaseCoversWork ==
    \A r \in Requests :
        /\ pc[r] \in {"idle", "backoff"} => job[r] = "none" /\ client[r] = "none"
        /\ client[r] = "open" => stage[r] \in {"client", "work", "close"}

\* No queue forms in front of the workers: whatever is waiting for a thread
\* has one free, so cleanup is never stuck behind other requests.
NoQueueing ==
    (\E r \in Requests : job[r] = "queued") => Cardinality(Running) < MaxLeases

\* "Closing cannot revoke cleanup capacity from an accepted request": the
\* executor, whose shutdown cancels what has not started, is shut down once
\* and only when nobody holds a lease or ever will again.
ShutdownOnlyWhenIdle ==
    /\ shutdowns <= 1
    /\ shutdowns = 1 => closing /\ \A r \in Requests : pc[r] = "idle" /\ job[r] = "none"

\* "Cancellation before an atomic download commit propagates as the
\* original CancelledError after cleanup": a request cancelled before its
\* work was accepted ends cancelled, whatever the drained call, the cleanup
\* and the close then come to, and is never retried.  The one exception is
\* a cancellation that arrives while an attempt that has already failed
\* closes its client: the failure outranks it, and a retry may succeed.
CancellationHonoured ==
    \A r \in Requests : asked[r] /\ pc[r] = "idle" => result[r] = "cancelled"

\* "if_generation_match defaults to 0 (create-only) and the same validated
\* value is supplied on every gateway retry": of the uploads to one object, concurrent, retried
\* or late, at most one is reported as done, and the object is still the one
\* it stored.  (An upload whose answer was lost is the price: its retry
\* finds the object and fails.)
OneUploadWins == \A r \in uploaded : object = r

\* Every admitted request ends and gives its lease back.
EveryLeaseEnds == \A r \in Requests : pc[r] # "idle" ~> pc[r] = "idle"

\* Once admission is closing the executor is shut down.
ShutdownCompletes == closing ~> shutdowns = 1

\* The bookkeeping of leases and workers: balanced permits, no queue, one
\* shutdown at the right time.
LeaseInv == TypeOK /\ PermitsConserved /\ NoQueueing /\ ShutdownOnlyWhenIdle

\* Requests give their leases back, and a closing offloader shuts down.
LeasesEnd == EveryLeaseEnds /\ ShutdownCompletes
=============================================================================
