-------------------------- MODULE GcsOffloadProofs --------------------------
(***************************************************************************)
(* Proofs about GcsOffload, for every set of requests, finite or not, and  *)
(* every number of leases, retries and cancellations.                      *)
(***************************************************************************)
EXTENDS GcsOffload, FiniteSetTheorems, TLAPS

-----------------------------------------------------------------------------
(* The inductive invariant: the pool, and one request at a time.           *)

\* Permits, counter and leases agree; a shut down executor has no lease and
\* will have none.
PoolInv ==
    /\ permits + active = MaxLeases
    /\ IsFiniteSet(Leased)
    /\ active = Cardinality(Leased)
    /\ shutdowns = 1 => closing /\ active = 0

\* A request has a job exactly while it is inside lease.run.
JobInv(s) ==
    /\ job[s] = "none" <=> pc[s] \in {"idle", "reading", "ready", "publishing",
                                      "backoff"}
    /\ pc[s] = "waiting" => job[s] # "queued"
    /\ cancelled[s] => pc[s] \in {"draining", "cleaning"}

\* Which locals an attempt has at each stage.
LocalsInv(s) ==
    /\ pc[s] \in {"idle", "reading", "backoff"} => stage[s] = "connect"
    /\ pc[s] = "cleaning" => stage[s] = "client"
    /\ pc[s] = "publishing" => stage[s] = "work" /\ command[s] = "download"
    /\ owned[s] <=> stage[s] \in {"work", "close"}
    /\ body[s] # "none" => stage[s] = "close"
    /\ pc[s] = "backoff" => attempts[s] <= AllowedRetries

\* Who has to close the client: nobody before it is made, the attempt once it
\* owns it, and lease.run when it comes too late to be owned.
ClientInv(s) ==
    /\ stage[s] = "connect" => client[s] = "none"
    /\ stage[s] = "client" /\ pc[s] # "cleaning"
         => client[s] = IF job[s] = "ok" THEN "open" ELSE "none"
    /\ stage[s] = "work" => client[s] = "open"
    /\ stage[s] = "close" \/ pc[s] = "cleaning"
         => client[s] = IF job[s] \in Finished THEN "closed" ELSE "open"

\* A cancellation that must be honoured is retained by lease.run, is the body
\* failure the close will re-raise, or has been reported.
AskedInv(s) ==
    asked[s] => \/ pc[s] = "idle" /\ result[s] = "cancelled"
                \/ stage[s] # "close" /\ cancelled[s]
                \/ stage[s] = "close" /\ body[s] = "cancelled"

\* The object is the request's from the moment its upload has come back.
UploadInv(s) ==
    /\ s \in uploaded => object = s
    /\ /\ command[s] = "upload"
       /\ \/ stage[s] = "work" /\ job[s] = "ok"
          \/ stage[s] = "close" /\ body[s] = "none"
       => object = s

RequestInv(s) == /\ JobInv(s) /\ LocalsInv(s) /\ ClientInv(s) /\ AskedInv(s)
                 /\ UploadInv(s)

Inv == /\ TypeOK
       /\ PoolInv
       /\ \A s \in Requests : RequestInv(s)

-----------------------------------------------------------------------------
(* The pool.                                                               *)

USE DEF Finished, Stages, Commands, Nobody, poolVars, service

\* Nobody has a lease at first.
LEMMA InitInv == Init => Inv
<1> SUFFICES ASSUME Init PROVE Inv
    OBVIOUS
<1> USE DEF Init
<1>1. TypeOK
    <2>1. closing \in BOOLEAN
        BY Zenon
    <2>2. QED
        BY <2>1, MaxLeasesAssumption, AllowedRetriesAssumption,
           MaxCancelsAssumption DEF TypeOK
<1>2. Leased = {}
    BY DEF Leased
<1>3. PoolInv
    BY <1>2, FS_EmptySet, MaxLeasesAssumption DEF PoolInv
<1>4. ASSUME NEW s \in Requests PROVE RequestInv(s)
    BY DEF RequestInv, JobInv, LocalsInv, ClientInv, AskedInv, UploadInv
<1>5. QED
    BY <1>1, <1>3, <1>4 DEF Inv

\* A step that moves no permit and lets nobody in or out keeps the pool.
LEMMA SamePool ==
    ASSUME Inv, UNCHANGED poolVars, Leased' = Leased
    PROVE  PoolInv'
BY DEF Inv, PoolInv

\* A request inside handle_request is one of the counted leases.
LEMMA LeasedCounts ==
    ASSUME Inv, NEW r \in Requests, pc[r] # "idle"
    PROVE  active > 0 /\ shutdowns = 0
<1>1. r \in Leased /\ IsFiniteSet(Leased) /\ active = Cardinality(Leased)
    BY DEF Inv, PoolInv, Leased
<1>2. Cardinality(Leased) # 0
    BY <1>1, FS_EmptySet
<1>3. QED
    BY <1>1, <1>2 DEF Inv, PoolInv, TypeOK

\* lease.release() of a request that leaves gives back the one permit it holds.
LEMMA ReleasePool ==
    ASSUME Inv, NEW r \in Requests, pc[r] # "idle", Release(r),
           pc' = [pc EXCEPT ![r] = "idle"]
    PROVE  /\ PoolInv'
           /\ permits' \in 0 .. MaxLeases /\ active' \in 0 .. MaxLeases
           /\ shutdowns' \in 0 .. 1 /\ closing' = closing
<1>1. active > 0 /\ shutdowns = 0
    BY LeasedCounts
<1>2. Leased' = Leased \ {r} /\ r \in Leased
    BY DEF Inv, TypeOK, Leased
<1>3. IsFiniteSet(Leased') /\ Cardinality(Leased') = active - 1
    BY <1>2, FS_RemoveElement DEF Inv, PoolInv
<1>4. /\ permits' = permits + 1 /\ active' = active - 1 /\ closing' = closing
      /\ shutdowns' = IF closing /\ active' = 0 THEN 1 ELSE 0
    BY <1>1 DEF Release
<1>5. permits \in 0 .. MaxLeases /\ active \in 0 .. MaxLeases
    BY DEF Inv, TypeOK
<1>6. permits + active = MaxLeases /\ MaxLeases \in Nat
    BY MaxLeasesAssumption DEF Inv, PoolInv
<1>7. permits' \in 0 .. MaxLeases /\ active' \in 0 .. MaxLeases
      /\ permits' + active' = MaxLeases
    BY <1>1, <1>4, <1>5, <1>6
<1>8. QED
    BY <1>3, <1>4, <1>7 DEF PoolInv

\* _acquire_gcs_lease() takes a permit for the one request that enters.
LEMMA AcquirePool ==
    ASSUME Inv, NEW r \in Requests, Acquire(r)
    PROVE  /\ PoolInv'
           /\ permits' \in 0 .. MaxLeases /\ active' \in 0 .. MaxLeases
<1>1. pc[r] = "idle" /\ pc'[r] # "idle" /\ Leased' = Leased \cup {r}
    BY DEF Acquire, Inv, TypeOK, Leased
<1>2. IsFiniteSet(Leased') /\ Cardinality(Leased') = active + 1
    BY <1>1, FS_AddElement DEF Inv, PoolInv, Leased
<1>3. /\ permits > 0 /\ permits' = permits - 1 /\ active' = active + 1
      /\ ~closing /\ closing' = closing /\ shutdowns' = shutdowns
    BY DEF Acquire
<1>4. /\ permits \in 0 .. MaxLeases /\ active \in 0 .. MaxLeases
      /\ permits + active = MaxLeases /\ MaxLeases \in Nat
      /\ shutdowns = 1 => closing
    BY MaxLeasesAssumption DEF Inv, TypeOK, PoolInv
<1>5. QED
    BY <1>2, <1>3, <1>4 DEF PoolInv

\* Closing admission shuts an idle executor down and leaves the leases alone.
LEMMA ShutDownInv ==
    ASSUME Inv, ShutDown
    PROVE  Inv'
<1>1. TypeOK'
    BY DEF Inv, TypeOK, ShutDown
<1>2. Leased' = Leased
    BY DEF ShutDown, Leased
<1>3. PoolInv'
    BY <1>2 DEF ShutDown, Inv, PoolInv, TypeOK
<1>4. ASSUME NEW s \in Requests PROVE RequestInv(s)'
    BY DEF ShutDown, Inv, RequestInv, JobInv, LocalsInv, ClientInv, AskedInv,
           UploadInv
<1>5. QED
    BY <1>1, <1>3, <1>4 DEF Inv

-----------------------------------------------------------------------------
(* How an attempt raises.                                                  *)

\* What the exits of a request assign, besides the job and the histories.
ExitTypes ==
    /\ permits' \in 0 .. MaxLeases /\ active' \in 0 .. MaxLeases
    /\ closing' \in BOOLEAN /\ shutdowns' \in 0 .. 1
    /\ command' \in [Requests -> Commands]
    /\ pc' \in [Requests -> {"idle", "reading", "ready", "starting", "waiting",
                             "draining", "cleaning", "publishing", "backoff"}]
    /\ stage' \in [Requests -> Stages]
    /\ client' \in [Requests -> {"none", "open", "closed"}]
    /\ owned' \in [Requests -> BOOLEAN]
    /\ body' \in [Requests -> {"none", "error", "cancelled"}]
    /\ cancelled' \in [Requests -> BOOLEAN]
    /\ attempts' \in [Requests -> 0 .. AllowedRetries + 1]
    /\ result' \in [Requests -> {"none", "ok", "error", "cancelled"}]

\* The request ends: its lease goes back to the pool.
LEMMA FinishPool ==
    ASSUME Inv, NEW r \in Requests, pc[r] # "idle",
           NEW res \in {"ok", "error", "cancelled"}, Finish(r, res)
    PROVE  PoolInv' /\ ExitTypes
<1>1. /\ PoolInv'
      /\ permits' \in 0 .. MaxLeases /\ active' \in 0 .. MaxLeases
      /\ shutdowns' \in 0 .. 1 /\ closing' = closing
    BY ReleasePool DEF Finish
<1>2. QED
    BY <1>1, AllowedRetriesAssumption DEF ExitTypes, Finish, Inv, TypeOK

\* The breaker backs off: the lease is kept over the retries.
LEMMA BackOffPool ==
    ASSUME Inv, NEW r \in Requests, pc[r] # "idle", BackOff(r)
    PROVE  PoolInv' /\ ExitTypes
<1>1. Leased' = Leased
    BY DEF BackOff, Leased, Inv, TypeOK
<1>2. PoolInv'
    BY <1>1, SamePool DEF BackOff
<1>3. QED
    BY <1>2 DEF ExitTypes, BackOff, Inv, TypeOK

\* lease.run raises: whichever way the attempt goes on, the pool stays balanced.
LEMMA CallRaisesPool ==
    ASSUME Inv, NEW r \in Requests, pc[r] # "idle",
           NEW kind \in {"error", "cancelled"}, CallRaises(r, kind)
    PROVE  PoolInv' /\ ExitTypes
<1>1. CASE stage[r] # "close" /\ owned[r]
    <2>1. Leased' = Leased
        BY <1>1 DEF CallRaises, Leased, Inv, TypeOK
    <2>2. PoolInv'
        BY <1>1, <2>1, SamePool DEF CallRaises
    <2>3. /\ body' = [body EXCEPT ![r] = kind]
          /\ stage' = [stage EXCEPT ![r] = "close"]
          /\ pc' = [pc EXCEPT ![r] = "ready"]
          /\ cancelled' = [cancelled EXCEPT ![r] = FALSE]
          /\ UNCHANGED <<poolVars, command, client, owned, attempts, result>>
        BY <1>1 DEF CallRaises
    <2>4. QED
        BY <2>2, <2>3 DEF ExitTypes, Inv, TypeOK
<1>2. CASE stage[r] # "close" /\ ~owned[r]
    BY <1>2, FinishPool, BackOffPool DEF CallRaises, AttemptRaises
<1>3. CASE stage[r] = "close"
    <2> DEFINE raised == IF body[r] # "none" THEN body[r] ELSE kind
    <2>1. raised \in {"error", "cancelled"}
        BY DEF Inv, TypeOK
    <2>2. AttemptRaises(r, raised)
        BY <1>3 DEF CallRaises
    <2> HIDE DEF raised
    <2>3. QED
        BY <2>1, <2>2, FinishPool, BackOffPool DEF AttemptRaises
<1>4. QED
    BY <1>1, <1>2, <1>3

\* A cancellation is counted, and remembered unless the client is being closed.
LEMMA NoteCancelTypes ==
    ASSUME Inv, NEW r \in Requests, NoteCancel(r)
    PROVE  /\ cancels' \in [Requests -> 0 .. MaxCancels]
           /\ asked' \in [Requests -> BOOLEAN]
<1>1. cancels' \in [Requests -> 0 .. MaxCancels]
    BY MaxCancelsAssumption DEF NoteCancel, Inv, TypeOK
<1>2. asked' \in [Requests -> BOOLEAN]
    BY DEF NoteCancel, Inv, TypeOK
<1>3. QED
    BY <1>1, <1>2

-----------------------------------------------------------------------------
(* Every step of a request keeps what is known of it and of the others.    *)

USE DEF RequestInv, JobInv, LocalsInv, ClientInv, AskedInv, UploadInv

\* A request is admitted.
LEMMA AcquireInv ==
    ASSUME Inv, NEW r \in Requests, Acquire(r)
    PROVE  Inv'
<1>1. TypeOK'
    <2>1. attempts' \in [Requests -> 0 .. AllowedRetries + 1]
        BY AllowedRetriesAssumption DEF Acquire, Inv, TypeOK
    <2>2. cancels' \in [Requests -> 0 .. MaxCancels]
        BY MaxCancelsAssumption DEF Acquire, Inv, TypeOK
    <2>3. /\ command' \in [Requests -> Commands]
          /\ pc' \in [Requests -> {"idle", "reading", "ready", "starting",
                                   "waiting", "draining", "cleaning",
                                   "publishing", "backoff"}]
        BY DEF Acquire, Inv, TypeOK
    <2>4. closing' \in BOOLEAN /\ asked' \in [Requests -> BOOLEAN]
        BY DEF Acquire, Inv, TypeOK
    <2>5. QED
        BY AcquirePool, <2>1, <2>2, <2>3, <2>4 DEF Acquire, Inv, TypeOK
<1>2. PoolInv'
    BY AcquirePool
<1>3. JobInv(r)' /\ LocalsInv(r)'
    BY DEF Acquire, Inv, TypeOK
<1>4. ClientInv(r)'
    BY DEF Acquire, Inv, TypeOK
<1>5. AskedInv(r)' /\ UploadInv(r)'
    BY DEF Acquire, Inv, TypeOK
<1>6. ASSUME NEW s \in Requests \ {r} PROVE RequestInv(s)'
    BY DEF Acquire, Inv, TypeOK
<1>7. QED
    BY <1>1, <1>2, <1>3, <1>4, <1>5, <1>6 DEF Inv

\* A provider call is handed to the executor.
LEMMA SubmitInv ==
    ASSUME Inv, NEW r \in Requests, Submit(r)
    PROVE  Inv'
<1>1. TypeOK'
    BY DEF Submit, Inv, TypeOK
<1>2. Leased' = Leased
    BY DEF Submit, Leased, Inv, TypeOK
<1>3. PoolInv'
    BY <1>2, SamePool DEF Submit
<1>4. RequestInv(r)'
    BY DEF Submit, Inv, TypeOK
<1>5. ASSUME NEW s \in Requests \ {r} PROVE RequestInv(s)'
    BY DEF Submit, Inv, TypeOK
<1>6. QED
    BY <1>1, <1>3, <1>4, <1>5 DEF Inv

\* The worker has begun.
LEMMA StartedInv ==
    ASSUME Inv, NEW r \in Requests, Started(r)
    PROVE  Inv'
<1>1. TypeOK'
    BY DEF Started, Inv, TypeOK
<1>2. Leased' = Leased
    BY DEF Started, Leased, Inv, TypeOK
<1>3. PoolInv'
    BY <1>2, SamePool DEF Started
<1>4. RequestInv(r)'
    BY DEF Started, Inv, TypeOK
<1>5. ASSUME NEW s \in Requests \ {r} PROVE RequestInv(s)'
    BY DEF Started, Inv, TypeOK
<1>6. QED
    BY <1>1, <1>3, <1>4, <1>5 DEF Inv

\* A result in time moves the attempt to its next stage.
LEMMA AcceptStepInv ==
    ASSUME Inv, NEW r \in Requests, AcceptStep(r)
    PROVE  Inv'
<1>1. TypeOK'
    BY DEF AcceptStep, Inv, TypeOK
<1>2. Leased' = Leased
    BY DEF AcceptStep, Leased, Inv, TypeOK
<1>3. PoolInv'
    BY <1>2, SamePool DEF AcceptStep
<1>4. stage[r] \in {"connect", "client", "work"}
    BY DEF AcceptStep, Inv, TypeOK
<1>5. stage'[r] = IF command[r] = "download" /\ stage[r] = "work" THEN "work"
                   ELSE IF stage[r] = "connect" THEN "client"
                   ELSE IF stage[r] = "client" THEN "work" ELSE "close"
    <2>1. CASE command[r] = "download" /\ stage[r] = "work"
        BY <2>1 DEF AcceptStep, Inv, TypeOK
    <2>2. CASE ~(command[r] = "download" /\ stage[r] = "work")
        <3>1. stage' = [stage EXCEPT ![r] = CASE @ = "connect" -> "client"
                                              [] @ = "client" -> "work"
                                              [] @ = "work" -> "close"]
            BY <2>2 DEF AcceptStep
        <3>2. QED
            BY <1>4, <2>2, <3>1 DEF Inv, TypeOK
    <2>3. QED
        BY <2>1, <2>2
<1>6. owned'[r] <=> stage[r] \in {"client", "work"}
    <2>1. owned'[r] = (owned[r] \/ stage[r] = "client")
        BY DEF AcceptStep, Inv, TypeOK
    <2>2. owned[r] <=> stage[r] = "work"
        BY <1>4 DEF Inv
    <2>3. QED
        BY <1>4, <2>1, <2>2
<1>7. JobInv(r)' /\ LocalsInv(r)'
    BY <1>4, <1>5, <1>6 DEF AcceptStep, Inv, TypeOK
<1>8. ClientInv(r)'
    BY DEF AcceptStep, Inv, TypeOK
<1>9. AskedInv(r)' /\ UploadInv(r)'
    BY DEF AcceptStep, Inv, TypeOK
<1>10. ASSUME NEW s \in Requests \ {r} PROVE RequestInv(s)'
    BY DEF AcceptStep, Inv, TypeOK
<1>11. QED
    BY <1>1, <1>3, <1>7, <1>8, <1>9, <1>10 DEF Inv

\* The provider's exception is in: the attempt raises.
LEMMA AcceptErrorInv ==
    ASSUME Inv, NEW r \in Requests, AcceptError(r)
    PROVE  Inv'
<1>1. TypeOK'
    <2>1. PoolInv' /\ ExitTypes
        BY CallRaisesPool DEF AcceptError
    <2>2. QED
        BY <2>1 DEF AcceptError, Inv, TypeOK, ExitTypes, Inv, TypeOK
<1>2. PoolInv'
    BY CallRaisesPool DEF AcceptError
<1>3. JobInv(r)' /\ LocalsInv(r)'
    BY DEF AcceptError, CallRaises, AttemptRaises, Finish, BackOff, Inv, TypeOK
<1>4. ClientInv(r)'
    BY DEF AcceptError, CallRaises, AttemptRaises, Finish, BackOff, Inv, TypeOK
<1>5. AskedInv(r)' /\ UploadInv(r)'
    BY DEF AcceptError, CallRaises, AttemptRaises, Finish, BackOff, Inv, TypeOK
<1>6. ASSUME NEW s \in Requests \ {r} PROVE RequestInv(s)'
    BY DEF AcceptError, CallRaises, AttemptRaises, Finish, BackOff, Inv, TypeOK
<1>7. QED
    BY <1>1, <1>2, <1>3, <1>4, <1>5, <1>6 DEF Inv

\* The deadline expires.
LEMMA ExpireInv ==
    ASSUME Inv, NEW r \in Requests, Expire(r)
    PROVE  Inv'
<1>1. TypeOK'
    BY DEF Expire, Inv, TypeOK
<1>2. Leased' = Leased
    BY DEF Expire, Leased, Inv, TypeOK
<1>3. PoolInv'
    BY <1>2, SamePool DEF Expire
<1>4. RequestInv(r)'
    BY DEF Expire, Inv, TypeOK
<1>5. ASSUME NEW s \in Requests \ {r} PROVE RequestInv(s)'
    BY DEF Expire, Inv, TypeOK
<1>6. QED
    BY <1>1, <1>3, <1>4, <1>5 DEF Inv

\* The late client is closed: lease.run raises.
LEMMA CleanedInv ==
    ASSUME Inv, NEW r \in Requests, Cleaned(r)
    PROVE  Inv'
<1>1. TypeOK'
    <2>1. PoolInv' /\ ExitTypes
        BY CallRaisesPool DEF Cleaned, DrainedError
    <2>2. QED
        BY <2>1 DEF Cleaned, DrainedError, ExitTypes, Inv, TypeOK
<1>2. PoolInv'
    BY CallRaisesPool DEF Cleaned, DrainedError
<1>3. JobInv(r)' /\ LocalsInv(r)'
    BY DEF Cleaned, DrainedError, CallRaises, AttemptRaises, Finish, BackOff,
           Inv, TypeOK
<1>4. ClientInv(r)'
    BY DEF Cleaned, DrainedError, CallRaises, AttemptRaises, Finish, BackOff,
           Inv, TypeOK
<1>5. AskedInv(r)' /\ UploadInv(r)'
    BY DEF Cleaned, DrainedError, CallRaises, AttemptRaises, Finish, BackOff,
           Inv, TypeOK
<1>6. ASSUME NEW s \in Requests \ {r} PROVE RequestInv(s)'
    BY DEF Cleaned, DrainedError, CallRaises, AttemptRaises, Finish, BackOff,
           Inv, TypeOK
<1>7. QED
    BY <1>1, <1>2, <1>3, <1>4, <1>5, <1>6 DEF Inv

\* A cancellation at the local write.
LEMMA CancelPublishInv ==
    ASSUME Inv, NEW r \in Requests, CancelPublish(r)
    PROVE  Inv'
<1>1. TypeOK'
    <2>1. PoolInv' /\ ExitTypes
        BY CallRaisesPool DEF CancelPublish, NoteCancel
    <2>2. QED
        BY <2>1, NoteCancelTypes DEF CancelPublish, ExitTypes, Inv, TypeOK
<1>2. PoolInv'
    BY CallRaisesPool DEF CancelPublish, NoteCancel
<1>3. JobInv(r)' /\ LocalsInv(r)'
    BY DEF CancelPublish, NoteCancel, CallRaises, AttemptRaises, Finish,
           BackOff, Inv, TypeOK
<1>4. ClientInv(r)'
    BY DEF CancelPublish, NoteCancel, CallRaises, AttemptRaises, Finish,
           BackOff, Inv, TypeOK
<1>5. AskedInv(r)' /\ UploadInv(r)'
    BY DEF CancelPublish, NoteCancel, CallRaises, AttemptRaises, Finish,
           BackOff, Inv, TypeOK
<1>6. ASSUME NEW s \in Requests \ {r} PROVE RequestInv(s)'
    BY DEF CancelPublish, NoteCancel, CallRaises, AttemptRaises, Finish,
           BackOff, Inv, TypeOK
<1>7. QED
    BY <1>1, <1>2, <1>3, <1>4, <1>5, <1>6 DEF Inv

\* A worker thread takes the job.
LEMMA JobStartsInv ==
    ASSUME Inv, NEW r \in Requests, JobStarts(r)
    PROVE  Inv'
<1>1. TypeOK'
    BY DEF JobStarts, Inv, TypeOK
<1>2. Leased' = Leased
    BY DEF JobStarts, Leased, Inv, TypeOK
<1>3. PoolInv'
    BY <1>2, SamePool DEF JobStarts
<1>4. RequestInv(r)'
    BY DEF JobStarts, Inv, TypeOK
<1>5. ASSUME NEW s \in Requests \ {r} PROVE RequestInv(s)'
    BY DEF JobStarts, Inv, TypeOK
<1>6. QED
    BY <1>1, <1>3, <1>4, <1>5 DEF Inv

\* The provider call returns: the service may have stored the upload.
LEMMA JobEndsInv ==
    ASSUME Inv, NEW r \in Requests, NEW res \in Finished, JobEnds(r, res)
    PROVE  Inv'
<1>1. TypeOK'
    BY DEF JobEnds, Stored, MayCreate, Inv, TypeOK
<1>2. Leased' = Leased
    BY DEF JobEnds, Leased, Inv, TypeOK
<1>3. PoolInv'
    BY <1>2, SamePool DEF JobEnds
<1>4. JobInv(r)' /\ LocalsInv(r)'
    BY DEF JobEnds, Stored, MayCreate, Inv, TypeOK
<1>5. ClientInv(r)'
    BY DEF JobEnds, Stored, MayCreate, Inv, TypeOK
<1>6. AskedInv(r)' /\ UploadInv(r)'
    BY RequestsAssumption DEF JobEnds, Stored, MayCreate, Inv, TypeOK
<1>7. ASSUME NEW s \in Requests \ {r} PROVE RequestInv(s)'
    BY RequestsAssumption DEF JobEnds, Stored, MayCreate, Inv, TypeOK
<1>8. QED
    BY <1>1, <1>3, <1>4, <1>5, <1>6, <1>7 DEF Inv

\* A cancellation at a provider call.
LEMMA CancelCallInv ==
    ASSUME Inv, NEW r \in Requests, CancelCall(r)
    PROVE  Inv'
<1>1. TypeOK'
    BY NoteCancelTypes DEF CancelCall, Inv, TypeOK
<1>2. Leased' = Leased
    BY DEF CancelCall, Leased, Inv, TypeOK
<1>3. PoolInv'
    BY <1>2, SamePool DEF CancelCall
<1>4. JobInv(r)' /\ LocalsInv(r)'
    BY DEF CancelCall, NoteCancel, Inv, TypeOK
<1>5. ClientInv(r)'
    BY DEF CancelCall, NoteCancel, Inv, TypeOK
<1>6. AskedInv(r)' /\ UploadInv(r)'
    BY DEF CancelCall, NoteCancel, Inv, TypeOK
<1>7. ASSUME NEW s \in Requests \ {r} PROVE RequestInv(s)'
    BY DEF CancelCall, NoteCancel, Inv, TypeOK
<1>8. QED
    BY <1>1, <1>3, <1>4, <1>5, <1>6, <1>7 DEF Inv

\* The downloaded file is in place, or could not be replaced.
LEMMA PublishedInv ==
    ASSUME Inv, NEW r \in Requests, Published(r)
    PROVE  Inv'
<1>1. TypeOK' /\ PoolInv'
    <2>1. CASE CallRaises(r, "error")
        <3>1. PoolInv' /\ ExitTypes
            BY <2>1, CallRaisesPool DEF Published
        <3>2. QED
            BY <2>1, <3>1 DEF Published, ExitTypes, Inv, TypeOK
    <2>2. CASE ~(CallRaises(r, "error"))
        <3>1. TypeOK'
            BY <2>2 DEF Published, Inv, TypeOK
        <3>2. Leased' = Leased /\ UNCHANGED poolVars
            BY <2>2 DEF Published, Leased, Inv, TypeOK
        <3>3. QED
            BY <3>1, <3>2, SamePool
    <2>3. QED
        BY <2>1, <2>2
<1>2. JobInv(r)' /\ LocalsInv(r)'
    BY DEF Published, CallRaises, AttemptRaises, Finish, BackOff, Inv, TypeOK
<1>3. ClientInv(r)'
    BY DEF Published, CallRaises, AttemptRaises, Finish, BackOff, Inv, TypeOK
<1>4. AskedInv(r)' /\ UploadInv(r)'
    BY DEF Published, CallRaises, AttemptRaises, Finish, BackOff, Inv, TypeOK
<1>5. ASSUME NEW s \in Requests \ {r} PROVE RequestInv(s)'
    BY DEF Published, CallRaises, AttemptRaises, Finish, BackOff, Inv, TypeOK
<1>6. QED
    BY <1>1, <1>2, <1>3, <1>4, <1>5 DEF Inv

\* The drain is over: a late client is closed by one more job, anything else
\* makes lease.run raise.
LEMMA DrainedInv ==
    ASSUME Inv, NEW r \in Requests, Drained(r)
    PROVE  Inv'
<1>1. TypeOK' /\ PoolInv'
    <2>1. CASE CallRaises(r, DrainedError(r))
        <3>1. PoolInv' /\ ExitTypes
            BY <2>1, CallRaisesPool DEF Drained, DrainedError
        <3>2. QED
            BY <2>1, <3>1 DEF Drained, DrainedError, ExitTypes, Inv, TypeOK
    <2>2. CASE ~(CallRaises(r, DrainedError(r)))
        <3>1. TypeOK'
            BY <2>2 DEF Drained, Inv, TypeOK
        <3>2. Leased' = Leased /\ UNCHANGED poolVars
            BY <2>2 DEF Drained, Leased, Inv, TypeOK
        <3>3. QED
            BY <3>1, <3>2, SamePool
    <2>3. QED
        BY <2>1, <2>2
<1>2. JobInv(r)' /\ LocalsInv(r)'
    BY DEF Drained, DrainedError, CallRaises, AttemptRaises, Finish, BackOff,
           Inv, TypeOK
<1>3. ClientInv(r)'
    BY DEF Drained, DrainedError, CallRaises, AttemptRaises, Finish, BackOff,
           Inv, TypeOK
<1>4. AskedInv(r)' /\ UploadInv(r)'
    BY DEF Drained, DrainedError, CallRaises, AttemptRaises, Finish, BackOff,
           Inv, TypeOK
<1>5. ASSUME NEW s \in Requests \ {r} PROVE RequestInv(s)'
    BY DEF Drained, DrainedError, CallRaises, AttemptRaises, Finish, BackOff,
           Inv, TypeOK
<1>6. QED
    BY <1>1, <1>2, <1>3, <1>4, <1>5 DEF Inv

\* The close is in: the attempt returns, or raises its body failure.
LEMMA AcceptCloseInv ==
    ASSUME Inv, NEW r \in Requests, AcceptClose(r)
    PROVE  Inv'
<1>1. TypeOK' /\ PoolInv'
    <2>1. body[r] \in {"none", "error", "cancelled"}
        BY DEF Inv, TypeOK
    <2>2. PoolInv' /\ ExitTypes
        BY <2>1, FinishPool, BackOffPool DEF AcceptClose, AttemptRaises
    <2>3. QED
        BY <2>2 DEF AcceptClose, ExitTypes, Inv, TypeOK
<1>2. JobInv(r)' /\ LocalsInv(r)'
    BY DEF AcceptClose, AttemptRaises, Finish, BackOff, Inv, TypeOK
<1>3. ClientInv(r)'
    BY DEF AcceptClose, AttemptRaises, Finish, BackOff, Inv, TypeOK
<1>4. AskedInv(r)' /\ UploadInv(r)'
    BY DEF AcceptClose, AttemptRaises, Finish, BackOff, Inv, TypeOK
<1>5. ASSUME NEW s \in Requests \ {r} PROVE RequestInv(s)'
    BY DEF AcceptClose, AttemptRaises, Finish, BackOff, Inv, TypeOK
<1>6. QED
    BY <1>1, <1>2, <1>3, <1>4, <1>5 DEF Inv

\* The local file is read, or refused.
LEMMA ReadDoneInv ==
    ASSUME Inv, NEW r \in Requests, ReadDone(r)
    PROVE  Inv'
<1>1. TypeOK' /\ PoolInv'
    <2>1. CASE Finish(r, "error")
        <3>1. PoolInv' /\ ExitTypes
            BY <2>1, FinishPool DEF ReadDone
        <3>2. QED
            BY <2>1, <3>1 DEF ReadDone, ExitTypes, Inv, TypeOK
    <2>2. CASE ~(Finish(r, "error"))
        <3>1. TypeOK'
            BY <2>2 DEF ReadDone, Inv, TypeOK
        <3>2. Leased' = Leased /\ UNCHANGED poolVars
            BY <2>2 DEF ReadDone, Leased, Inv, TypeOK
        <3>3. QED
            BY <3>1, <3>2, SamePool
    <2>3. QED
        BY <2>1, <2>2
<1>2. JobInv(r)' /\ LocalsInv(r)'
    BY DEF ReadDone, Finish, Inv, TypeOK
<1>3. ClientInv(r)'
    BY DEF ReadDone, Finish, Inv, TypeOK
<1>4. AskedInv(r)' /\ UploadInv(r)'
    BY DEF ReadDone, Finish, Inv, TypeOK
<1>5. ASSUME NEW s \in Requests \ {r} PROVE RequestInv(s)'
    BY DEF ReadDone, Finish, Inv, TypeOK
<1>6. QED
    BY <1>1, <1>2, <1>3, <1>4, <1>5 DEF Inv

\* The next attempt starts, or the circuit is open.
LEMMA BackoffDoneInv ==
    ASSUME Inv, NEW r \in Requests, BackoffDone(r)
    PROVE  Inv'
<1>1. TypeOK' /\ PoolInv'
    <2>1. CASE Finish(r, "error")
        <3>1. PoolInv' /\ ExitTypes
            BY <2>1, FinishPool DEF BackoffDone
        <3>2. QED
            BY <2>1, <3>1, AllowedRetriesAssumption
               DEF BackoffDone, ExitTypes, Inv, TypeOK
    <2>2. CASE ~(Finish(r, "error"))
        <3>1. TypeOK'
            BY <2>2, AllowedRetriesAssumption DEF BackoffDone, Inv, TypeOK
        <3>2. Leased' = Leased /\ UNCHANGED poolVars
            BY <2>2 DEF BackoffDone, Leased, Inv, TypeOK
        <3>3. QED
            BY <3>1, <3>2, SamePool
    <2>3. QED
        BY <2>1, <2>2
<1>2. JobInv(r)' /\ LocalsInv(r)'
    BY DEF BackoffDone, Finish, Inv, TypeOK
<1>3. ClientInv(r)'
    BY DEF BackoffDone, Finish, Inv, TypeOK
<1>4. AskedInv(r)' /\ UploadInv(r)'
    BY DEF BackoffDone, Finish, Inv, TypeOK
<1>5. ASSUME NEW s \in Requests \ {r} PROVE RequestInv(s)'
    BY DEF BackoffDone, Finish, Inv, TypeOK
<1>6. QED
    BY <1>1, <1>2, <1>3, <1>4, <1>5 DEF Inv

\* A cancellation at the local read or the backoff.
LEMMA CancelElsewhereInv ==
    ASSUME Inv, NEW r \in Requests, CancelElsewhere(r)
    PROVE  Inv'
<1>1. TypeOK' /\ PoolInv'
    <2>1. PoolInv' /\ ExitTypes
        BY FinishPool DEF CancelElsewhere
    <2>2. QED
        BY <2>1, NoteCancelTypes DEF CancelElsewhere, ExitTypes, Inv, TypeOK
<1>2. JobInv(r)' /\ LocalsInv(r)'
    BY DEF CancelElsewhere, NoteCancel, Finish, Inv, TypeOK
<1>3. ClientInv(r)'
    BY DEF CancelElsewhere, NoteCancel, Finish, Inv, TypeOK
<1>4. AskedInv(r)' /\ UploadInv(r)'
    BY DEF CancelElsewhere, NoteCancel, Finish, Inv, TypeOK
<1>5. ASSUME NEW s \in Requests \ {r} PROVE RequestInv(s)'
    BY DEF CancelElsewhere, NoteCancel, Finish, Inv, TypeOK
<1>6. QED
    BY <1>1, <1>2, <1>3, <1>4, <1>5 DEF Inv

-----------------------------------------------------------------------------
(* The theorems.                                                           *)

\* Inv is inductive.
LEMMA NextInv == Inv /\ [Next]_vars => Inv'
<1> SUFFICES ASSUME Inv, [Next]_vars PROVE Inv'
    OBVIOUS
<1>1. ASSUME NEW r \in Requests, LoopStep(r) PROVE Inv'
    BY <1>1, SubmitInv, StartedInv, AcceptStepInv, AcceptCloseInv,
       AcceptErrorInv, ExpireInv, DrainedInv, CleanedInv, ReadDoneInv,
       BackoffDoneInv, PublishedInv DEF LoopStep
<1>2. ASSUME NEW r \in Requests, WorkerStep(r) PROVE Inv'
    BY <1>2, JobStartsInv, JobEndsInv DEF WorkerStep
<1>3. CASE UNCHANGED vars
    <2>1. TypeOK' /\ PoolInv'
        BY <1>3 DEF vars, Inv, TypeOK, PoolInv, Leased
    <2>2. ASSUME NEW s \in Requests PROVE RequestInv(s)'
        BY <1>3 DEF vars, Inv
    <2>3. QED
        BY <2>1, <2>2 DEF Inv
<1>4. QED
    BY <1>1, <1>2, <1>3, AcquireInv, CancelCallInv, CancelPublishInv,
       CancelElsewhereInv, ShutDownInv DEF Next

\* The strengthened invariant holds in every reachable state of the offloader.
THEOREM Invariance == Spec => []Inv
BY InitInv, NextInv, PTL DEF Spec

\* Whatever waits for a thread is one of at most MaxLeases leases and does not
\* run, so the others leave a thread free.
LEMMA InvNoQueueing == Inv => NoQueueing
<1> SUFFICES ASSUME Inv, NEW r \in Requests, job[r] = "queued"
             PROVE  Cardinality(Running) < MaxLeases
    BY DEF NoQueueing
<1>1. r \in Leased /\ Running \subseteq Leased \ {r}
    BY DEF Inv, Leased, Running, TypeOK
<1>2. IsFiniteSet(Leased \ {r}) /\ Cardinality(Leased \ {r}) = active - 1
    BY <1>1, FS_RemoveElement DEF Inv, PoolInv
<1>3. IsFiniteSet(Running) /\ Cardinality(Running) <= active - 1
    BY <1>1, <1>2, FS_Subset
<1>4. Cardinality(Running) \in Nat
    BY <1>3, FS_CardinalityType
<1>5. QED
    BY <1>3, <1>4, MaxLeasesAssumption DEF Inv, TypeOK

\* An executor that was shut down has no lease and no job left.
LEMMA InvShutdown == Inv => ShutdownOnlyWhenIdle
<1> SUFFICES ASSUME Inv PROVE ShutdownOnlyWhenIdle
    OBVIOUS
<1>1. ASSUME shutdowns = 1, NEW r \in Requests
      PROVE  pc[r] = "idle" /\ job[r] = "none"
    BY <1>1, LeasedCounts DEF Inv
<1>2. QED
    BY <1>1 DEF ShutdownOnlyWhenIdle, Inv, TypeOK, PoolInv

\* Permits, the lease count and the requests inside handle_request agree, no
\* queue forms in front of the workers, and the executor is shut down once,
\* when nobody holds a lease: for every number of requests and of permits.
THEOREM SpecLease == Spec => []LeaseInv
<1>1. Inv => LeaseInv
    BY InvNoQueueing, InvShutdown DEF Inv, LeaseInv, PoolInv, PermitsConserved
<1>2. QED
    BY <1>1, Invariance, PTL

\* A lease is released, and an attempt given up, only after its provider job is
\* over and its client closed.
THEOREM SpecLeaseCovers == Spec => []LeaseCoversWork
<1>1. Inv => LeaseCoversWork
    BY DEF Inv, TypeOK, LeaseCoversWork
<1>2. QED
    BY <1>1, Invariance, PTL

\* A request cancelled before its work was accepted ends cancelled, whatever
\* the drained call, the cleanup and the close come to.
THEOREM SpecCancellation == Spec => []CancellationHonoured
<1>1. Inv => CancellationHonoured
    BY DEF Inv, TypeOK, CancellationHonoured
<1>2. QED
    BY <1>1, Invariance, PTL

\* Of the create-only uploads to one object, concurrent, retried or late, at
\* most one is reported as done, and it is the one that was stored.
THEOREM SpecOneUpload == Spec => []OneUploadWins
<1>1. Inv => OneUploadWins
    BY DEF Inv, TypeOK, OneUploadWins
<1>2. QED
    BY <1>1, Invariance, PTL
=============================================================================
