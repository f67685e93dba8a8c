----------------------------- MODULE SdkSession -----------------------------
(***************************************************************************)
(* One S3 or gRPC request (logic/s3_client.py, logic/grpc_client.py) and   *)
(* the SDK client or channel it opens, uses under the breaker's retries    *)
(* and closes in a task of its own; for a download also the streaming body *)
(* of the response (utils/http_file_config.py).  aioboto3 and grpc.aio are *)
(* external: a call of theirs succeeds, fails or is cancelled.             *)
(*                                                                         *)
(* A step is the code between two awaits.  The task may be cancelled at    *)
(* each of them, several times: a shielded close goes on and the waiting   *)
(* task notes the first cancellation.                                      *)
(***************************************************************************)
EXTENDS Integers

CONSTANTS
    Attempts,     \* attempts of circuit_breaker.run
    MaxCancels    \* bound: how often the task is cancelled

ASSUME AttemptsAssumption == Attempts \in Nat \ {0}
ASSUME MaxCancelsAssumption == MaxCancels \in Nat

None == "none"
S3Commands == {"download", "upload", "head", "list"}
Kinds == S3Commands \cup {"grpc"}

VARIABLES
    kind,
    pc,
    attempt,
    client,     \* the SDK client or the channel: "none", "open" or "closed"
    closes,     \* how often it was closed
    exit,       \* how the close ended
    body,       \* the streaming body of the download, like client
    bodyCloses, \* how often its close() was called
    rpc,        \* the gRPC call: "none", "live", "done" or "cancelled"
    failure,    \* what the body of the client's context raises
    pending,    \* pending_cancellation of the close being awaited
    cancels,
    swallowed,  \* history: a cancellation arrived where it is dropped
    url,        \* of the envelope: "raw" or "masked"
    details,    \* protocol_details: "empty", "raw" or "masked"
    token,      \* the server's next_continuation_token in them
    result

sdk == <<client, closes, exit>>
stream == <<body, bodyCloses>>
echo == <<url, details, token>>
vars == <<kind, pc, attempt, sdk, stream, rpc, failure, pending, cancels,
          swallowed, echo, result>>

Init == /\ kind \in Kinds
        /\ pc = "start"
        /\ attempt = 1
        /\ client = "none" /\ closes = 0 /\ exit = None
        /\ body = "none" /\ bodyCloses = 0
        /\ rpc = "none"
        /\ failure = None
        /\ pending = FALSE
        /\ cancels = 0
        /\ swallowed = FALSE
        /\ url = "raw" /\ details = "empty" /\ token = None
        /\ result = None

Go(next) == pc' = next /\ UNCHANGED <<failure, pending>>

Raise(why, next) == /\ failure' = why
                    /\ pc' = next
                    /\ pending' = FALSE

-----------------------------------------------------------------------------
(* How a request ends.                                                     *)

\* Mutant: only typed errors are masked.
RedactTyped(res) ==
    IF res \in {"cancelled", "defect"} THEN UNCHANGED <<url, details>>
    ELSE /\ url' = "masked"
         /\ details' = IF details = "raw" THEN "masked" ELSE details

\* The finally of handle_request; for S3 _redact_response_surfaces, which
\* masks the details in place.
Redact(res) ==
    /\ url' = "masked"
    /\ details' = IF details = "raw" THEN "masked" ELSE details

\* Mutant: the server's token is masked with the rest.
TokenMasked == IF token = "server" THEN "masked" ELSE token

\* _server_next_token: the caller needs it as the server sent it.
TokenKept == token

\* handle_request returns or raises.
End(res) == /\ pc' = "ended"
            /\ result' = res
            /\ Redact(res)
            /\ token' = TokenKept
            /\ UNCHANGED <<failure, pending>>

-----------------------------------------------------------------------------
(* Opening the client and calling the service.                             *)

\* An upload's body is read and guarded before there is a session.
ReadUpload(ok) ==
    /\ pc = "start" /\ kind = "upload"
    /\ \/ ok /\ Go("enter") /\ UNCHANGED <<echo, result>>
       \/ ~ok /\ End("refused")
    /\ UNCHANGED <<kind, attempt, sdk, stream, rpc, cancels, swallowed>>

Configure ==
    /\ pc = "start" /\ kind \in S3Commands \ {"upload"}
    /\ Go("enter")
    /\ UNCHANGED <<kind, attempt, sdk, stream, rpc, cancels, swallowed, echo,
                   result>>

\* client_context.__aenter__: what is not entered is not exited.
EnterClient(ok) ==
    /\ pc = "enter"
    /\ \/ /\ ok /\ client' = "open" /\ Go("admit")
          /\ UNCHANGED <<echo, result>>
       \/ /\ ~ok /\ \E why \in {"refused", "transport", "defect"} : End(why)
          /\ UNCHANGED client
    /\ UNCHANGED <<kind, attempt, closes, exit, stream, rpc, cancels, swallowed>>

\* _new_channel does not wait; only an OSError or TimeoutError of it is typed.
NewChannel(ok) ==
    /\ pc = "start" /\ kind = "grpc"
    /\ \/ /\ ok /\ client' = "open" /\ Go("admit")
          /\ UNCHANGED <<echo, result>>
       \/ /\ ~ok /\ \E why \in {"transport", "defect"} : End(why)
          /\ UNCHANGED client
    /\ UNCHANGED <<kind, attempt, closes, exit, stream, rpc, cancels, swallowed>>

\* The breaker admits the attempt or raises CircuitOpen.
Admit(ok) ==
    /\ pc \in {"admit", "backoff"}
    /\ \/ ok /\ Go("call") /\ rpc' = IF kind = "grpc" THEN "live" ELSE rpc
       \/ ~ok /\ Raise("open", "close") /\ UNCHANGED rpc
    /\ UNCHANGED <<kind, attempt, sdk, stream, cancels, swallowed, echo, result>>

\* _attempt of S3Request: _is_retryable_service_response tells a service's
\* refusals apart; missing credentials are the caller's.
S3Call ==
    /\ pc = "call" /\ kind \in S3Commands
    /\ \/ /\ kind = "download"
          /\ body' = "open"
          /\ Go("stream")
       \/ kind # "download" /\ Go("settle") /\ UNCHANGED body
       \/ /\ \E why \in {"retryable", "abortable", "transport", "refused",
                     "defect"} : Raise(why, "settle")
          /\ UNCHANGED body
    /\ UNCHANGED <<kind, attempt, sdk, bodyCloses, rpc, cancels, swallowed,
                   echo, result>>

\* _attempt of GrpcRequest
GrpcCall ==
    /\ pc = "call" /\ kind = "grpc"
    /\ rpc' = "done"
    /\ \/ Go("settle")
       \/ \E why \in {"retryable", "abortable", "transport", "defect"} :
            Raise(why, "settle")
    /\ UNCHANGED <<kind, attempt, sdk, stream, cancels, swallowed, echo, result>>

-----------------------------------------------------------------------------
(* stream_s3_download                                                      *)

\* _s3_response_parts refuses the response, or stream_to_path the target:
\* nobody has entered the iterator, so it will not close the body.
Refuse ==
    /\ pc = "stream"
    /\ \/ Raise("transport", "outer")
       \/ Raise("refused", "landing")
    /\ UNCHANGED <<kind, attempt, sdk, stream, rpc, cancels, swallowed, echo,
                   result>>

\* The chunks end, the transport or the local file fails; the iterator is left
\* and its finally closes the body.
Iterate ==
    /\ pc = "stream"
    /\ \/ Go("inner")
       \/ \E why \in {"transport", "refused"} : Raise(why, "inner")
    /\ UNCHANGED <<kind, attempt, sdk, stream, rpc, cancels, swallowed, echo,
                   result>>

\* Mutant: the closer does not remember.
NeedsCloseAlways == TRUE

\* _S3BodyCloser.close
NeedsClose == body = "open"

\* An earlier failure hides what closing raises; a cancellation comes before
\* an error of the close.
Awaited(ok, why, next) ==
    IF failure # None THEN Raise(failure, next)
    ELSE IF pending THEN Raise("cancelled", next)
    ELSE IF ok THEN Go(next) ELSE Raise(why, next)

\* The finally of _s3_body_chunks, with _close_s3_body's shielded wait.
CloseInner(ok) ==
    /\ pc = "inner"
    /\ body' = "closed"
    /\ bodyCloses' = IF NeedsClose THEN bodyCloses + 1 ELSE bodyCloses
    /\ Awaited(ok, "transport", "landing")
    /\ UNCHANGED <<kind, attempt, sdk, rpc, cancels, swallowed, echo,
                   result>>

\* The rest of stream_to_path: the last calls of a good stream, the cleanup of
\* a failed one (StreamToPath).
Land(ok) ==
    /\ pc = "landing"
    /\ Awaited(ok, "refused", "outer")
    /\ UNCHANGED <<kind, attempt, sdk, stream, rpc, cancels, swallowed, echo,
                   result>>

\* The finally of stream_s3_download.
CloseOuter(ok) ==
    /\ pc = "outer"
    /\ body' = "closed"
    /\ bodyCloses' = IF NeedsClose THEN bodyCloses + 1 ELSE bodyCloses
    /\ Awaited(ok \/ ~NeedsClose, "transport", "settle")
    /\ UNCHANGED <<kind, attempt, sdk, rpc, cancels, swallowed, echo,
                   result>>

-----------------------------------------------------------------------------
(* The breaker's verdict and the close of the client.                      *)

\* _RetryableS3ServiceError, _RetryableGrpcStatusFailure and transport errors.
Retriable(why) == why \in {"retryable", "transport"}

\* Mutant: the attempts are not counted.
SettleForever ==
    /\ pc = "settle"
    /\ \/ failure = None /\ Go("judge")
       \/ Retriable(failure) /\ Raise(None, "backoff")
       \/ failure # None /\ ~Retriable(failure) /\ Go("public")
    /\ UNCHANGED <<kind, attempt, sdk, stream, rpc, cancels, swallowed, echo,
                   result>>

\* circuit_breaker.run returns, sleeps before it retries, or raises.
Settle ==
    /\ pc = "settle"
    /\ \/ failure = None /\ Go("judge") /\ UNCHANGED attempt
       \/ /\ Retriable(failure) /\ attempt < Attempts
          /\ attempt' = attempt + 1
          /\ Raise(None, "backoff")
       \/ /\ failure # None
          /\ Retriable(failure) => attempt = Attempts
          /\ Go("public")
          /\ UNCHANGED attempt
    /\ UNCHANGED <<kind, sdk, stream, rpc, cancels, swallowed, echo, result>>

\* _public_service_error and _public_status_error describe a service's refusal
\* in the envelope; gRPC's _details masks as it writes.
Publish ==
    /\ pc = "public"
    /\ Go("close")
    /\ details' = IF failure \notin {"retryable", "abortable"} THEN details
                  ELSE IF kind = "grpc" THEN "masked" ELSE "raw"
    /\ UNCHANGED <<kind, attempt, sdk, stream, rpc, cancels, swallowed, url,
                   token, result>>

\* A gRPC answer is judged, and a good one put in the envelope, while the
\* channel is open; an S3 answer once the client is closed.
Judge ==
    /\ pc = "judge"
    /\ \/ Go("close")
       \/ kind = "grpc" /\ Raise("serialization", "close")
    /\ details' = IF kind = "grpc" THEN "masked" ELSE details
    /\ UNCHANGED <<kind, attempt, sdk, stream, rpc, cancels, swallowed, url,
                   token, result>>

\* Mutant: every time round the loop starts another close.
CloseClientAgain(how) ==
    /\ pc = "close"
    /\ how = "suppressed" => kind \in S3Commands /\ failure # None
    /\ client' = "closed"
    /\ closes' = closes + 1
    /\ exit' = how
    /\ UNCHANGED <<kind, pc, attempt, stream, rpc, failure, pending, cancels,
                   swallowed, echo, result>>

\* _capture_client_exit and _capture_channel_close, in a task nobody cancels.
\* aioboto3 may also suppress the failure.
CloseClient(how) ==
    /\ pc = "close" /\ exit = None
    /\ how = "suppressed" => kind \in S3Commands /\ failure # None
    /\ client' = "closed"
    /\ closes' = closes + 1
    /\ exit' = how
    /\ UNCHANGED <<kind, pc, attempt, stream, rpc, failure, pending, cancels,
                   swallowed, echo, result>>

\* Mutant: a failing close outranks the cancellation.
OutcomeCloseFirst ==
    IF exit = "error" THEN "closeError"
    ELSE IF failure = "cancelled" \/ pending THEN "cancelled"
    ELSE IF exit = "suppressed" THEN "suppressed"
    ELSE IF failure # None THEN failure ELSE "ok"

\* Mutant: a failing close is ignored when the call succeeded.
OutcomeBodyFirst ==
    IF failure = "cancelled" \/ pending THEN "cancelled"
    ELSE IF failure = None THEN "ok" ELSE failure

\* _run_client_context and _run_channel_lifecycle: first the cancellation, then
\* the close's error, then the body's.
Outcome ==
    IF failure = "cancelled" \/ pending THEN "cancelled"
    ELSE IF exit = "error" THEN "closeError"
    ELSE IF exit = "suppressed" THEN "suppressed"
    ELSE IF failure # None THEN failure ELSE "ok"

\* The request ends as the client was left; a good S3 answer is taken apart.
Leave ==
    /\ pc = "close" /\ exit # None
    /\ \/ /\ Outcome = "ok" /\ kind \in S3Commands
          /\ pc' = "parse"
          /\ UNCHANGED <<failure, pending, echo, result>>
       \/ /\ Outcome # "ok" \/ kind = "grpc"
          /\ End(Outcome)
    /\ UNCHANGED <<kind, attempt, sdk, stream, rpc, cancels, swallowed>>

\* _success_details, or a malformed answer; finalise_ok.
ParseSuccess(ok) ==
    /\ pc = "parse"
    /\ \/ /\ ok
          /\ pc' = "fill"
          /\ details' = "raw"
          /\ token' = IF kind = "list" THEN "server" ELSE None
          /\ UNCHANGED <<failure, pending, url, result>>
       \/ ~ok /\ End("malformed")
    /\ UNCHANGED <<kind, attempt, sdk, stream, rpc, cancels, swallowed>>

Return ==
    /\ pc = "fill"
    /\ End("ok")
    /\ UNCHANGED <<kind, attempt, sdk, stream, rpc, cancels, swallowed>>

-----------------------------------------------------------------------------
\* Mutant: a cancelled gRPC call is left running.
CancelCallAbandoned == /\ pc = "call"
                       /\ Raise("cancelled", "settle")
                       /\ UNCHANGED <<rpc, swallowed, echo, result>>

\* The service's answer is awaited; `except CancelledError: call.cancel()`.
CancelCall == /\ pc = "call"
              /\ Raise("cancelled", "settle")
              /\ rpc' = IF kind = "grpc" THEN "cancelled" ELSE rpc
              /\ UNCHANGED <<swallowed, echo, result>>

\* Before the client is open, and while the breaker sleeps.
CancelOutside == /\ \/ pc = "start" /\ kind = "upload" /\ End("cancelled")
                    \/ pc = "enter" /\ End("cancelled")
                    \/ pc = "backoff" /\ Raise("cancelled", "close")
                                      /\ UNCHANGED <<echo, result>>
                 /\ UNCHANGED <<rpc, swallowed>>

CancelStream == /\ pc = "stream"
                /\ \E next \in {"inner", "landing"} : Raise("cancelled", next)
                /\ UNCHANGED <<rpc, swallowed, echo, result>>

\* Awaiting something shielded: noted, and dropped where a failure is already
\* being raised.
CancelShielded ==
    /\ \/ pc \in {"inner", "landing"}
       \/ pc = "outer" /\ NeedsClose
       \/ pc = "close" /\ exit = None
    /\ pending' = TRUE
    /\ swallowed' = (swallowed \/ (pc # "close"
                                    /\ failure \notin {None, "cancelled"}))
    /\ UNCHANGED <<pc, failure, rpc, echo, result>>

Cancel == /\ cancels < MaxCancels
          /\ cancels' = cancels + 1
          /\ \/ CancelCall
             \/ CancelOutside
             \/ CancelStream
             \/ CancelShielded
          /\ UNCHANGED <<kind, attempt, sdk, stream>>

Awaits(ok) == \/ ReadUpload(ok)
              \/ EnterClient(ok)
              \/ NewChannel(ok)
              \/ Admit(ok)
              \/ CloseInner(ok)
              \/ Land(ok)
              \/ CloseOuter(ok)
              \/ ParseSuccess(ok)

Step == \/ Configure
        \/ S3Call
        \/ GrpcCall
        \/ Refuse
        \/ Iterate
        \/ Settle
        \/ Publish
        \/ Judge
        \/ \E how \in {"clean", "error", "suppressed"} : CloseClient(how)
        \/ Leave
        \/ Return
        \/ \E ok \in BOOLEAN : Awaits(ok)

Next == Step \/ Cancel

Spec == Init /\ [][Next]_vars

\* The SDK's calls end by their deadline, and its close does.
FairSpec == Spec /\ WF_vars(Step)

-----------------------------------------------------------------------------
(* Properties.                                                             *)

\* The variables keep their types.
TypeOK ==
    /\ kind \in Kinds
    /\ attempt \in 1..Attempts
    /\ {client, body} \subseteq {"none", "open", "closed"}
    /\ rpc \in {"none", "live", "done", "cancelled"}
    /\ closes \in 0..1
    /\ {failure, result} \subseteq
         {None, "ok", "refused", "open", "retryable", "abortable", "transport",
          "serialization", "malformed", "defect", "closeError", "suppressed",
          "cancelled"}

\* The client or channel is closed exactly once on every way out, and never
\* while an attempt of the request still uses it: no body is open and no RPC is
\* under way when it closes (_run_client_context, _run_channel_lifecycle,
\* _attempt's call.cancel()).
ClosedAfterUse ==
    /\ client = "closed" => body # "open" /\ rpc # "live"
    /\ pc = "ended" => client # "open"

\* Every streaming body is closed once, by whichever of the two finally blocks
\* comes first, before its attempt is over (_S3BodyCloser).
BodyClosedOnce ==
    /\ pc \in {"settle", "backoff"} => body # "open"
    /\ bodyCloses <= attempt

\* A cancelled request ends as cancelled, however the close fails.  The one
\* place that drops a cancellation is a download whose body is closed, or whose
\* file is cleaned up, after it has failed: `raise failed`, after which the
\* breaker may even retry and succeed.
CancellationWins ==
    pc = "ended" /\ cancels > 0 /\ ~swallowed => result = "cancelled"

\* A request that reports success, or a refusal of the service, has closed its
\* client cleanly: an error of the close is never lost.
CloseErrorReported ==
    pc = "ended" /\ exit \in {"error", "suppressed"}
        => result \in {"closeError", "suppressed", "cancelled"}

\* On every way out the envelope's url is masked and no detail is left raw
\* (the finally of both handle_requests, _redact_response_surfaces).
SurfacesMasked ==
    pc = "ended" => url = "masked" /\ details # "raw"

\* The next page's token of a listing reaches the caller as the server sent it.
TokenSurvives == pc = "ended" /\ kind = "list" /\ result = "ok" => token = "server"

\* Every request ends, however often it is cancelled.
EveryCallEnds == <>(pc = "ended")

\* Client, channel and body are closed once, after use, on every way out.
CleanupInv == TypeOK /\ ClosedAfterUse /\ BodyClosedOnce

\* What the caller is told: a cancellation before a failing close, that before
\* anything else, and an envelope that is masked where it must be.
OutcomeInv ==
    CancellationWins /\ CloseErrorReported /\ SurfacesMasked /\ TokenSurvives
=============================================================================
