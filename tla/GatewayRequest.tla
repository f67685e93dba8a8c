--------------------------- MODULE GatewayRequest ---------------------------
(***************************************************************************)
(* request() (asyncio_gateway.py) and the one envelope it passes from the  *)
(* pre-processor through the protocol client to the post-processor and the *)
(* caller (utils/envelope.py), for the protocols that go over HTTP.  What  *)
(* the exchange does is in HttpExchange and CircuitBreaker; here it is one *)
(* outcome, and Verdicts says what the client makes of an answer.          *)
(*                                                                         *)
(* The processors are the caller's code: they are handed the live envelope *)
(* and may write or remove any key of it, return, raise or be cancelled.   *)
(* A value a processor wrote is Forged; of the URL the scheme is kept.     *)
(***************************************************************************)
EXTENDS Integers, Sequences, Verdicts

Forged == "forged"
None == "none"

Protocols == {"HTTP", "HTTPS", "SOAP", "JSONRPC", "GRAPHQL"}

\* The scheme of a URL: "relative" is //host, "none" has no authority either.
Schemes == {"http", "https", "ftp", "none", "relative"}

\* PROTOCOL_SCHEME_ALLOWLISTS; SOAP has none.
Allowlist(p) == CASE p = "HTTPS" -> {"https"}
                  [] p = "SOAP" -> Schemes
                  [] OTHER -> {"http", "https"}

\* A processor config: {} counts as absent.
Configs == {"absent", "valid", "malformed"}

\* How handle_request ends without an answer: a transport failure (an open
\* circuit included), an exhausted stack, another exception, or the task's
\* cancellation.
Failures == {"transport", "stack", "defect", "cancelled"}

NoAnswer == [status |-> None, decodes |-> FALSE, media |-> None, doc |-> None]

VARIABLES
    protocol, scheme, pre, post,   \* the arguments of request()
    pc,
    env,       \* the envelope
    key,       \* the breaker family looked up for the call
    wire,      \* the payload that was sent
    answer,    \* what the remote answered
    outcome,   \* how handle_request ended
    ran,       \* processors that were called
    logged,    \* failures logged
    raised     \* what escapes request()

args == <<protocol, scheme, pre, post>>
vars == <<protocol, scheme, pre, post, pc, env, key, wire, answer, outcome, ran,
          logged, raised>>

-----------------------------------------------------------------------------
(* The envelope.                                                           *)

\* Mutant: the payload is masked when the envelope is built.
NewEnvelopeMasked(p) ==
    [ok |-> FALSE, error |-> None, status |-> "unset", payload |-> <<"masked">>,
     body |-> None, json |-> None, details |-> None,
     protocol |-> p, url |-> "args", whole |-> TRUE]

\* new_envelope; `whole` is "no key was removed".
NewEnvelope(p) ==
    [ok |-> FALSE, error |-> None, status |-> "unset", payload |-> <<"data">>,
     body |-> None, json |-> None, details |-> None,
     protocol |-> p, url |-> "args", whole |-> TRUE]

\* _seal
Seal(e, status) == [e EXCEPT !.status = status, !.payload = <<"masked">>]

\* Mutant: success leaves the error as it is.
FinaliseOkKeepingError(e) == Seal([e EXCEPT !.ok = TRUE], "remote")

\* finalise_ok
FinaliseOk(e) == Seal([e EXCEPT !.ok = TRUE, !.error = None], "remote")

\* finalise_error; "mapped" is the status the exception itself carries.
FinaliseError(e, o) ==
    Seal([e EXCEPT !.ok = FALSE, !.error = o],
         IF o \in WithStatus THEN "remote" ELSE "mapped")

\* Mutant: the body is copied only once the verdict has been found good.
CopiedIfGood(e, a) ==
    IF HttpVerdict(a) = "good"
    THEN [e EXCEPT !.status = "remote", !.body = "remote",
                   !.json = IF JsonFrom(a) THEN "remote" ELSE @]
    ELSE e

\* _copy_into_envelope, before any error is raised.
Copied(e, a) == [e EXCEPT !.status = "remote", !.body = "remote",
                          !.json = IF JsonFrom(a) THEN "remote" ELSE @]

\* The document the JSON protocols judge is the envelope's json, whoever wrote
\* it: a pre-processor's is taken to be a well-formed result.
Judged(e, a) == CASE e.json = "remote" -> a.doc
                  [] e.json = Forged -> "result"
                  [] OTHER -> "invalid"

\* protocol_details after the answer was looked at.
Detailed(e, a) ==
    CASE protocol = "SOAP" ->
           [e EXCEPT !.details = IF SoapDocument(a) \in {"result", "error"}
                                 THEN a.doc ELSE "empty"]
      [] /\ protocol \in {"JSONRPC", "GRAPHQL"} /\ ~BodyError(a)
         /\ Judged(e, a) \in {"result", "error"}
         /\ (protocol = "GRAPHQL" /\ a.status = "2xx" =>
               a.media \in {"json", "graphql"}) ->
           [e EXCEPT !.details = Judged(e, a)]
      [] OTHER -> e

\* The client's judgement of the answer it has copied.
Verdict(e, a) == CASE protocol = "SOAP" -> SoapVerdict(a)
                   [] protocol = "JSONRPC" -> JsonRpcVerdict(a, Judged(e, a))
                   [] protocol = "GRAPHQL" -> GraphqlVerdict(a, Judged(e, a))
                   [] OTHER -> HttpVerdict(a)

\* What a processor can have made of the envelope.
Rewritten(e) ==
    {[ok |-> IF "ok" \in w THEN TRUE ELSE e.ok,
      error |-> IF "error" \in w THEN Forged ELSE e.error,
      status |-> IF "status" \in w THEN Forged ELSE e.status,
      payload |-> IF "payload" \in w THEN <<Forged>> ELSE e.payload,
      body |-> IF "body" \in w THEN Forged ELSE e.body,
      json |-> IF "body" \in w THEN Forged ELSE e.json,
      details |-> IF "body" \in w THEN Forged ELSE e.details,
      protocol |-> p,
      url |-> IF "url" \in w THEN Forged ELSE e.url,
      whole |-> "remove" \notin w] :
        w \in SUBSET {"ok", "error", "status", "payload", "body", "url",
                      "remove"},
        p \in Protocols \cup {Forged}}

-----------------------------------------------------------------------------
Init == /\ protocol \in Protocols
        /\ scheme \in Schemes
        /\ pre \in Configs
        /\ post \in Configs
        /\ pc = "validate"
        /\ env = NewEnvelope(protocol)
        /\ key = None
        /\ wire = <<>>
        /\ answer = NoAnswer
        /\ outcome = None
        /\ ran = {}
        /\ logged = 0
        /\ raised = None

\* An exception leaves request().
Escape(exc) == /\ raised' = exc
               /\ pc' = "raised"

\* Mutant: the post-processor's config is not looked at before dispatch.
MalformedPre == pre = "malformed"

\* validated_processor_config, for both before either runs.
Malformed == pre = "malformed" \/ post = "malformed"

\* The boundary checks: unknown keywords, the url's type, resolve_protocol,
\* validate_protocol_info, validated_port, the processor configs, GCS data.
Validate ==
    /\ pc = "validate"
    /\ \/ Escape("CONFIG")
       \/ ~Malformed /\ pc' = "pre" /\ UNCHANGED raised
    /\ UNCHANGED <<args, env, key, wire, answer, outcome, ran, logged>>

SkipPre == /\ pc = "pre" /\ pre = "absent"
           /\ pc' = "dispatch"
           /\ UNCHANGED <<args, env, key, wire, answer, outcome, ran, logged, raised>>

\* Mutant: only the key set is checked.
CheckedForKeys(e, before) == e.whole

\* checked_envelope with `dispatch`: all keys, and protocol and url as resolved.
Checked(e, before) == /\ e.whole
                      /\ e.protocol = before.protocol
                      /\ e.url = before.url

PreProcess(e) ==
    /\ pc = "pre" /\ pre = "valid"
    /\ ran' = ran \cup {"pre"}
    /\ env' = e
    /\ \/ Checked(e, env) /\ pc' = "dispatch" /\ UNCHANGED raised
       \/ ~Checked(e, env) /\ Escape("PROCESSOR")
    /\ UNCHANGED <<args, key, wire, answer, outcome, logged>>

\* run_processor: an AsyncGatewayError passes, another Exception is wrapped,
\* a cancellation is neither.
ProcessorRaises ==
    /\ \/ pc = "pre" /\ pre = "valid" /\ ran' = ran \cup {"pre"}
       \/ pc = "closed" /\ post = "valid" /\ ran' = ran \cup {"post"}
    /\ \E exc \in {"PROCESSOR", "own", "cancelled"} : Escape(exc)
    /\ UNCHANGED <<args, env, key, wire, answer, outcome, logged>>

-----------------------------------------------------------------------------
\* dispatch_url_for: the JSON protocols need a scheme, SOAP takes any.
Dispatchable == /\ scheme # "relative"
                /\ IF scheme = "none" THEN protocol \notin {"JSONRPC", "GRAPHQL"}
                   ELSE scheme \in Allowlist(protocol)

TargetScheme ==
    IF protocol = "HTTPS" /\ scheme = "none" THEN "https" ELSE scheme

Lower(p) == CASE p = "HTTP" -> "http" [] p = "HTTPS" -> "https"
              [] p = "SOAP" -> "soap" [] OTHER -> p

\* Mutant: the family is not case-folded.
FamilyUnfolded(e) == IF TargetScheme = "none" THEN e.protocol ELSE TargetScheme

\* destination_of: the URL's own scheme, or the protocol read back from the
\* envelope.
Family(e) == IF TargetScheme = "none" THEN Lower(e.protocol) ELSE TargetScheme

\* What the protocol sends for a payload: build_envelope,
\* build_jsonrpc_request, build_graphql_request.
Document(payload) == CASE protocol = "SOAP" -> <<"envelope">> \o payload
                       [] protocol \in {"JSONRPC", "GRAPHQL"} ->
                            <<"call">> \o payload
                       [] OTHER -> payload

\* The JSON clients validate and build the document before the base class
\* looks the breaker up, and put it in the envelope.
BuildsFirst == protocol \in {"JSONRPC", "GRAPHQL"}

\* The protocol object is built: get_breaker, and the client's own validation,
\* which may refuse the call.
Dispatch ==
    /\ pc = "dispatch"
    /\ \/ ~Dispatchable /\ Escape("CONFIG") /\ UNCHANGED <<env, key>>
       \/ /\ Dispatchable
          /\ env' = [env EXCEPT !.url = "args",
                                !.payload = IF BuildsFirst THEN Document(@) ELSE @]
          /\ \/ key' = Family(env) /\ Escape("CONFIG")
             \/ BuildsFirst /\ UNCHANGED key /\ Escape("CONFIG")
             \/ key' = Family(env) /\ pc' = "inflight" /\ UNCHANGED raised
    /\ UNCHANGED <<args, wire, answer, outcome, ran, logged>>

\* What leaves the client.
Sent == IF BuildsFirst THEN env.payload ELSE Document(env.payload)

\* Mutant: every exception is converted.
ConvertedAll(o) == o # "good"

\* What `except AsyncGatewayError` catches; a RecursionError is made one.
Converted(o) == o \in (Verdicts \ {"good"}) \cup {"transport", "stack"}

\* The one conversion point around handle_request.
Close(e, o) ==
    /\ outcome' = o
    /\ \/ /\ o = "good"
          /\ env' = FinaliseOk(e)
          /\ pc' = "closed"
          /\ UNCHANGED <<logged, raised>>
       \/ /\ Converted(o)
          /\ env' = FinaliseError(e, o)
          /\ logged' = logged + 1
          /\ pc' = "closed"
          /\ UNCHANGED raised
       \/ /\ o # "good" /\ ~Converted(o)
          /\ env' = e
          /\ Escape(o)
          /\ UNCHANGED logged

\* _exchange has an answer; only an http or https URL can get one.
Answered(a) ==
    /\ pc = "inflight" /\ TargetScheme \in {"http", "https"}
    /\ wire' = Sent
    /\ answer' = a
    /\ LET e == Copied(env, a) IN Close(Detailed(e, a), Verdict(e, a))
    /\ UNCHANGED <<args, key, ran>>

\* handle_request fails or is cancelled.  A call that ends before it sends (an
\* open circuit, a refused option) has no `wire`.
HandleFails(o) ==
    /\ pc = "inflight"
    /\ wire' \in {Sent, <<>>}
    /\ Close(env, o)
    /\ UNCHANGED <<args, key, answer, ran>>

SkipPost == /\ pc = "closed" /\ post = "absent"
            /\ pc' = "returned"
            /\ UNCHANGED <<args, env, key, wire, answer, outcome, ran, logged, raised>>

\* What it writes is the caller's; only the keys are looked at again.
PostProcess(whole) ==
    /\ pc = "closed" /\ post = "valid"
    /\ ran' = ran \cup {"post"}
    /\ env' = [env EXCEPT !.whole = whole]
    /\ \/ whole /\ pc' = "returned" /\ UNCHANGED raised
       \/ ~whole /\ Escape("PROCESSOR")
    /\ UNCHANGED <<args, key, wire, answer, outcome, logged>>

Next == \/ Validate
        \/ SkipPre
        \/ \E e \in Rewritten(env) : PreProcess(e)
        \/ ProcessorRaises
        \/ Dispatch
        \/ \E a \in Answers(protocol) : Answered(a)
        \/ \E o \in Failures : HandleFails(o)
        \/ SkipPost
        \/ \E whole \in BOOLEAN : PostProcess(whole)

Spec == Init /\ [][Next]_vars

-----------------------------------------------------------------------------
(* Properties.                                                             *)

\* The variables keep their types; a call is logged at most once and the
\* family a breaker is keyed by is the lower-case name of a transport.
TypeOK ==
    /\ protocol \in Protocols
    /\ scheme \in Schemes
    /\ {pre, post} \subseteq Configs
    /\ pc \in {"validate", "pre", "dispatch", "inflight", "closed", "returned",
               "raised"}
    /\ key \in {None, "http", "https", "ftp", "soap"}
    /\ answer \in Answers(protocol) \cup {NoAnswer}
    /\ outcome \in Verdicts \cup Failures \cup {None}
    /\ ran \subseteq {"pre", "post"}
    /\ logged \in 0..1
    /\ raised \in {None, "CONFIG", "PROCESSOR", "own", "defect", "cancelled"}

\* A closed envelope tells how the call ended, whatever the pre-processor had
\* written to it: ok and error agree with the outcome and each other (the
\* GatewayResponse docstring), and the status is the remote's whenever the
\* verdict is about an answer's status (finalise_ok, finalise_error, _seal).
EnvelopeHonest ==
    pc = "closed" =>
        /\ env.ok <=> outcome = "good"
        /\ env.error = IF outcome = "good" THEN None ELSE outcome
        /\ env.status = IF outcome \in WithStatus THEN "remote" ELSE "mapped"

\* An answer's body reaches the caller also when the answer is a failure
\* (invariant E11 of finalise_error, _copy_into_envelope).
BodyKept == pc = "closed" /\ answer # NoAnswer => env.body = "remote"

\* Success is the peer's own: no 4xx or 5xx, no Fault, error object or errors
\* list is ever reported as ok, and a JSON protocol's success is a result the
\* peer sent.  The exception is a JSON-RPC answer that is no JSON: what a
\* pre-processor left in the envelope's json is then judged in its place.
PeerSaidSo ==
    pc = "closed" /\ env.ok =>
        /\ answer.status # "4xx"
        /\ protocol = "SOAP" => answer.doc # "error"
        /\ protocol \in {"JSONRPC", "GRAPHQL"} =>
              \/ answer.doc = "result" /\ env.json = "remote"
              \/ protocol = "JSONRPC" /\ ~IsJson(answer.media) /\ env.json = Forged

\* A peer's error that its protocol lets be read is reported as that, with the
\* answer's status and the error in protocol_details, also where the status
\* alone would be a failure; GraphQL trusts an error status only with its own
\* media type.
PeerErrorTyped ==
    pc = "closed" /\ answer.doc = "error" =>
        \/ /\ env.error = "peerError"
           /\ env.status = "remote"
           /\ env.details = "error"
        \/ protocol \in {"HTTP", "HTTPS"}
        \/ protocol \in {"JSONRPC", "GRAPHQL"} /\ ~IsJson(answer.media)
        \/ protocol = "GRAPHQL" /\ answer.media \in {"json", "problem"}
             /\ (answer.media = "json" => answer.status # "2xx")

\* The payload goes out as the caller or the pre-processor left it, in one
\* document of the protocol, and comes back masked (the module docstring of
\* envelope.py: masked at close, never at construction).
MaskedOnlyInEcho ==
    /\ wire \in {<<>>} \cup {Document(<<p>>) : p \in {"data", Forged}}
    /\ pc = "closed" => env.payload = <<"masked">>

\* The breaker a call uses depends on its arguments alone: a pre-processor
\* cannot count one protocol's failures against another (checked_envelope).
KeyedByArguments == key # None => key = Family(NewEnvelope(protocol))

\* A malformed processor config is refused before any processor has run and
\* before anything is sent (the request() docstring).
RefusedUnsent ==
    pre = "malformed" \/ post = "malformed"
        => ran = {} /\ key = None /\ wire = <<>>

\* A failure is logged exactly when it becomes an envelope: one that escapes
\* is reported once, by escaping (the request() docstring, log_failure).
LoggedIffEnvelope ==
    logged = 1 <=> outcome \in (Verdicts \cup {"transport", "stack"}) \ {"good"}

\* The envelope tells what happened in this call and nothing else: verdict,
\* body and log record agree with the answer or the failure.
EnvelopeInv == TypeOK /\ EnvelopeHonest /\ BodyKept /\ LoggedIffEnvelope

\* The peer's own judgement is the one reported, as success and as error.
PeerJudged == PeerSaidSo /\ PeerErrorTyped

\* What goes out depends on the arguments of the call: its breaker and
\* destination are theirs, and arguments that are refused send nothing.
ArgumentsDecide == KeyedByArguments /\ RefusedUnsent
=============================================================================
