------------------------------ MODULE Verdicts ------------------------------
(***************************************************************************)
(* What the clients that speak over HTTP make of an answer: HttpRequest    *)
(* (logic/http_client.py), SoapRequest (soap_client.py), JsonRpcRequest    *)
(* (jsonrpc_client.py) and GraphqlRequest (graphql_client.py).             *)
(*                                                                         *)
(* An answer has a status class ("4xx" is 400 and above), a text that its  *)
(* charset decodes or not, a media type, and in the text a document of the *)
(* protocol: its result, its error (a SOAP Fault, an error object, an      *)
(* errors list), something else, nothing at all, a DOCTYPE, or no XML or   *)
(* JSON.                                                                   *)
(***************************************************************************)

Documents == {"result", "error", "invalid", "empty", "doctype", "unparsable"}

\* application/json, application/graphql-response+json, another +json type,
\* anything else.
MediaTypes == {"json", "graphql", "problem", "other"}

\* is_json_media_type
IsJson(media) == media # "other"

Answers(protocol) ==
    {a \in [status: {"2xx", "3xx", "4xx"}, decodes: BOOLEAN, media: MediaTypes,
            doc: Documents] :
        /\ ~a.decodes => a.doc = "unparsable"
        /\ a.doc = "doctype" => protocol = "SOAP"}

Verdicts == {"good", "undecodable", "refused", "protocol", "peerError", "unsafe"}

\* The ones whose exception carries the answer's own status.
WithStatus == {"good", "refused", "peerError"}

-----------------------------------------------------------------------------
\* _copy_into_envelope: a charset or JSON failure is kept for _response_error.
BodyError(a) == ~a.decodes \/ (IsJson(a.media) /\ a.doc = "unparsable")

\* The envelope's json is only assigned when there is JSON.
JsonFrom(a) == IsJson(a.media) /\ ~BodyError(a)

\* _response_error of HttpRequest: the status comes before the body's failure.
HttpVerdict(a) == IF a.status = "4xx" THEN "refused"
                  ELSE IF BodyError(a) THEN "undecodable" ELSE "good"

\* _response_error of JsonRpcRequest; `doc` is what validated_jsonrpc_response
\* finds in the envelope's json: a result, an error with the request's id, or
\* something it refuses.
JsonRpcVerdict(a, doc) ==
    IF ~BodyError(a) /\ doc = "error" THEN "peerError"
    ELSE IF a.status = "4xx" THEN "refused"
    ELSE IF BodyError(a) \/ doc # "result" THEN "protocol" ELSE "good"

\* Mutant: an answer that is not 2xx is judged by its status alone.
GraphqlVerdictByStatus(a, doc) ==
    IF a.status # "2xx" THEN "refused"
    ELSE IF a.media \notin {"json", "graphql"} THEN "protocol"
    ELSE IF ~BodyError(a) /\ doc = "error" THEN "peerError"
    ELSE IF BodyError(a) \/ doc # "result" THEN "protocol" ELSE "good"

\* _response_error of GraphqlRequest, with validated_graphql_response.
GraphqlVerdict(a, doc) ==
    IF a.status = "2xx" /\ a.media \notin {"json", "graphql"} THEN "protocol"
    ELSE IF /\ ~BodyError(a) /\ doc = "error"
            /\ a.status = "2xx" \/ a.media = "graphql" THEN "peerError"
    ELSE IF a.status # "2xx" THEN "refused"
    ELSE IF BodyError(a) \/ doc # "result" THEN "protocol" ELSE "good"

\* parse_soap_response: text that does not begin with markup is no document,
\* and an Envelope without a Body, or with an empty one, has no result either.
SoapDocument(a) == IF ~a.decodes THEN "unparsable" ELSE a.doc

\* Mutant: a Fault counts only with an error status.
SoapVerdictByStatus(a) ==
    CASE SoapDocument(a) \in {"unparsable", "invalid"} -> "undecodable"
      [] SoapDocument(a) = "doctype" -> "unsafe"
      [] OTHER -> IF a.status # "4xx" THEN "good"
                  ELSE IF SoapDocument(a) = "error" THEN "peerError"
                  ELSE "refused"

\* _answer of SoapRequest: a Fault is one whatever the status.
SoapVerdict(a) ==
    CASE SoapDocument(a) \in {"unparsable", "invalid"} -> "undecodable"
      [] SoapDocument(a) = "doctype" -> "unsafe"
      [] SoapDocument(a) = "error" -> "peerError"
      [] OTHER -> IF a.status = "4xx" THEN "refused" ELSE "good"
=============================================================================
