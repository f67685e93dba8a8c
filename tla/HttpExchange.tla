---------------------------- MODULE HttpExchange ----------------------------
(***************************************************************************)
(* make_http_request (helpers/internal/request_helper.py): one attempt at  *)
(* an HTTP exchange, following redirects in the library's own loop, and    *)
(* the retry that re-invokes it.                                           *)
(*                                                                         *)
(* The server is the environment: it answers any request with any status   *)
(* and any Location.  A URL is known by its origin (scheme, host, port).   *)
(* Request headers are of three kinds: "safe" (on the cross-origin         *)
(* allowlist), "forward" (the caller declared it safe to forward) and      *)
(* "secret" (anything else).                                               *)
(***************************************************************************)
EXTENDS Integers, FiniteSets

CONSTANTS
    Origins,        \* origins a Location may name
    Start,          \* the origin of the caller's URL
    SchemeOf,       \* [Origins -> schemes]
    AllowedSchemes,
    StartVerb,      \* request_type
    AllowRedirects,
    MaxRedirects,
    Total,          \* timeout.total
    AllowedRetries  \* how often run() may invoke the attempt again

ASSUME StartAssumption == Start \in Origins /\ SchemeOf[Start] \in AllowedSchemes
ASSUME BoundsAssumption == /\ AllowRedirects \in BOOLEAN
                           /\ MaxRedirects \in Nat
                           /\ Total \in Nat
                           /\ AllowedRetries \in Nat

Verbs == {"GET", "HEAD", "POST", "PUT"}
ASSUME VerbAssumption == StartVerb \in Verbs

Redirects == {301, 302, 303, 307, 308}
Statuses == {200} \cup Redirects
Blank == "blank"              \* no Location, or one that strips to nothing
Unparseable == "unparseable"
HeaderKinds == {"safe", "forward", "secret"}

VARIABLES
    pc,
    verb, target, hop,            \* locals of make_http_request
    body,                         \* body_filters: "none", "unread" or "read"
    headers, cookies, auth,       \* hop_headers, hop_cookies, hop_auth
    left,                         \* deadline - time.monotonic()
    allowance,                    \* what is left of this hop's own timeout
    redirected,                   \* redirected_at is not None
    traced,                       \* the collector's 'is_redirect'
    retries,
    elapsed,                      \* history: time since the attempt began
    visited,                      \* history: origins the attempt requested
    followed,                     \* history: hops followed
    rule,                         \* history: how the last hop was re-issued,
                                  \* "get" or "repeat", or "none"
    emptied                       \* history: a body already read was sent

locals == <<verb, target, hop, body, headers, cookies, auth>>
history == <<elapsed, visited, followed, rule, emptied>>
vars == <<pc, verb, target, hop, body, headers, cookies, auth, left, allowance,
          redirected, traced, retries, elapsed, visited, followed, rule, emptied>>

\* build_body() builds for the request type the caller asked for; a
\* GET's payload travels in the query string, which no later hop carries.
BuiltBody == IF StartVerb \in {"POST", "PUT"} THEN "unread" ELSE "none"

\* The locals and the deadline an invocation starts from.
Init == /\ pc = "issue"
        /\ verb = StartVerb
        /\ target = Start
        /\ hop = 0
        /\ body = BuiltBody
        /\ headers = HeaderKinds
        /\ cookies = TRUE
        /\ auth = TRUE
        /\ left = Total
        /\ allowance = 0
        /\ redirected = FALSE
        /\ traced = FALSE
        /\ retries = 0
        /\ elapsed = 0
        /\ visited = {}
        /\ followed = 0
        /\ rule = "none"
        /\ emptied = FALSE

-----------------------------------------------------------------------------
\* Mutant: every hop is given the whole timeout afresh.
HopDeadlineAfresh == Total

\* hop_deadline: what is left of the one deadline the chain has.
HopDeadline == left

\* The next request goes out with what the locals hold; on_request_start
\* resets the collector's flag.
Issue == /\ pc = "issue"
         /\ left > 0
         /\ pc' = "inflight"
         /\ allowance' = HopDeadline
         /\ emptied' = (emptied \/ body = "read")
         /\ body' = IF body = "unread" THEN "read" ELSE body
         /\ traced' = FALSE
         /\ visited' = visited \cup {target}
         /\ UNCHANGED <<verb, target, hop, headers, cookies, auth, left,
                        redirected, retries, elapsed, followed, rule>>

\* Mutant: the redirect is recorded only when the exchange returns.
RecordRedirectOnReturn(how) == traced' = (traced \/ (redirected /\ how = "done"))

\* record_redirect writes the event measured at the last hop followed.
RecordRedirect(how) == traced' = (traced \/ redirected)

\* The attempt ends, one way or another; its finally records the redirect.
Leave(how) == /\ pc' = how
              /\ RecordRedirect(how)
              /\ UNCHANGED <<verb, target, body, headers, cookies, auth, left,
                             allowance, redirected, retries, history>>

\* hop_deadline raises: no time is left between two hops.
OutOfTime == pc = "issue" /\ left <= 0 /\ Leave("failed") /\ UNCHANGED hop

\* Time passes while a request is in flight or its body is read, until the
\* hop's own timeout ends it, and while the next hop's body is built, where
\* no timeout runs; past the deadline it makes no further difference there.
Tick == /\ \/ pc \in {"inflight", "reading"} /\ allowance > 0
           \/ pc = "issue" /\ left > 0
        /\ allowance' = IF pc = "issue" THEN allowance ELSE allowance - 1
        /\ left' = left - 1
        /\ elapsed' = elapsed + 1
        /\ UNCHANGED <<pc, locals, redirected, traced, retries, visited,
                       followed, rule, emptied>>

\* The transport fails or times out.
TransportFails == pc \in {"inflight", "reading"} /\ Leave("failed") /\ UNCHANGED hop

-----------------------------------------------------------------------------
\* after_redirect: which answers are re-issued as a bodyless GET.
BecomesGet(status) == \/ status \in {301, 302} /\ verb = "POST"
                      \/ status = 303 /\ verb # "HEAD"

\* Mutant: the body of the previous hop is sent again.
NextBodyReused(status) == IF BecomesGet(status) THEN "none" ELSE body

\* Mutant: what was built for the hop is sent although it became a GET.
NextBodyAsBuilt(status) == BuiltBody

\* The body of the next hop, built afresh.
NextBody(status) == IF BecomesGet(status) THEN "none" ELSE BuiltBody

\* same_origin(target, following) is false.
Crosses(following) == target # following

\* Mutant: crossing keeps every header.
ForwardedAll(hs) == hs

\* cross_origin_headers: the allowlist and what the caller added to it.
Forwarded(hs) == hs \cap {"safe", "forward"}

\* Mutant: the hop is counted after it was compared.
OverLimitLate == hop > MaxRedirects

OverLimit == hop >= MaxRedirects

\* The answer names a hop to follow; a blank Location is absent.
Redirected(status, location) ==
    AllowRedirects /\ status \in Redirects /\ location # Blank

\* A response that is not followed: its body is read.
Arrive == /\ pc = "inflight"
          /\ pc' = "reading"
          /\ UNCHANGED <<locals, left, allowance, redirected, traced, retries,
                         history>>

TooManyRedirects == pc = "inflight" /\ OverLimit /\ Leave("failed") /\ UNCHANGED hop

\* Mutant: any scheme may be followed.
SchemeAllowedAny(following) == TRUE

SchemeAllowed(following) == SchemeOf[following] \in AllowedSchemes

\* redirect_target refuses the Location: ConfigurationError, which run()
\* never retries.
RefuseTarget(location) ==
    /\ pc = "inflight"
    /\ ~OverLimit
    /\ location \in Origins => ~SchemeAllowed(location)
    /\ hop' = hop + 1
    /\ Leave("refused")

\* A redirect is followed.
Follow(status, following) ==
    /\ pc = "inflight"
    /\ ~OverLimit
    /\ SchemeAllowed(following)
    /\ hop' = hop + 1
    /\ redirected' = TRUE
    /\ verb' = IF BecomesGet(status) THEN "GET" ELSE verb
    /\ body' = NextBody(status)
    /\ IF Crosses(following)
       THEN /\ headers' = Forwarded(headers)
            /\ cookies' = FALSE
            /\ auth' = FALSE
       ELSE UNCHANGED <<headers, cookies, auth>>
    /\ target' = following
    /\ pc' = "issue"
    /\ followed' = followed + 1
    /\ rule' = IF BecomesGet(status) THEN "get" ELSE "repeat"
    /\ UNCHANGED <<left, allowance, traced, retries, elapsed, visited, emptied>>

\* The server's answer, with redirects allowed.
Answer == \E status \in Statuses, location \in Origins \cup {Blank, Unparseable} :
    \/ ~Redirected(status, location) /\ Arrive
    \/ /\ Redirected(status, location)
       /\ \/ TooManyRedirects
          \/ RefuseTarget(location)
          \/ location \in Origins /\ Follow(status, location)

\* read_response returns, or refuses the body (over the cap, multipart).
ReadDone == /\ pc = "reading"
            /\ Leave("done") \/ Leave("refused")
            /\ UNCHANGED hop

\* run() invokes make_http_request again: everything starts over, the
\* deadline included.
Retry == /\ pc = "failed"
         /\ retries < AllowedRetries
         /\ retries' = retries + 1
         /\ pc' = "issue"
         /\ verb' = StartVerb /\ target' = Start /\ hop' = 0
         /\ body' = BuiltBody
         /\ headers' = HeaderKinds /\ cookies' = TRUE /\ auth' = TRUE
         /\ left' = Total /\ allowance' = 0
         /\ redirected' = FALSE
         /\ elapsed' = 0 /\ visited' = {} /\ followed' = 0 /\ rule' = "none"
         /\ UNCHANGED <<traced, emptied>>

Next == Issue \/ OutOfTime \/ Tick \/ TransportFails \/ Answer \/ ReadDone \/ Retry

Spec == Init /\ [][Next]_vars

-----------------------------------------------------------------------------
(* Properties.                                                             *)

\* The types of the variables; counters stay within their bounds.
TypeOK ==
    /\ pc \in {"issue", "inflight", "reading", "failed", "refused", "done"}
    /\ verb \in Verbs
    /\ target \in Origins
    /\ hop \in 0 .. MaxRedirects
    /\ body \in {"none", "unread", "read"}
    /\ headers \subseteq HeaderKinds
    /\ cookies \in BOOLEAN /\ auth \in BOOLEAN
    /\ left \in 0 .. Total
    /\ allowance \in 0 .. Total
    /\ redirected \in BOOLEAN /\ traced \in BOOLEAN
    /\ retries \in 0 .. AllowedRetries
    /\ elapsed \in Nat
    /\ visited \subseteq Origins
    /\ followed \in 0 .. MaxRedirects
    /\ rule \in {"none", "get", "repeat"} /\ emptied \in BOOLEAN

\* "Crossing an origin also drops the caller's cookies and auth outright
\* and reduces the headers to cross_origin_headers' allowlist": a request
\* carries a credential only while the whole chain has stayed on the
\* caller's own origin; coming back to it restores nothing.
CredentialsStayHome ==
    pc = "inflight" /\ (auth \/ cookies \/ "secret" \in headers)
        => visited = {Start}

\* Every request goes to an allowed scheme, the Locations a server chose
\* included, and a refused one is never requested.
SchemesChecked == \A o \in visited : SchemeOf[o] \in AllowedSchemes

\* The timeout "bounds the chain, not each hop": the hops of one attempt
\* together never outlast it.
OneDeadline == elapsed <= Total

\* "Every hop builds its own body": no hop and no retry sends a body an
\* earlier request has already read.
BodyIsReplayable == ~emptied

\* "After the loop, however it ended": an attempt that issued a request
\* leaves is_redirect true exactly when it followed a hop, although every
\* request, a retry's too, resets the flag; a refused hop is not one.
TracedIffFollowed ==
    pc \in {"failed", "refused", "done"} /\ visited # {}
        => (traced <=> followed > 0)

\* A 303, or a 301 or 302 answering a POST, is "re-issued as a bodyless
\* GET": such a hop never carries the body.  The code does not promise more:
\* build_body() builds for the caller's verb, so the next 301, 302, 307 or
\* 308 sends the GET on with the POST's body.
BodylessUntilRepeated ==
    body # "none" => rule # "get" /\ (verb # StartVerb => rule = "repeat")

\* What build_body() gives each hop: a body that can still be sent, and none
\* with the GET a redirect has made of a POST.
BodyRebuilt == BodyIsReplayable /\ BodylessUntilRepeated

\* The state of the chain: its types and bounds, the schemes it visited and
\* the redirect flag it leaves in the trace.
ChainInv == TypeOK /\ SchemesChecked /\ TracedIffFollowed
=============================================================================
