------------------------- MODULE HttpExchangeProofs -------------------------
(***************************************************************************)
(* Proofs about HttpExchange, for every set of origins and schemes, every  *)
(* verb, limit of redirects, timeout and number of retries.                *)
(***************************************************************************)
EXTENDS HttpExchange, TLAPS

-----------------------------------------------------------------------------
(* The inductive invariant.                                                *)

Over == {"failed", "refused", "done"}

Types ==
    /\ pc \in {"issue", "inflight", "reading"} \cup Over
    /\ verb \in Verbs
    /\ target \in Origins
    /\ hop \in 0 .. MaxRedirects
    /\ body \in {"none", "unread", "read"}
    /\ headers \subseteq HeaderKinds
    /\ left \in 0 .. Total /\ allowance \in 0 .. Total /\ elapsed \in Nat
    /\ retries \in 0 .. AllowedRetries
    /\ visited \subseteq Origins
    /\ followed \in 0 .. MaxRedirects
    /\ rule \in {"none", "get", "repeat"}

Flags == /\ cookies \in BOOLEAN /\ auth \in BOOLEAN
         /\ redirected \in BOOLEAN /\ traced \in BOOLEAN /\ emptied \in BOOLEAN

\* The hops share one deadline, and a hop's own timeout is what is left of it.
TimeInv ==
    /\ left + elapsed = Total
    /\ pc \in {"inflight", "reading"} => allowance = left

\* Credentials are still there only if no origin was crossed; the request in
\* flight is one of those visited, and every next one has an allowed scheme.
OriginInv ==
    /\ auth \/ cookies \/ "secret" \in headers
         => target = Start /\ visited \subseteq {Start}
    /\ pc \in {"inflight", "reading"} => target \in visited
    /\ SchemeOf[target] \in AllowedSchemes
    /\ SchemesChecked

\* A hop about to be issued has a body nobody has read.
BodyInv ==
    /\ pc = "issue" => body # "read"
    /\ BodyRebuilt

\* The event of the last hop followed waits for the end of the attempt, and the
\* flag is down once the attempt has issued a request.
RedirectInv ==
    /\ followed <= hop
    /\ redirected <=> followed > 0
    /\ visited # {} /\ pc \notin Over => ~traced
    /\ TracedIffFollowed

Inv == Types /\ Flags /\ TimeInv /\ OriginInv /\ BodyInv /\ RedirectInv

USE DEF Over, Verbs, Redirects, Statuses, HeaderKinds, locals, history,
        TimeInv, OriginInv, SchemesChecked, BodyInv, BodyRebuilt,
        BodyIsReplayable, BodylessUntilRepeated, RedirectInv, TracedIffFollowed

-----------------------------------------------------------------------------
\* What build_body() makes has not been read.
LEMMA BuiltBodyFresh == BuiltBody \in {"none", "unread"}
BY DEF BuiltBody

\* The first attempt is about to issue its first request.
LEMMA InitInv == Init => Inv
<1> SUFFICES ASSUME Init PROVE Inv
    OBVIOUS
<1>1. Types
    BY StartAssumption, BoundsAssumption, VerbAssumption, BuiltBodyFresh
       DEF Init, Types
<1>2. Flags
    BY Zenon DEF Init, Flags
<1>3. TimeInv /\ OriginInv /\ BodyInv /\ RedirectInv
    BY StartAssumption, BoundsAssumption, BuiltBodyFresh DEF Init
<1>4. QED
    BY <1>1, <1>2, <1>3 DEF Inv

\* A request goes out.
LEMMA IssueInv ==
    ASSUME Inv, Issue
    PROVE  Inv'
<1>1. Types'
    BY BoundsAssumption DEF Issue, HopDeadline, Inv, Types
<1>2. Flags'
    BY Zenon DEF Issue, HopDeadline, Inv, Flags
<1>3. TimeInv'
    BY BoundsAssumption DEF Issue, HopDeadline, Inv, Types
<1>4. OriginInv'
    BY BoundsAssumption DEF Issue, HopDeadline, Inv, Types
<1>5. BodyInv'
    BY BoundsAssumption DEF Issue, HopDeadline, Inv, Types
<1>6. RedirectInv'
    BY BoundsAssumption DEF Issue, HopDeadline, Inv, Types
<1>7. QED
    BY <1>1, <1>2, <1>3, <1>4, <1>5, <1>6 DEF Inv

\* Time passes.
LEMMA TickInv ==
    ASSUME Inv, Tick
    PROVE  Inv'
<1>1. Types'
    BY BoundsAssumption DEF Tick, Inv, Types
<1>2. Flags'
    BY Zenon DEF Tick, Inv, Flags
<1>3. TimeInv'
    BY BoundsAssumption DEF Tick, Inv, Types
<1>4. OriginInv'
    BY BoundsAssumption DEF Tick, Inv, Types
<1>5. BodyInv'
    BY BoundsAssumption DEF Tick, Inv, Types
<1>6. RedirectInv'
    BY BoundsAssumption DEF Tick, Inv, Types
<1>7. QED
    BY <1>1, <1>2, <1>3, <1>4, <1>5, <1>6 DEF Inv

\* The attempt ends: its finally records the redirect it followed, if any.
LEMMA LeaveInv ==
    ASSUME Inv, NEW how \in Over, pc \notin Over, Leave(how),
           hop' \in hop .. MaxRedirects
    PROVE  Inv'
<1> USE DEF Leave, RecordRedirect
<1>1. Types'
    BY BoundsAssumption DEF Inv, Types
<1>2. Flags'
    BY Zenon DEF Inv, Flags
<1>3. TimeInv' /\ OriginInv' /\ BodyInv'
    BY DEF Inv
<1>4. RedirectInv'
    <2>1. followed <= hop'
        BY DEF Inv, Types
    <2>2. visited # {} => (traced' <=> redirected)
        BY DEF Inv
    <2>3. QED
        BY <2>1, <2>2 DEF Inv
<1>5. QED
    BY <1>1, <1>2, <1>3, <1>4 DEF Inv

\* The ways an attempt ends: no time is left, the transport fails, the chain is
\* too long, the Location is refused, or the body is read or refused.
LEMMA EndingInv ==
    ASSUME Inv,
           \/ OutOfTime \/ TransportFails \/ ReadDone \/ TooManyRedirects
           \/ \E location : RefuseTarget(location)
    PROVE  Inv'
<1>1. CASE OutOfTime \/ TransportFails \/ ReadDone \/ TooManyRedirects
    <2>1. PICK how \in Over : Leave(how)
        BY <1>1 DEF OutOfTime, TransportFails, ReadDone, TooManyRedirects
    <2>2. pc \notin Over /\ hop' = hop
        BY <1>1 DEF OutOfTime, TransportFails, ReadDone, TooManyRedirects
    <2>3. hop' \in hop .. MaxRedirects
        BY <2>2, BoundsAssumption DEF Inv, Types
    <2>4. QED
        BY <2>1, <2>2, <2>3, LeaveInv
<1>2. ASSUME NEW location, RefuseTarget(location) PROVE Inv'
    <2>1. pc \notin Over /\ Leave("refused") /\ hop' = hop + 1
        BY <1>2 DEF RefuseTarget
    <2>2. hop' \in hop .. MaxRedirects
        BY <1>2, <2>1, BoundsAssumption DEF RefuseTarget, OverLimit, Inv, Types
    <2>3. QED
        BY <2>1, <2>2, LeaveInv
<1>3. QED
    BY <1>1, <1>2

\* A response that is not followed.
LEMMA ArriveInv ==
    ASSUME Inv, Arrive
    PROVE  Inv'
<1>1. Types'
    BY DEF Arrive, Inv, Types
<1>2. Flags'
    BY Zenon DEF Arrive, Inv, Flags
<1>3. TimeInv'
    BY DEF Arrive, Inv, Types
<1>4. OriginInv'
    BY DEF Arrive, Inv, Types
<1>5. BodyInv'
    BY DEF Arrive, Inv, Types
<1>6. RedirectInv'
    BY DEF Arrive, Inv, Types
<1>7. QED
    BY <1>1, <1>2, <1>3, <1>4, <1>5, <1>6 DEF Inv

\* A redirect is followed.
LEMMA FollowInv ==
    ASSUME Inv, NEW status, NEW following \in Origins, Follow(status, following)
    PROVE  Inv'
<1>1. Types'
    <2>1. hop' \in 0 .. MaxRedirects /\ followed' \in 0 .. MaxRedirects
        BY BoundsAssumption DEF Follow, OverLimit, Inv, Types
    <2>2. body' \in {"none", "unread"} /\ verb' \in Verbs
        BY BuiltBodyFresh DEF Follow, NextBody, Inv, Types
    <2>3. headers' \subseteq HeaderKinds
        BY DEF Follow, Forwarded, Inv, Types
    <2>4. QED
        BY <2>1, <2>2, <2>3 DEF Follow, Inv, Types
<1>2. Flags'
    BY Zenon
       DEF Follow, OverLimit, SchemeAllowed, BecomesGet, NextBody, Crosses,
           Forwarded, Inv, Flags
<1>3. TimeInv'
    BY BoundsAssumption, BuiltBodyFresh
       DEF Follow, OverLimit, SchemeAllowed, BecomesGet, NextBody, Crosses,
           Forwarded, Inv, Types
<1>4. OriginInv'
    BY BoundsAssumption, BuiltBodyFresh
       DEF Follow, OverLimit, SchemeAllowed, BecomesGet, NextBody, Crosses,
           Forwarded, Inv, Types
<1>5. BodyInv'
    BY BoundsAssumption, BuiltBodyFresh
       DEF Follow, OverLimit, SchemeAllowed, BecomesGet, NextBody, Crosses,
           Forwarded, Inv, Types
<1>6. RedirectInv'
    BY BoundsAssumption, BuiltBodyFresh
       DEF Follow, OverLimit, SchemeAllowed, BecomesGet, NextBody, Crosses,
           Forwarded, Inv, Types
<1>7. QED
    BY <1>1, <1>2, <1>3, <1>4, <1>5, <1>6 DEF Inv

\* The attempt is made again, from the caller's own arguments.
LEMMA RetryInv ==
    ASSUME Inv, Retry
    PROVE  Inv'
<1>1. Types'
    BY StartAssumption, BoundsAssumption, VerbAssumption, BuiltBodyFresh
       DEF Retry, Inv, Types
<1>2. Flags'
    BY Zenon DEF Retry, Inv, Flags
<1>3. TimeInv'
    BY StartAssumption, BoundsAssumption, VerbAssumption, BuiltBodyFresh
       DEF Retry, Inv, Types
<1>4. OriginInv'
    BY StartAssumption, BoundsAssumption, VerbAssumption, BuiltBodyFresh
       DEF Retry, Inv, Types
<1>5. BodyInv'
    BY StartAssumption, BoundsAssumption, VerbAssumption, BuiltBodyFresh
       DEF Retry, Inv, Types
<1>6. RedirectInv'
    BY StartAssumption, BoundsAssumption, VerbAssumption, BuiltBodyFresh
       DEF Retry, Inv, Types
<1>7. QED
    BY <1>1, <1>2, <1>3, <1>4, <1>5, <1>6 DEF Inv

\* Inv is inductive.
LEMMA NextInv == Inv /\ [Next]_vars => Inv'
<1> SUFFICES ASSUME Inv, [Next]_vars PROVE Inv'
    OBVIOUS
<1>1. CASE Answer
    BY <1>1, ArriveInv, FollowInv, EndingInv DEF Answer
<1>2. CASE UNCHANGED vars
    BY <1>2 DEF vars, Inv, Types, Flags
<1>3. QED
    BY <1>1, <1>2, IssueInv, TickInv, EndingInv, RetryInv DEF Next

-----------------------------------------------------------------------------
(* The theorems.                                                           *)

HIDE DEF SchemesChecked, BodyRebuilt, BodyIsReplayable, BodylessUntilRepeated,
         TracedIffFollowed, TimeInv, OriginInv, BodyInv, RedirectInv

\* The strengthened invariant holds throughout every exchange.
THEOREM Invariance == Spec => []Inv
BY InitInv, NextInv, PTL DEF Spec

\* However a server redirects, a request carries the caller's credentials only
\* while the whole chain of its attempt has stayed on the caller's origin.
THEOREM SpecCredentials == Spec => []CredentialsStayHome
<1>1. Inv => CredentialsStayHome
    BY DEF Inv, OriginInv, CredentialsStayHome
<1>2. QED
    BY <1>1, Invariance, PTL

\* However many hops an attempt makes, together they do not outlast the timeout.
THEOREM SpecDeadline == Spec => []OneDeadline
<1>1. Inv => OneDeadline
    BY BoundsAssumption DEF Inv, Types, TimeInv, OneDeadline
<1>2. QED
    BY <1>1, Invariance, PTL

\* No hop and no retry sends a body that was already read, and none goes with
\* the GET a redirect has made of a POST.
THEOREM SpecBody == Spec => []BodyRebuilt
<1>1. Inv => BodyRebuilt
    BY DEF Inv, BodyInv
<1>2. QED
    BY <1>1, Invariance, PTL

\* The chain keeps its types and bounds, visits allowed schemes only, and leaves
\* is_redirect true exactly when it followed a hop.
THEOREM SpecChain == Spec => []ChainInv
<1>1. Inv => TypeOK
    BY DEF Inv, Types, Flags, TypeOK
<1>2. Inv => ChainInv
    BY <1>1 DEF Inv, OriginInv, RedirectInv, ChainInv
<1>3. QED
    BY <1>2, Invariance, PTL
=============================================================================
