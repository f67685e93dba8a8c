-------------------------- MODULE SdkSessionProofs --------------------------
(***************************************************************************)
(* Proofs about SdkSession, for every number of attempts and of            *)
(* cancellations.                                                          *)
(***************************************************************************)
EXTENDS SdkSession, TLAPS

-----------------------------------------------------------------------------
(* The inductive invariant.                                                *)

\* Before the client is open, while it is in use, and once it is closed.
Before == {"start", "enter"}
Using == {"admit", "backoff", "call", "stream", "inner", "landing", "outer",
          "settle", "public", "judge"}
After == {"parse", "fill"}

\* Where nothing has been raised yet.
Unraised == Before \cup After
              \cup {"admit", "backoff", "call", "stream", "judge"}

\* The awaits of something shielded, which note a cancellation.
Shields == {"inner", "landing", "outer", "close"}

Types ==
    /\ TypeOK
    /\ pc \in Before \cup Using \cup After \cup {"close", "ended"}
    /\ exit \in {None, "clean", "error", "suppressed"}
    /\ cancels \in Nat /\ bodyCloses \in Nat

\* The client is open exactly between the two: its close is run once.
ClientLife ==
    /\ pc \in Before => client = "none" /\ closes = 0 /\ exit = None
    /\ pc \in Using => client = "open" /\ closes = 0 /\ exit = None
    /\ pc = "close" => \/ client = "open" /\ closes = 0 /\ exit = None
                       \/ client = "closed" /\ closes = 1 /\ exit # None
    /\ pc \in After => client = "closed" /\ exit = "clean"
    /\ pc = "ended" => \/ client = "none" /\ exit = None
                       \/ client = "closed" /\ exit # None

\* A body is open only while its attempt streams it, an RPC is live only while
\* its attempt awaits it, and an attempt that may still open a body has not
\* used up its close.
AttemptLife ==
    /\ body = "open" => pc \in {"stream", "inner", "landing", "outer"}
    /\ rpc = "live" => pc = "call" /\ kind = "grpc"
    /\ bodyCloses <= attempt
    /\ body = "open" \/ pc \in Before \cup {"admit", "backoff", "call"}
         => bodyCloses < attempt

\* A cancellation that was not dropped is on its way: it is being raised, or is
\* noted by a shielded wait where nothing outranks it.
CancellationKept ==
    /\ failure # "ok"
    /\ pc \in Unraised => failure = None
    /\ pending => pc \in Shields \cup {"ended"}
    /\ cancels > 0 /\ ~swallowed /\ pc # "ended"
         => \/ failure = "cancelled"
            \/ pending /\ (failure = None \/ pc = "close")

\* The token of a listing is taken from the answer before the request is over.
TokenTaken == pc = "fill" /\ kind = "list" => token = "server"

Inv == /\ Types /\ ClientLife /\ AttemptLife /\ CancellationKept /\ TokenTaken
       /\ OutcomeInv

USE DEF Before, Using, After, Unraised, Shields, None

-----------------------------------------------------------------------------
\* A request that has not begun satisfies the invariant.
LEMMA InitInv == Init => Inv
<1> SUFFICES ASSUME Init PROVE Inv
    OBVIOUS
<1> USE DEF Init
<1>1. Types
    BY AttemptsAssumption DEF Types, TypeOK
<1>2. ClientLife /\ AttemptLife
    BY AttemptsAssumption DEF ClientLife, AttemptLife
<1>3. CancellationKept /\ TokenTaken
    BY DEF CancellationKept, TokenTaken
<1>4. OutcomeInv
    BY DEF OutcomeInv, CancellationWins, CloseErrorReported, SurfacesMasked,
           TokenSurvives
<1>5. QED
    BY <1>1, <1>2, <1>3, <1>4 DEF Inv

-----------------------------------------------------------------------------
(* Every step of a request keeps it.  The frames and the parts of Inv are  *)
(* expanded everywhere; what an action computes where it is used.          *)

USE DEF Inv, Types, TypeOK, ClientLife, AttemptLife, CancellationKept,
        TokenTaken, OutcomeInv, CancellationWins, CloseErrorReported,
        SurfacesMasked, TokenSurvives, sdk, stream, echo, Go, Raise

\* handle_request ends: whatever the result is, the surfaces are masked and the
\* token is the server's.
LEMMA EndFields ==
    ASSUME NEW res, End(res), Inv
    PROVE  /\ pc' = "ended" /\ result' = res
           /\ url' = "masked" /\ details' # "raw" /\ token' = token
           /\ UNCHANGED <<failure, pending>>
BY DEF End, Redact, TokenKept

\* Reading the upload, opening the client or channel, and asking the breaker.
LEMMA OpeningInv ==
    ASSUME Inv,
           \/ Configure
           \/ \E ok \in BOOLEAN : \/ ReadUpload(ok) \/ EnterClient(ok)
                                 \/ NewChannel(ok) \/ Admit(ok)
    PROVE  Inv'
<1>1. ASSUME NEW ok \in BOOLEAN, ReadUpload(ok) PROVE Inv'
    BY <1>1, EndFields DEF ReadUpload
<1>2. ASSUME Configure PROVE Inv'
    BY <1>2 DEF Configure, S3Commands
<1>3. ASSUME NEW ok \in BOOLEAN, EnterClient(ok) PROVE Inv'
    BY <1>3, EndFields DEF EnterClient
<1>4. ASSUME NEW ok \in BOOLEAN, NewChannel(ok) PROVE Inv'
    BY <1>4, EndFields DEF NewChannel
<1>5. ASSUME NEW ok \in BOOLEAN, Admit(ok) PROVE Inv'
    BY <1>5 DEF Admit
<1>6. QED
    BY <1>1, <1>2, <1>3, <1>4, <1>5

\* The call of the service, and the download it may start.
LEMMA CallingInv ==
    ASSUME Inv, S3Call \/ GrpcCall \/ Refuse \/ Iterate
    PROVE  Inv'
<1>1. ASSUME S3Call PROVE Inv'
    BY <1>1 DEF S3Call, S3Commands
<1>2. ASSUME GrpcCall PROVE Inv'
    BY <1>2 DEF GrpcCall
<1>3. ASSUME Refuse PROVE Inv'
    BY <1>3 DEF Refuse
<1>4. ASSUME Iterate PROVE Inv'
    BY <1>4 DEF Iterate
<1>5. QED
    BY <1>1, <1>2, <1>3, <1>4

\* The two finally blocks that close a body, and the landing between them.
LEMMA BodyInv ==
    ASSUME Inv, \E ok \in BOOLEAN : CloseInner(ok) \/ Land(ok) \/ CloseOuter(ok)
    PROVE  Inv'
<1>1. ASSUME NEW ok \in BOOLEAN, CloseInner(ok) PROVE Inv'
    BY <1>1 DEF CloseInner, Awaited, NeedsClose
<1>2. ASSUME NEW ok \in BOOLEAN, Land(ok) PROVE Inv'
    BY <1>2 DEF Land, Awaited
<1>3. ASSUME NEW ok \in BOOLEAN, CloseOuter(ok) PROVE Inv'
    BY <1>3 DEF CloseOuter, Awaited, NeedsClose
<1>4. QED
    BY <1>1, <1>2, <1>3

\* The breaker's verdict and what is written while the client is open.
LEMMA SettlingInv ==
    ASSUME Inv, Settle \/ Publish \/ Judge
    PROVE  Inv'
<1>1. ASSUME Settle PROVE Inv'
    BY <1>1, AttemptsAssumption DEF Settle, Retriable
<1>2. ASSUME Publish PROVE Inv'
    BY <1>2 DEF Publish
<1>3. ASSUME Judge PROVE Inv'
    BY <1>3 DEF Judge
<1>4. QED
    BY <1>1, <1>2, <1>3

\* The close of the client and the answer made of how it ended.
LEMMA ClosingInv ==
    ASSUME Inv,
           \/ \E how \in {"clean", "error", "suppressed"} : CloseClient(how)
           \/ Leave \/ Return
           \/ \E ok \in BOOLEAN : ParseSuccess(ok)
    PROVE  Inv'
<1>1. ASSUME NEW how \in {"clean", "error", "suppressed"}, CloseClient(how)
      PROVE  Inv'
    BY <1>1 DEF CloseClient
<1>2. ASSUME Leave PROVE Inv'
    BY <1>2, EndFields DEF Leave, Outcome, Kinds, S3Commands
<1>3. ASSUME Return PROVE Inv'
    BY <1>3, EndFields DEF Return
<1>4. ASSUME NEW ok \in BOOLEAN, ParseSuccess(ok) PROVE Inv'
    BY <1>4, EndFields DEF ParseSuccess
<1>5. QED
    BY <1>1, <1>2, <1>3, <1>4

\* A cancellation, wherever the task is suspended.
LEMMA CancelInv ==
    ASSUME Inv, Cancel
    PROVE  Inv'
<1> USE DEF Cancel
<1>1. CASE CancelCall
    BY <1>1 DEF CancelCall
<1>2. CASE CancelOutside
    BY <1>2, EndFields DEF CancelOutside
<1>3. CASE CancelStream
    BY <1>3 DEF CancelStream
<1>4. CASE CancelShielded
    <2>1. pc \in Shields /\ pending' = TRUE /\ UNCHANGED <<pc, failure>>
        BY <1>4 DEF CancelShielded
    <2>2. pc # "close" /\ failure \notin {None, "cancelled"} => swallowed'
        BY <1>4 DEF CancelShielded
    <2>3. CancellationKept'
        BY <2>1, <2>2
    <2>4. QED
        BY <1>4, <2>3 DEF CancelShielded
<1>5. QED
    BY <1>1, <1>2, <1>3, <1>4

\* Inv is inductive.
LEMMA NextInv == Inv /\ [Next]_vars => Inv'
<1> SUFFICES ASSUME Inv, [Next]_vars PROVE Inv'
    OBVIOUS
<1>1. CASE Step
    BY <1>1, OpeningInv, CallingInv, BodyInv, SettlingInv, ClosingInv
       DEF Step, Awaits
<1>2. CASE Cancel
    BY <1>2, CancelInv
<1>3. CASE UNCHANGED vars
    BY <1>3 DEF vars
<1>4. QED
    BY <1>1, <1>2, <1>3 DEF Next

-----------------------------------------------------------------------------
(* The theorems.                                                           *)

HIDE DEF Inv, OutcomeInv

\* The strengthened invariant holds in every reachable state of an S3 or gRPC
\* request.
THEOREM Invariance == Spec => []Inv
BY InitInv, NextInv, PTL DEF Spec

\* Whatever fails and whenever the task is cancelled, the client or channel is
\* closed once, after the last attempt stopped using it, and every streaming
\* body once, before its attempt is over.
THEOREM SpecCleanup == Spec => []CleanupInv
<1>1. Inv => CleanupInv
    BY DEF Inv, CleanupInv, ClosedAfterUse, BodyClosedOnce
<1>2. QED
    BY <1>1, Invariance, PTL

\* However the request ends, a cancellation that was not dropped is reported
\* before a failing close and that before anything else, the envelope is masked
\* and a listing's token is the server's.
THEOREM SpecOutcome == Spec => []OutcomeInv
<1>1. Inv => OutcomeInv
    BY DEF Inv
<1>2. QED
    BY <1>1, Invariance, PTL
=============================================================================
