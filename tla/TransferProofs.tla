--------------------------- MODULE TransferProofs ---------------------------
(***************************************************************************)
(* Proofs about Transfer, for every set of FTP and SFTP requests to one    *)
(* directory, every number of files, blocks, attempts and cancellations,   *)
(* and every limit.                                                        *)
(***************************************************************************)
EXTENDS Transfer, FiniteSetTheorems, TLAPS

-----------------------------------------------------------------------------
(* The inductive invariant.                                                *)

Preparing == {"start", "connect", "login", "look", "admit", "backoff",
              "command", "mkdir"}
Filling == {"block", "write", "close"}
Ending == {"settle", "leave", "ended"}
Places == Preparing \cup {"open"} \cup Filling \cup Ending
            \cup {"discard", "unlink", "stat"}

\* The types: what is kept for a request, the sets of requests, the directory.
Values ==
    /\ pc \in [Requests -> Places]
    /\ op \in [Requests -> {None, "download", "upload", "remove", "misfit"}]
    /\ attempt \in [Requests -> 1..Attempts]
    /\ cur \in [Requests -> 1..Files]
    /\ pos \in [Requests -> 0..Blocks]
    /\ written \in [Requests -> 0..(Limit + 1)]
    /\ failure \in [Requests -> Failures]
    /\ cancels \in [Requests -> Nat]
    /\ result \in [Requests -> (Failures \cup {"ok"})]

Sets ==
    /\ overwriting \subseteq Requests /\ plain \subseteq Requests
    /\ attached \subseteq Requests
    /\ session \subseteq Requests /\ connected \subseteq Requests
    /\ spoilt \subseteq Requests /\ interrupted \subseteq Requests
    /\ late \subseteq Requests \X {"open", "unlink"} \X (1..Files)

Entries ==
    /\ owner \in [1..Files -> Requests \cup {None, Before}]
    /\ data \in [1..Files -> [1..Blocks ->
                   (Requests \cup {None, Before}) \X (0..Attempts)]]

Types == Values /\ Sets /\ Entries

\* A connection belongs to a session that was set up; a transfer starts with
\* the first file.
PlaceInv(r) ==
    /\ pc[r] \notin {"start", "ended"} => r \in session
    /\ r \in connected => pc[r] \notin {"start", "connect", "ended"}
    /\ pc[r] = "command" => op[r] # "download"
    /\ pc[r] \in Preparing => cur[r] = 1
    /\ pc[r] \in Preparing \cup {"open"} => pos[r] = 0
    /\ pc[r] = "write" => pos[r] < Blocks
    /\ pc[r] \in {"write", "discard", "unlink"} => r \notin plain
    /\ r \in attached => /\ pc[r] \in Filling \cup {"discard"}
                         /\ owner[cur[r]] # None

\* A failure belongs to the way out.  One that spoils a file, and a
\* cancellation, is not retried, and only a flush hides a cancellation.  A plain
\* download does retry after it spoilt a file.
FailureInv(r) ==
    /\ pc[r] \in Preparing \cup {"open", "block", "write", "stat"}
         => failure[r] = None
    /\ pc[r] = "close" =>
         failure[r] \in {None, "network", "cancelled"} \/ r \in plain
    /\ pc[r] \in {"discard", "unlink"} => r \in spoilt
    /\ r \in spoilt /\ r \notin plain =>
         /\ pc[r] \in {"discard", "unlink"} \cup Ending
         /\ pc[r] # "ended" =>
              failure[r] \in {"local", "tooLarge", "cancelled"}
    /\ r \in interrupted => r \in spoilt /\ r \notin plain /\ pc[r] \in Ending
    /\ pc[r] # "ended" => result[r] = None
    /\ cancels[r] > 0 =>
         LET raised == IF pc[r] = "ended" THEN result[r] ELSE failure[r]
         IN  \/ raised = "cancelled"
             \/ raised = "local" /\ r \in spoilt /\ r \notin interrupted
             \/ r \in spoilt /\ r \in plain

\* A thread that nobody waits for belongs to a cancelled request, and does the
\* one thing that the request was waiting for.
LateInv(r) ==
    \A f \in 1..Files :
        /\ <<r, "open", f>> \in late =>
             /\ f = cur[r] /\ cancels[r] > 0 /\ r \notin plain
             /\ pc[r] \in Ending /\ r \notin spoilt
        /\ <<r, "unlink", f>> \in late =>
             /\ f = cur[r] /\ cancels[r] > 0 /\ r \notin plain
             /\ pc[r] \in Ending /\ r \in spoilt

\* What is on the disk was charged before it was written.
BudgetInv(r) ==
    r \notin plain =>
        /\ written[r] > Limit =>
             \/ pc[r] = "leave"
             \/ pc[r] \in {"discard", "unlink", "settle"}
                  /\ failure[r] \notin {None, "network"}
        /\ Cardinality(Stored(r)) <= Limit
        /\ pc[r] # "ended" => Cardinality(Stored(r)) <= written[r]
        /\ pc[r] = "write" => Cardinality(Stored(r)) < written[r]

\* The file of a failed write is gone once the unlink has been waited for.
SpoiltInv(r) ==
    r \in spoilt \ (interrupted \cup plain) /\ pc[r] \in Ending
        => owner[cur[r]] \notin {r, Before}

\* Where nobody overwrites, an entry that a request writes to, or is about to
\* unlink, is its own.
OwnInv(r) ==
    Exclusive =>
        /\ pc[r] \in Filling \cup {"discard", "unlink"} => owner[cur[r]] = r
        /\ \A f \in 1..Files : <<r, "unlink", f>> \in late => owner[f] = r

\* Nobody else changes the files of the request.
Alone(r) == Exclusive \/ \A q \in Requests \ {r} : pc[q] = "start"

Done(r, f) == /\ WholeFile(r, f)
              /\ owner[f] # None
              /\ Exclusive => owner[f] = r

\* The files before the current one are whole, the current one holds what was
\* written of it, and all are whole after the last.
Doing(r) == pc[r] \in Filling /\ failure[r] = None

Whole(r) == \/ pc[r] \in {"settle", "leave"} /\ failure[r] = None
            \/ pc[r] = "stat"
            \/ pc[r] = "ended" /\ result[r] = "ok"

DoneInv(r) ==
    op[r] = "download" /\ Alone(r) =>
        /\ pc[r] = "open" \/ Doing(r) => \A f \in 1..(cur[r] - 1) : Done(r, f)
        /\ Doing(r) =>
             /\ r \in attached
             /\ \A b \in 1..Blocks :
                  data[cur[r]][b] = IF b <= pos[r] THEN <<r, attempt[r]>>
                                    ELSE <<None, 0>>
        /\ Whole(r) => \A f \in 1..Files : Done(r, f)

RequestInv(r) == /\ PlaceInv(r) /\ FailureInv(r) /\ LateInv(r) /\ BudgetInv(r)
                 /\ SpoiltInv(r) /\ OwnInv(r) /\ DoneInv(r)

Inv == Types /\ \A r \in Requests : RequestInv(r)

-----------------------------------------------------------------------------
(* What the options come to.                                               *)

\* A call that is accepted has a command and a peer the caller asked for.
LEMMA FtpCallsAsked ==
    ASSUME NEW call \in FtpCalls, call.accepted
    PROVE  /\ call.asked /\ call.plain \in BOOLEAN
           /\ call.command \in {"download", "upload", "remove", "misfit"}
<1>1. PICK o \in FtpOptions :
        call = Call(/\ FtpConstructed(o) /\ FtpValid(o)
                    /\ FtpTlsValue(o) # "refused",
                    FtpPeer(o), FtpWaived(o), o.command, o.client,
                    o.overwrite)
  BY DEF FtpCalls
<1>2. FtpConstructed(o) /\ FtpValid(o) /\ FtpTlsValue(o) # "refused"
  BY <1>1 DEF Call
<1>3. call = [accepted |-> TRUE, command |-> Operation(o.command, o.client),
              plain |-> o.command = "download" /\ o.client = "absent",
              overwrite |-> o.command = "download" /\ o.client = "given"
                              /\ o.overwrite,
              asked |-> FtpPeer(o) = "verified" \/ FtpWaived(o)]
  BY <1>1, <1>2 DEF Call
<1>4. FtpPeer(o) = "verified" \/ FtpWaived(o)
  BY DEF FtpPeer, FtpTlsValue, TlsContextFor, FtpWaived
<1>5. Operation(o.command, o.client)
        \in {"download", "upload", "remove", "misfit"}
  BY <1>2 DEF FtpValid, FtpOptions, Operation
<1> QED  BY <1>3, <1>4, <1>5

\* The same for SFTP.
LEMMA SftpCallsAsked ==
    ASSUME NEW call \in SftpCalls, call.accepted
    PROVE  /\ call.asked /\ call.plain \in BOOLEAN
           /\ call.command \in {"download", "upload", "remove", "misfit"}
<1>1. PICK o \in SftpOptions :
        call = Call(SftpConstructed(o) /\ SftpValid(o),
                    SftpPeer(o), SftpWaived(o), SftpCommand(o.mode), o.local,
                    o.overwrite)
  BY DEF SftpCalls
<1>2. SftpConstructed(o) /\ SftpValid(o)
  BY <1>1 DEF Call
<1>3. call = [accepted |-> TRUE,
              command |-> Operation(SftpCommand(o.mode), o.local),
              plain |-> SftpCommand(o.mode) = "download" /\ o.local = "absent",
              overwrite |-> SftpCommand(o.mode) = "download"
                              /\ o.local = "given" /\ o.overwrite,
              asked |-> SftpPeer(o) = "verified" \/ SftpWaived(o)]
  BY <1>1, <1>2 DEF Call
<1>4. SftpPeer(o) = "verified" \/ SftpWaived(o)
  BY DEF SftpPeer, SftpWaived
<1>5. Operation(SftpCommand(o.mode), o.local)
        \in {"download", "upload", "remove", "misfit"}
  BY <1>2 DEF SftpValid, SftpOptions, SftpCommand, Operation
<1> QED  BY <1>3, <1>4, <1>5

-----------------------------------------------------------------------------
(* What a request has on the disk.                                         *)

\* The blocks of a request can be counted.
LEMMA StoredFinite ==
    ASSUME NEW r
    PROVE  IsFiniteSet(Stored(r)) /\ Cardinality(Stored(r)) \in Nat
<1>1. IsFiniteSet(1..Files) /\ IsFiniteSet(1..Blocks)
  BY FS_Interval, NumbersAssumption
<1>2. IsFiniteSet((1..Files) \X (1..Blocks))
  BY <1>1, FS_Product
<1>3. IsFiniteSet(Stored(r))
  BY <1>2, FS_Subset DEF Stored
<1> QED  BY <1>3, FS_CardinalityType

\* A step that stores nothing of the request.
LEMMA StoredLess ==
    ASSUME NEW CONSTANT r, Stored(r)' \subseteq Stored(r)
    PROVE  /\ Cardinality(Stored(r)) \in Nat
           /\ Cardinality(Stored(r)') \in Nat
           /\ Cardinality(Stored(r)') <= Cardinality(Stored(r))
BY StoredFinite, FS_Subset, FS_CardinalityType

\* A step that stores at most one block.
LEMMA StoredOneMore ==
    ASSUME NEW CONSTANT r, NEW CONSTANT e,
           Stored(r)' \subseteq Stored(r) \cup {e}
    PROVE  /\ Cardinality(Stored(r)) \in Nat
           /\ Cardinality(Stored(r)') \in Nat
           /\ Cardinality(Stored(r)') <= Cardinality(Stored(r)) + 1
<1>1. /\ IsFiniteSet(Stored(r) \cup {e})
      /\ Cardinality(Stored(r) \cup {e}) <= Cardinality(Stored(r)) + 1
  BY StoredFinite, FS_AddElement
<1> QED  BY <1>1, StoredFinite, FS_Subset, FS_CardinalityType

-----------------------------------------------------------------------------
(* What a step of one request means for another.                           *)

USE RequestsAssumption, NumbersAssumption
    DEF Preparing, Filling, Ending, Places, None, Before, Failures

\* The step does not change what is kept for request s.
Same(s) ==
    /\ pc'[s] = pc[s] /\ op'[s] = op[s] /\ attempt'[s] = attempt[s]
    /\ cur'[s] = cur[s] /\ pos'[s] = pos[s] /\ written'[s] = written[s]
    /\ failure'[s] = failure[s] /\ cancels'[s] = cancels[s]
    /\ result'[s] = result[s]
    /\ s \in plain' <=> s \in plain
    /\ s \in session' <=> s \in session
    /\ s \in connected' <=> s \in connected
    /\ s \in spoilt' <=> s \in spoilt
    /\ s \in interrupted' <=> s \in interrupted
    /\ \A f \in 1..Files : /\ <<s, "open", f>> \in late'
                                <=> <<s, "open", f>> \in late
                           /\ <<s, "unlink", f>> \in late'
                                <=> <<s, "unlink", f>> \in late

\* The step is one of r, which has begun or begins.
StepOf(r) == /\ Exclusive' => Exclusive
             /\ pc'[r] # "start"
             /\ \A s \in Requests \ {r} : Same(s)

\* What does not depend on the disk.
LEMMA OtherFailure ==
    ASSUME Inv, NEW r \in Requests, StepOf(r), NEW s \in Requests \ {r}
    PROVE  FailureInv(s)' /\ LateInv(s)'
<1>1. FailureInv(s) /\ LateInv(s)
  BY DEF Inv, RequestInv
<1>2. Same(s)
  BY DEF StepOf
<1>3. FailureInv(s)'
  BY <1>1, <1>2 DEF FailureInv, Same
<1>4. LateInv(s)'
  BY <1>1, <1>2 DEF LateInv, Same
<1> QED  BY <1>3, <1>4

\* What is left of request s on the disk was charged before.
LEMMA OtherBudget ==
    ASSUME Inv, NEW r \in Requests, StepOf(r), NEW s \in Requests \ {r},
           Stored(s)' \subseteq Stored(s)
    PROVE  BudgetInv(s)'
<1>1. BudgetInv(s) /\ Same(s) /\ written[s] \in Nat
  BY DEF Inv, Types, Values, RequestInv, StepOf
<1>2. /\ Cardinality(Stored(s)) \in Nat
      /\ Cardinality(Stored(s)') \in Nat
      /\ Cardinality(Stored(s)') <= Cardinality(Stored(s))
  BY StoredLess
<1>3. (Cardinality(Stored(s)))' = Cardinality(Stored(s)')
  OBVIOUS
<1> QED  BY <1>1, <1>2, <1>3 DEF BudgetInv, Same

\* Request s is only alone with a request that has begun if nobody overwrites.
LEMMA OtherAlone ==
    ASSUME Inv, NEW r \in Requests, StepOf(r), NEW s \in Requests \ {r},
           Alone(s)'
    PROVE  Alone(s) /\ Exclusive
BY DEF Alone, StepOf

\* r leaves entries and blocks alone.
LEMMA OtherKept ==
    ASSUME Inv, NEW r \in Requests, StepOf(r), NEW s \in Requests \ {r},
           UNCHANGED <<owner, data>>, s \in attached' <=> s \in attached
    PROVE  RequestInv(s)'
<1>1. RequestInv(s) /\ Same(s) /\ (Exclusive' => Exclusive)
  BY DEF Inv, StepOf
<1>2. FailureInv(s)' /\ LateInv(s)'
  BY OtherFailure
<1>3. PlaceInv(s)' /\ SpoiltInv(s)'
  BY <1>1 DEF RequestInv, PlaceInv, SpoiltInv, Same
<1>4. BudgetInv(s)'
  BY OtherBudget DEF Stored
<1>5. OwnInv(s)'
  BY <1>1 DEF RequestInv, OwnInv, Same
<1>6. DoneInv(s)'
  <2> SUFFICES ASSUME op[s] = "download", Alone(s)'
               PROVE  DoneInv(s)'
    BY <1>1 DEF DoneInv, Same
  <2>1. DoneInv(s) /\ Alone(s)
    BY <1>1, OtherAlone DEF RequestInv
  <2>2. \A f \in 1..Files : Done(s, f) => Done(s, f)'
    BY <1>1 DEF Done, WholeFile, Same
  <2>3. \A f \in 1..(cur[s] - 1) : f \in 1..Files
    BY DEF Inv, Types, Values
  <2> QED  BY <1>1, <2>1, <2>2, <2>3 DEF DoneInv, Doing, Whole, Same
<1> QED  BY <1>2, <1>3, <1>4, <1>5, <1>6 DEF RequestInv

\* r opens an entry.
LEMMA OtherOpened ==
    ASSUME Inv, NEW r \in Requests, StepOf(r), NEW s \in Requests \ {r},
           NEW f \in 1..Files, MayOpen(r, f), Opened(r, f),
           s \in attached' <=> s \in attached
    PROVE  RequestInv(s)'
<1>1. RequestInv(s) /\ Same(s) /\ (Exclusive' => Exclusive)
  BY DEF Inv, StepOf
<1>2. /\ owner \in [1..Files -> Requests \cup {None, Before}]
      /\ data' = [data EXCEPT ![f] = Empty]
      /\ owner' = [owner EXCEPT ![f] = IF @ = None THEN r ELSE @]
      /\ data \in [1..Files -> [1..Blocks ->
                     (Requests \cup {None, Before}) \X (0..Attempts)]]
      /\ cur[s] \in 1..Files
  BY DEF Inv, Types, Values, Entries, Opened
<1>3. FailureInv(s)' /\ LateInv(s)'
  BY OtherFailure
<1>4. PlaceInv(s)' /\ SpoiltInv(s)'
  BY <1>1, <1>2 DEF RequestInv, PlaceInv, SpoiltInv, Same
<1>5. BudgetInv(s)'
  <2>1. Stored(s)' \subseteq Stored(s)
    BY <1>2 DEF Stored, Empty
  <2> QED  BY <2>1, OtherBudget
<1>6. Exclusive => owner[f] = None
  BY DEF MayOpen, Exclusive
<1>7. OwnInv(s)'
  BY <1>1, <1>2, <1>6 DEF RequestInv, OwnInv, Same
<1>8. DoneInv(s)'
  <2> SUFFICES ASSUME op[s] = "download", Alone(s)'
               PROVE  DoneInv(s)'
    BY <1>1 DEF DoneInv, Same
  <2>1. DoneInv(s) /\ Alone(s) /\ OwnInv(s) /\ Exclusive
    BY <1>1, OtherAlone DEF RequestInv
  <2>2. \A g \in 1..Files : Done(s, g) => Done(s, g)'
    BY <1>1, <1>2, <1>6, <2>1 DEF Done, WholeFile, Same
  <2>3. \A g \in 1..(cur[s] - 1) : g \in 1..Files
    BY DEF Inv, Types, Values
  <2>4. Doing(s) => data'[cur[s]] = data[cur[s]]
    BY <1>2, <1>6, <2>1 DEF Doing, OwnInv
  <2> QED  BY <1>1, <2>1, <2>2, <2>3, <2>4 DEF DoneInv, Doing, Whole, Same
<1> QED  BY <1>3, <1>4, <1>5, <1>7, <1>8 DEF RequestInv

\* r writes a block.
LEMMA OtherStored ==
    ASSUME Inv, NEW r \in Requests, StepOf(r), NEW s \in Requests \ {r},
           pc[r] = "write" \/ pc[r] = "block", pos[r] < Blocks, Store(r),
           UNCHANGED owner, s \in attached' <=> s \in attached
    PROVE  RequestInv(s)'
<1>1. RequestInv(s) /\ Same(s) /\ (Exclusive' => Exclusive)
  BY DEF Inv, StepOf
<1>2. /\ data' = IF r \in attached
                 THEN [data EXCEPT ![cur[r]][pos[r] + 1] = <<r, attempt[r]>>]
                 ELSE data
      /\ data \in [1..Files -> [1..Blocks ->
                     (Requests \cup {None, Before}) \X (0..Attempts)]]
      /\ cur[s] \in 1..Files /\ cur[r] \in 1..Files
      /\ pos[r] + 1 \in 1..Blocks
  <2>1. pos[r] \in 0..Blocks /\ cur[s] \in 1..Files /\ cur[r] \in 1..Files
    BY DEF Inv, Types, Values
  <2> QED  BY <2>1 DEF Inv, Types, Entries, Store
<1>3. FailureInv(s)' /\ LateInv(s)'
  BY OtherFailure
<1>4. PlaceInv(s)' /\ SpoiltInv(s)'
  BY <1>1 DEF RequestInv, PlaceInv, SpoiltInv, Same
<1>5. BudgetInv(s)'
  <2>1. Stored(s)' \subseteq Stored(s)
    BY <1>2 DEF Stored
  <2> QED  BY <2>1, OtherBudget
<1>6. OwnInv(s)'
  BY <1>1 DEF RequestInv, OwnInv, Same
<1>7. DoneInv(s)'
  <2> SUFFICES ASSUME op[s] = "download", Alone(s)'
               PROVE  DoneInv(s)'
    BY <1>1 DEF DoneInv, Same
  <2>1. DoneInv(s) /\ Alone(s) /\ OwnInv(s) /\ Exclusive
    BY <1>1, OtherAlone DEF RequestInv
  <2>2. owner[cur[r]] = r
    BY <2>1 DEF Inv, RequestInv, OwnInv
  <2>3. \A g \in 1..Files : Done(s, g) => Done(s, g)'
    BY <1>1, <1>2, <2>1, <2>2 DEF Done, WholeFile, Same
  <2>4. \A g \in 1..(cur[s] - 1) : g \in 1..Files
    BY DEF Inv, Types, Values
  <2>5. Doing(s) => data'[cur[s]] = data[cur[s]]
    BY <1>2, <2>1, <2>2 DEF Doing, OwnInv
  <2> QED  BY <1>1, <2>1, <2>3, <2>4, <2>5 DEF DoneInv, Doing, Whole, Same
<1> QED  BY <1>3, <1>4, <1>5, <1>6, <1>7 DEF RequestInv

\* r removes an entry, which is its own where nobody overwrites.
LEMMA OtherUnlinked ==
    ASSUME Inv, NEW r \in Requests, StepOf(r), NEW s \in Requests \ {r},
           NEW f \in 1..Files, Unlinked(f), Exclusive => owner[f] = r
    PROVE  RequestInv(s)'
<1>1. RequestInv(s) /\ Same(s) /\ (Exclusive' => Exclusive)
  BY DEF Inv, StepOf
<1>2. /\ owner \in [1..Files -> Requests \cup {None, Before}]
      /\ owner' = [owner EXCEPT ![f] = None]
      /\ data' = [data EXCEPT ![f] = Empty]
      /\ data \in [1..Files -> [1..Blocks ->
                     (Requests \cup {None, Before}) \X (0..Attempts)]]
      /\ cur[s] \in 1..Files
      /\ s \in attached' <=> s \in attached /\ cur[s] # f
  BY DEF Inv, Types, Values, Sets, Entries, Unlinked
<1>3. FailureInv(s)' /\ LateInv(s)'
  BY OtherFailure
<1>4. PlaceInv(s)' /\ SpoiltInv(s)'
  BY <1>1, <1>2 DEF RequestInv, PlaceInv, SpoiltInv, Same
<1>5. BudgetInv(s)'
  <2>1. Stored(s)' \subseteq Stored(s)
    BY <1>2 DEF Stored, Empty
  <2> QED  BY <2>1, OtherBudget
<1>6. OwnInv(s)'
  BY <1>1, <1>2 DEF RequestInv, OwnInv, Same
<1>7. DoneInv(s)'
  <2> SUFFICES ASSUME op[s] = "download", Alone(s)'
               PROVE  DoneInv(s)'
    BY <1>1 DEF DoneInv, Same
  <2>1. /\ DoneInv(s) /\ Alone(s) /\ OwnInv(s) /\ Exclusive
        /\ owner[f] = r
    BY <1>1, OtherAlone DEF RequestInv
  <2>2. \A g \in 1..Files : Done(s, g) => Done(s, g)'
    BY <1>1, <1>2, <2>1 DEF Done, WholeFile, Same
  <2>3. \A g \in 1..(cur[s] - 1) : g \in 1..Files
    BY DEF Inv, Types, Values
  <2>4. Doing(s) => cur[s] # f
    BY <2>1 DEF Doing, OwnInv
  <2> QED  BY <1>1, <1>2, <2>1, <2>2, <2>3, <2>4
           DEF DoneInv, Doing, Whole, Same
<1> QED  BY <1>3, <1>4, <1>5, <1>6, <1>7 DEF RequestInv

-----------------------------------------------------------------------------
(* What a step means for the request that takes it.                        *)

USE DEF disk, link, place, hist, Go, Raise, End

\* A request that is alone after its step was alone before.
LEMMA OwnAlone ==
    ASSUME NEW r \in Requests, StepOf(r), Alone(r)'
    PROVE  Alone(r)
BY DEF Alone, StepOf, Same

\* A whole file stays whole while nobody touches it.
LEMMA OwnDone ==
    ASSUME NEW r \in Requests, UNCHANGED <<owner, data>>,
           Exclusive' => Exclusive,
           attempt'[r] = attempt[r], NEW f \in 1..Files, Done(r, f)
    PROVE  Done(r, f)'
BY DEF Done, WholeFile

\* A step that writes nothing needs no charge.
LEMMA OwnStored ==
    ASSUME NEW CONSTANT r, UNCHANGED data
    PROVE  /\ (Cardinality(Stored(r)))' = Cardinality(Stored(r))
           /\ Cardinality(Stored(r)) \in Nat
BY StoredFinite DEF Stored

-----------------------------------------------------------------------------
(* The session: one lemma per action, none of which touches a file.        *)

\* The options are accepted with a peer that was asked for, or refused.
LEMMA StartFtpInv ==
    ASSUME Inv, NEW r \in Requests, StartFtp(r)
    PROVE  Inv'
<1>1. Types'
  <2>1. Values'
    BY FtpCallsAsked DEF Inv, Types, Values, StartFtp, Starts
  <2>2. Sets' /\ Entries'
    BY DEF Inv, Types, Sets, Entries, StartFtp, Starts
  <2> QED  BY <2>1, <2>2 DEF Types
<1>2. StepOf(r)
  BY DEF Exclusive, Inv, Types, Values, StepOf, Same, StartFtp, Starts
<1>3. /\ RequestInv(r) /\ Values
      /\ UNCHANGED <<owner, data, attached, late>>
      /\ Exclusive' => Exclusive
      /\ r \in plain => r \in plain'
  BY DEF Exclusive, Inv, Types, StartFtp, Starts
<1>4. PlaceInv(r)' /\ FailureInv(r)'
  BY <1>3, FtpCallsAsked
     DEF Values, RequestInv, PlaceInv, FailureInv, StartFtp, Starts
<1>5. LateInv(r)' /\ SpoiltInv(r)' /\ OwnInv(r)'
  BY <1>3
     DEF Values, RequestInv, LateInv, FailureInv, SpoiltInv, OwnInv, StartFtp,
         Starts
<1>6. BudgetInv(r)'
  BY <1>3, OwnStored
     DEF Values, RequestInv, BudgetInv, FailureInv, StartFtp, Starts
<1>7. DoneInv(r)'
  BY <1>2, <1>3, OwnAlone, OwnDone
     DEF Values, RequestInv, PlaceInv, FailureInv, DoneInv, Doing, Whole,
         StartFtp, Starts
<1>8. \A s \in Requests \ {r} : RequestInv(s)'
  BY <1>2, <1>3, OtherKept
<1> QED  BY <1>1, <1>4, <1>5, <1>6, <1>7, <1>8 DEF Inv, RequestInv

\* The same for SFTP.
LEMMA StartSftpInv ==
    ASSUME Inv, NEW r \in Requests, StartSftp(r)
    PROVE  Inv'
<1>1. Types'
  <2>1. Values'
    BY SftpCallsAsked DEF Inv, Types, Values, StartSftp, Starts
  <2>2. Sets' /\ Entries'
    BY DEF Inv, Types, Sets, Entries, StartSftp, Starts
  <2> QED  BY <2>1, <2>2 DEF Types
<1>2. StepOf(r)
  BY DEF Exclusive, Inv, Types, Values, StepOf, Same, StartSftp, Starts
<1>3. /\ RequestInv(r) /\ Values
      /\ UNCHANGED <<owner, data, attached, late>>
      /\ Exclusive' => Exclusive
      /\ r \in plain => r \in plain'
  BY DEF Exclusive, Inv, Types, StartSftp, Starts
<1>4. PlaceInv(r)' /\ FailureInv(r)'
  BY <1>3, SftpCallsAsked
     DEF Values, RequestInv, PlaceInv, FailureInv, StartSftp, Starts
<1>5. LateInv(r)' /\ SpoiltInv(r)' /\ OwnInv(r)'
  BY <1>3
     DEF Values, RequestInv, LateInv, FailureInv, SpoiltInv, OwnInv,
         StartSftp, Starts
<1>6. BudgetInv(r)'
  BY <1>3, OwnStored
     DEF Values, RequestInv, BudgetInv, FailureInv, StartSftp, Starts
<1>7. DoneInv(r)'
  BY <1>2, <1>3, OwnAlone, OwnDone
     DEF Values, RequestInv, PlaceInv, FailureInv, DoneInv, Doing, Whole,
         StartSftp, Starts
<1>8. \A s \in Requests \ {r} : RequestInv(s)'
  BY <1>2, <1>3, OtherKept
<1> QED  BY <1>1, <1>4, <1>5, <1>6, <1>7, <1>8 DEF Inv, RequestInv

\* The socket.
LEMMA ConnectInv ==
    ASSUME Inv, NEW r \in Requests, NEW ok \in BOOLEAN, Connect(r, ok)
    PROVE  Inv'
<1>1. Types'
  <2>1. Values'
    BY DEF Inv, Types, Values, Connect
  <2>2. Sets' /\ Entries'
    BY DEF Inv, Types, Sets, Entries, Connect
  <2> QED  BY <2>1, <2>2 DEF Types
<1>2. StepOf(r)
  BY DEF Exclusive, Inv, Types, Values, StepOf, Same, Connect
<1>3. /\ RequestInv(r) /\ Values
      /\ UNCHANGED <<owner, data, attached, late, plain>>
      /\ Exclusive' <=> Exclusive
  BY DEF Exclusive, Inv, Types, Connect
<1>4. PlaceInv(r)' /\ FailureInv(r)'
  BY <1>3 DEF Values, RequestInv, PlaceInv, FailureInv, Connect
<1>5. LateInv(r)' /\ SpoiltInv(r)' /\ OwnInv(r)'
  BY <1>3
     DEF Values, RequestInv, LateInv, FailureInv, SpoiltInv, OwnInv, Connect
<1>6. BudgetInv(r)'
  BY <1>3, OwnStored DEF Values, RequestInv, BudgetInv, FailureInv, Connect
<1>7. DoneInv(r)'
  BY <1>2, <1>3, OwnAlone, OwnDone
     DEF Values, RequestInv, PlaceInv, FailureInv, DoneInv, Doing, Whole,
         Connect
<1>8. \A s \in Requests \ {r} : RequestInv(s)'
  BY <1>2, <1>3, OtherKept
<1> QED  BY <1>1, <1>4, <1>5, <1>6, <1>7, <1>8 DEF Inv, RequestInv

\* A failed login closes the connection.
LEMMA LoginInv ==
    ASSUME Inv, NEW r \in Requests, NEW ok \in BOOLEAN, Login(r, ok)
    PROVE  Inv'
<1>1. Types'
  <2>1. Values'
    BY DEF Inv, Types, Values, Login
  <2>2. Sets' /\ Entries'
    BY DEF Inv, Types, Sets, Entries, Login
  <2> QED  BY <2>1, <2>2 DEF Types
<1>2. StepOf(r)
  BY DEF Exclusive, Inv, Types, Values, StepOf, Same, Login
<1>3. /\ RequestInv(r) /\ Values
      /\ UNCHANGED <<owner, data, attached, late, plain>>
      /\ Exclusive' <=> Exclusive
  BY DEF Exclusive, Inv, Types, Login
<1>4. PlaceInv(r)' /\ FailureInv(r)'
  BY <1>3 DEF Values, RequestInv, PlaceInv, FailureInv, Login
<1>5. LateInv(r)' /\ SpoiltInv(r)' /\ OwnInv(r)'
  BY <1>3 DEF Values, RequestInv, LateInv, FailureInv, SpoiltInv, OwnInv, Login
<1>6. BudgetInv(r)'
  BY <1>3, OwnStored DEF Values, RequestInv, BudgetInv, FailureInv, Login
<1>7. DoneInv(r)'
  BY <1>2, <1>3, OwnAlone, OwnDone
     DEF Values, RequestInv, PlaceInv, FailureInv, DoneInv, Doing, Whole, Login
<1>8. \A s \in Requests \ {r} : RequestInv(s)'
  BY <1>2, <1>3, OtherKept
<1> QED  BY <1>1, <1>4, <1>5, <1>6, <1>7, <1>8 DEF Inv, RequestInv

\* The look at the remote path.
LEMMA LookInv ==
    ASSUME Inv, NEW r \in Requests, NEW ok \in BOOLEAN, Look(r, ok)
    PROVE  Inv'
<1>1. Types'
  <2>1. Values'
    BY DEF Inv, Types, Values, Look
  <2>2. Sets' /\ Entries'
    BY DEF Inv, Types, Sets, Entries, Look
  <2> QED  BY <2>1, <2>2 DEF Types
<1>2. StepOf(r)
  BY DEF Exclusive, Inv, Types, Values, StepOf, Same, Look
<1>3. /\ RequestInv(r) /\ Values
      /\ UNCHANGED <<owner, data, attached, late, plain>>
      /\ Exclusive' <=> Exclusive
  BY DEF Exclusive, Inv, Types, Look
<1>4. PlaceInv(r)' /\ FailureInv(r)'
  BY <1>3 DEF Values, RequestInv, PlaceInv, FailureInv, Look
<1>5. LateInv(r)' /\ SpoiltInv(r)' /\ OwnInv(r)'
  BY <1>3 DEF Values, RequestInv, LateInv, FailureInv, SpoiltInv, OwnInv, Look
<1>6. BudgetInv(r)'
  BY <1>3, OwnStored DEF Values, RequestInv, BudgetInv, FailureInv, Look
<1>7. DoneInv(r)'
  BY <1>2, <1>3, OwnAlone, OwnDone
     DEF Values, RequestInv, PlaceInv, FailureInv, DoneInv, Doing, Whole, Look
<1>8. \A s \in Requests \ {r} : RequestInv(s)'
  BY <1>2, <1>3, OtherKept
<1> QED  BY <1>1, <1>4, <1>5, <1>6, <1>7, <1>8 DEF Inv, RequestInv

\* An attempt starts with the first file.
LEMMA AdmitInv ==
    ASSUME Inv, NEW r \in Requests, NEW ok \in BOOLEAN, Admit(r, ok)
    PROVE  Inv'
<1>1. Types'
  <2>1. Values'
    BY DEF Inv, Types, Values, Admit
  <2>2. Sets' /\ Entries'
    BY DEF Inv, Types, Sets, Entries, Admit
  <2> QED  BY <2>1, <2>2 DEF Types
<1>2. StepOf(r)
  BY DEF Exclusive, Inv, Types, Values, StepOf, Same, Admit
<1>3. /\ RequestInv(r) /\ Values
      /\ UNCHANGED <<owner, data, attached, late, plain>>
      /\ Exclusive' <=> Exclusive
  BY DEF Exclusive, Inv, Types, Admit
<1>4. PlaceInv(r)' /\ FailureInv(r)'
  BY <1>3 DEF Values, RequestInv, PlaceInv, FailureInv, Admit
<1>5. LateInv(r)' /\ SpoiltInv(r)' /\ OwnInv(r)'
  BY <1>3 DEF Values, RequestInv, LateInv, FailureInv, SpoiltInv, OwnInv, Admit
<1>6. BudgetInv(r)'
  BY <1>3, OwnStored DEF Values, RequestInv, BudgetInv, FailureInv, Admit
<1>7. DoneInv(r)'
  BY <1>2, <1>3, OwnAlone, OwnDone
     DEF Values, RequestInv, PlaceInv, FailureInv, DoneInv, Doing, Whole, Admit
<1>8. \A s \in Requests \ {r} : RequestInv(s)'
  BY <1>2, <1>3, OtherKept
<1> QED  BY <1>1, <1>4, <1>5, <1>6, <1>7, <1>8 DEF Inv, RequestInv

\* A command that changes no local file.
LEMMA RemoteCommandInv ==
    ASSUME Inv, NEW r \in Requests, NEW ok \in BOOLEAN, RemoteCommand(r, ok)
    PROVE  Inv'
<1>1. Types'
  <2>1. Values'
    BY DEF Inv, Types, Values, RemoteCommand
  <2>2. Sets' /\ Entries'
    BY DEF Inv, Types, Sets, Entries, RemoteCommand
  <2> QED  BY <2>1, <2>2 DEF Types
<1>2. StepOf(r)
  BY DEF Exclusive, Inv, Types, Values, StepOf, Same, RemoteCommand
<1>3. /\ RequestInv(r) /\ Values
      /\ UNCHANGED <<owner, data, attached, late, plain>>
      /\ Exclusive' <=> Exclusive
  BY DEF Exclusive, Inv, Types, RemoteCommand
<1>4. PlaceInv(r)' /\ FailureInv(r)'
  BY <1>3 DEF Values, RequestInv, PlaceInv, FailureInv, RemoteCommand
<1>5. LateInv(r)' /\ SpoiltInv(r)' /\ OwnInv(r)'
  BY <1>3
     DEF Values, RequestInv, LateInv, FailureInv, SpoiltInv, OwnInv,
         RemoteCommand
<1>6. BudgetInv(r)'
  BY <1>3, OwnStored
     DEF Values, RequestInv, BudgetInv, FailureInv, RemoteCommand
<1>7. DoneInv(r)'
  BY <1>2, <1>3, OwnAlone, OwnDone
     DEF Values, RequestInv, PlaceInv, FailureInv, DoneInv, Doing, Whole,
         RemoteCommand
<1>8. \A s \in Requests \ {r} : RequestInv(s)'
  BY <1>2, <1>3, OtherKept
<1> QED  BY <1>1, <1>4, <1>5, <1>6, <1>7, <1>8 DEF Inv, RequestInv

\* Only a network failure is retried, so nothing that was spoilt or cancelled.
LEMMA SettleInv ==
    ASSUME Inv, NEW r \in Requests, Settle(r)
    PROVE  Inv'
<1>1. Types'
  <2>1. Values'
    BY DEF Inv, Types, Values, Settle, Retry, Retriable, StatsAfter
  <2>2. Sets' /\ Entries'
    BY DEF Inv, Types, Sets, Entries, Settle, Retry, Retriable, StatsAfter
  <2> QED  BY <2>1, <2>2 DEF Types
<1>2. StepOf(r)
  BY DEF Exclusive, Inv, Types, Values, StepOf, Same, Settle, Retry, Retriable,
         StatsAfter
<1>3. /\ RequestInv(r) /\ Values
      /\ UNCHANGED <<owner, data, attached, late, plain>>
      /\ Exclusive' <=> Exclusive
  BY DEF Exclusive, Inv, Types, Settle
<1>4. PlaceInv(r)' /\ FailureInv(r)'
  <2>1. PlaceInv(r)'
    BY <1>3 DEF Values, RequestInv, PlaceInv, Settle, Retry
  <2>2. FailureInv(r)'
    <3>1. /\ UNCHANGED <<result, cancels, spoilt, interrupted, plain>>
          /\ \/ failure[r] = None /\ failure'[r] = None
                /\ pc'[r] \in {"stat", "leave"}
             \/ failure[r] = "network" /\ failure'[r] = None
                /\ pc'[r] = "backoff"
             \/ failure[r] = "local" /\ r \in plain /\ failure'[r] = None
                /\ pc'[r] = "backoff"
             \/ failure[r] # None /\ failure'[r] = failure[r]
                /\ pc'[r] = "leave"
      BY <1>3 DEF Values, Settle, Retriable
    <3>2. FailureInv(r) /\ pc[r] = "settle"
      BY <1>3 DEF RequestInv, Settle
    <3> QED  BY <3>1, <3>2 DEF FailureInv
  <2> QED  BY <2>1, <2>2
<1>5. LateInv(r)' /\ SpoiltInv(r)' /\ OwnInv(r)'
  BY <1>3
     DEF Values, RequestInv, LateInv, FailureInv, SpoiltInv, OwnInv, Settle,
         Retry, Retriable, StatsAfter
<1>6. BudgetInv(r)'
  BY <1>3, OwnStored
     DEF Values, RequestInv, BudgetInv, FailureInv, Settle, Retry, Retriable,
         StatsAfter
<1>7. DoneInv(r)'
  BY <1>2, <1>3, OwnAlone, OwnDone
     DEF Values, RequestInv, PlaceInv, FailureInv, DoneInv, Doing, Whole,
         Settle, Retry, Retriable, StatsAfter
<1>8. \A s \in Requests \ {r} : RequestInv(s)'
  BY <1>2, <1>3, OtherKept
<1> QED  BY <1>1, <1>4, <1>5, <1>6, <1>7, <1>8 DEF Inv, RequestInv

\* The file_stats of a successful operation.
LEMMA StatInv ==
    ASSUME Inv, NEW r \in Requests, NEW ok \in BOOLEAN, Stat(r, ok)
    PROVE  Inv'
<1>1. Types'
  <2>1. Values'
    BY DEF Inv, Types, Values, Stat
  <2>2. Sets' /\ Entries'
    BY DEF Inv, Types, Sets, Entries, Stat
  <2> QED  BY <2>1, <2>2 DEF Types
<1>2. StepOf(r)
  BY DEF Exclusive, Inv, Types, Values, StepOf, Same, Stat
<1>3. /\ RequestInv(r) /\ Values
      /\ UNCHANGED <<owner, data, attached, late, plain>>
      /\ Exclusive' <=> Exclusive
  BY DEF Exclusive, Inv, Types, Stat
<1>4. PlaceInv(r)' /\ FailureInv(r)'
  BY <1>3 DEF Values, RequestInv, PlaceInv, FailureInv, Stat
<1>5. LateInv(r)' /\ SpoiltInv(r)' /\ OwnInv(r)'
  BY <1>3 DEF Values, RequestInv, LateInv, FailureInv, SpoiltInv, OwnInv, Stat
<1>6. BudgetInv(r)'
  BY <1>3, OwnStored DEF Values, RequestInv, BudgetInv, FailureInv, Stat
<1>7. DoneInv(r)'
  BY <1>2, <1>3, OwnAlone, OwnDone
     DEF Values, RequestInv, PlaceInv, FailureInv, DoneInv, Doing, Whole, Stat
<1>8. \A s \in Requests \ {r} : RequestInv(s)'
  BY <1>2, <1>3, OtherKept
<1> QED  BY <1>1, <1>4, <1>5, <1>6, <1>7, <1>8 DEF Inv, RequestInv

\* A failing quit() does not hide a cancellation.
LEMMA LeaveFtpInv ==
    ASSUME Inv, NEW r \in Requests, NEW ok \in BOOLEAN, LeaveFtp(r, ok)
    PROVE  Inv'
<1>1. Types'
  <2>1. Values'
    BY DEF Inv, Types, Values, LeaveFtp, Reported
  <2>2. Sets' /\ Entries'
    BY DEF Inv, Types, Sets, Entries, LeaveFtp, Reported
  <2> QED  BY <2>1, <2>2 DEF Types
<1>2. StepOf(r)
  BY DEF Exclusive, Inv, Types, Values, StepOf, Same, LeaveFtp, Reported
<1>3. /\ RequestInv(r) /\ Values
      /\ UNCHANGED <<owner, data, attached, late, plain>>
      /\ Exclusive' <=> Exclusive
  BY DEF Exclusive, Inv, Types, LeaveFtp
<1>4. PlaceInv(r)' /\ FailureInv(r)'
  BY <1>3 DEF Values, RequestInv, PlaceInv, FailureInv, LeaveFtp, Reported
<1>5. LateInv(r)' /\ SpoiltInv(r)' /\ OwnInv(r)'
  BY <1>3
     DEF Values, RequestInv, LateInv, FailureInv, SpoiltInv, OwnInv, LeaveFtp,
         Reported
<1>6. BudgetInv(r)'
  BY <1>3, OwnStored
     DEF Values, RequestInv, BudgetInv, FailureInv, LeaveFtp, Reported
<1>7. DoneInv(r)'
  BY <1>2, <1>3, OwnAlone, OwnDone
     DEF Values, RequestInv, PlaceInv, FailureInv, DoneInv, Doing, Whole,
         LeaveFtp, Reported
<1>8. \A s \in Requests \ {r} : RequestInv(s)'
  BY <1>2, <1>3, OtherKept
<1> QED  BY <1>1, <1>4, <1>5, <1>6, <1>7, <1>8 DEF Inv, RequestInv

\* The SFTP session closes without a word.
LEMMA LeaveSftpInv ==
    ASSUME Inv, NEW r \in Requests, LeaveSftp(r)
    PROVE  Inv'
<1>1. Types'
  <2>1. Values'
    BY DEF Inv, Types, Values, LeaveSftp
  <2>2. Sets' /\ Entries'
    BY DEF Inv, Types, Sets, Entries, LeaveSftp
  <2> QED  BY <2>1, <2>2 DEF Types
<1>2. StepOf(r)
  BY DEF Exclusive, Inv, Types, Values, StepOf, Same, LeaveSftp
<1>3. /\ RequestInv(r) /\ Values
      /\ UNCHANGED <<owner, data, attached, late, plain>>
      /\ Exclusive' <=> Exclusive
  BY DEF Exclusive, Inv, Types, LeaveSftp
<1>4. PlaceInv(r)' /\ FailureInv(r)'
  BY <1>3 DEF Values, RequestInv, PlaceInv, FailureInv, LeaveSftp
<1>5. LateInv(r)' /\ SpoiltInv(r)' /\ OwnInv(r)'
  BY <1>3
     DEF Values, RequestInv, LateInv, FailureInv, SpoiltInv, OwnInv, LeaveSftp
<1>6. BudgetInv(r)'
  BY <1>3, OwnStored DEF Values, RequestInv, BudgetInv, FailureInv, LeaveSftp
<1>7. DoneInv(r)'
  BY <1>2, <1>3, OwnAlone, OwnDone
     DEF Values, RequestInv, PlaceInv, FailureInv, DoneInv, Doing, Whole,
         LeaveSftp
<1>8. \A s \in Requests \ {r} : RequestInv(s)'
  BY <1>2, <1>3, OtherKept
<1> QED  BY <1>1, <1>4, <1>5, <1>6, <1>7, <1>8 DEF Inv, RequestInv

\* The local directory.
LEMMA MkdirInv ==
    ASSUME Inv, NEW r \in Requests, NEW ok \in BOOLEAN, Mkdir(r, ok)
    PROVE  Inv'
<1>1. Types'
  <2>1. Values'
    BY DEF Inv, Types, Values, Mkdir, Unopened, LocalFailure
  <2>2. Sets' /\ Entries'
    BY DEF Inv, Types, Sets, Entries, Mkdir, Unopened, LocalFailure
  <2> QED  BY <2>1, <2>2 DEF Types
<1>2. StepOf(r)
  BY DEF Exclusive, Inv, Types, Values, StepOf, Same, Mkdir, Unopened,
         LocalFailure
<1>3. /\ RequestInv(r) /\ Values
      /\ UNCHANGED <<owner, data, attached, late, plain>>
      /\ Exclusive' <=> Exclusive
  BY DEF Exclusive, Inv, Types, Mkdir, Unopened, LocalFailure
<1>4. PlaceInv(r)' /\ FailureInv(r)'
  BY <1>3
     DEF Values, RequestInv, PlaceInv, FailureInv, Mkdir, Unopened,
         LocalFailure
<1>5. LateInv(r)' /\ SpoiltInv(r)' /\ OwnInv(r)'
  BY <1>3
     DEF Values, RequestInv, LateInv, FailureInv, SpoiltInv, OwnInv, Mkdir,
         Unopened, LocalFailure
<1>6. BudgetInv(r)'
  BY <1>3, OwnStored
     DEF Values, RequestInv, BudgetInv, FailureInv, Mkdir, Unopened,
         LocalFailure
<1>7. DoneInv(r)'
  BY <1>2, <1>3, OwnAlone, OwnDone
     DEF Values, RequestInv, PlaceInv, FailureInv, DoneInv, Doing, Whole,
         Mkdir, Unopened, LocalFailure
<1>8. \A s \in Requests \ {r} : RequestInv(s)'
  BY <1>2, <1>3, OtherKept
<1> QED  BY <1>1, <1>4, <1>5, <1>6, <1>7, <1>8 DEF Inv, RequestInv

\* The end of a file, or of the connection.
LEMMA NoMoreBlocksInv ==
    ASSUME Inv, NEW r \in Requests, NoMoreBlocks(r)
    PROVE  Inv'
<1>1. Types'
  <2>1. Values'
    BY DEF Inv, Types, Values, NoMoreBlocks
  <2>2. Sets' /\ Entries'
    BY DEF Inv, Types, Sets, Entries, NoMoreBlocks
  <2> QED  BY <2>1, <2>2 DEF Types
<1>2. StepOf(r)
  BY DEF Exclusive, Inv, Types, Values, StepOf, Same, NoMoreBlocks
<1>3. /\ RequestInv(r) /\ Values
      /\ UNCHANGED <<owner, data, attached, late, plain>>
      /\ Exclusive' <=> Exclusive
  BY DEF Exclusive, Inv, Types, NoMoreBlocks
<1>4. PlaceInv(r)' /\ FailureInv(r)'
  BY <1>3 DEF Values, RequestInv, PlaceInv, FailureInv, NoMoreBlocks
<1>5. LateInv(r)' /\ SpoiltInv(r)' /\ OwnInv(r)'
  BY <1>3
     DEF Values, RequestInv, LateInv, FailureInv, SpoiltInv, OwnInv,
         NoMoreBlocks
<1>6. BudgetInv(r)'
  BY <1>3, OwnStored
     DEF Values, RequestInv, BudgetInv, FailureInv, NoMoreBlocks
<1>7. DoneInv(r)'
  BY <1>2, <1>3, OwnAlone, OwnDone
     DEF Values, RequestInv, PlaceInv, FailureInv, DoneInv, Doing, Whole,
         NoMoreBlocks
<1>8. \A s \in Requests \ {r} : RequestInv(s)'
  BY <1>2, <1>3, OtherKept
<1> QED  BY <1>1, <1>4, <1>5, <1>6, <1>7, <1>8 DEF Inv, RequestInv

-----------------------------------------------------------------------------
(* The file calls that leave entries and blocks as they are.               *)

\* The block is charged before it is written.
LEMMA FtpBlockInv ==
    ASSUME Inv, NEW r \in Requests, FtpBlock(r)
    PROVE  Inv'
<1>1. Types'
  <2>1. Values'
    <3>1. Values /\ written[r] <= Limit
      BY DEF Inv, Types, Values, RequestInv, BudgetInv, FtpBlock
    <3>2. written[r] + 1 \in 0..(Limit + 1)
      BY <3>1 DEF Values
    <3> QED  BY <3>1, <3>2 DEF Values, FtpBlock
  <2>2. Sets'
    BY DEF Inv, Types, Values, Sets, FtpBlock, Spend
  <2>3. Entries'
    BY DEF Inv, Types, Entries, FtpBlock, Spend
  <2> QED  BY <2>1, <2>2, <2>3 DEF Types
<1>2. StepOf(r)
  BY DEF Exclusive, Inv, Types, Values, StepOf, Same, FtpBlock, Spend
<1>3. /\ RequestInv(r) /\ Values
      /\ UNCHANGED <<owner, data, attached, late, plain>>
      /\ Exclusive' <=> Exclusive
  BY DEF Exclusive, Inv, Types, FtpBlock, Spend
<1>4. PlaceInv(r)'
  BY <1>3 DEF Values, RequestInv, PlaceInv, FtpBlock, Spend
<1>5. FailureInv(r)'
  BY <1>3 DEF Values, RequestInv, FailureInv, FtpBlock, Spend
<1>6. LateInv(r)' /\ SpoiltInv(r)' /\ OwnInv(r)'
  <2>1. LateInv(r)'
    BY <1>3 DEF Values, RequestInv, LateInv, FailureInv, FtpBlock, Spend
  <2>2. SpoiltInv(r)'
    BY <1>3 DEF Values, RequestInv, SpoiltInv, FailureInv, FtpBlock, Spend
  <2>3. OwnInv(r)'
    BY <1>3 DEF Values, RequestInv, OwnInv, LateInv, FtpBlock, Spend
  <2> QED  BY <2>1, <2>2, <2>3
<1>7. BudgetInv(r)'
  BY <1>3, OwnStored
     DEF Values, RequestInv, BudgetInv, FailureInv, FtpBlock, Spend
<1>8. DoneInv(r)'
  <2> SUFFICES ASSUME op[r] = "download", Alone(r)'
               PROVE  DoneInv(r)'
    BY DEF DoneInv, FtpBlock
  <2>1. DoneInv(r) /\ Alone(r)
    BY <1>2, <1>3, OwnAlone DEF RequestInv
  <2>2. Doing(r) /\ UNCHANGED <<cur, pos, attempt>>
    BY <1>3 DEF Values, RequestInv, FailureInv, Doing, FtpBlock
  <2>3. ~Whole(r)' /\ pc'[r] # "open"
    BY <1>3 DEF Values, Whole, FtpBlock
  <2>4. \A f \in 1..(cur[r] - 1) : f \in 1..Files
    BY <1>3 DEF Values
  <2> QED  BY <1>3, <2>1, <2>2, <2>3, <2>4, OwnDone DEF DoneInv
<1>9. \A s \in Requests \ {r} : RequestInv(s)'
  BY <1>2, <1>3, OtherKept
<1> QED  BY <1>1, <1>4, <1>5, <1>6, <1>7, <1>8, <1>9 DEF Inv, RequestInv

\* The close before the unlink.
LEMMA FtpDiscardInv ==
    ASSUME Inv, NEW r \in Requests, FtpDiscard(r)
    PROVE  Inv'
<1>1. Types'
  <2>1. Values'
    BY DEF Inv, Types, Values, FtpDiscard
  <2>2. Sets'
    BY DEF Inv, Types, Values, Sets, FtpDiscard
  <2>3. Entries'
    BY DEF Inv, Types, Entries, FtpDiscard
  <2> QED  BY <2>1, <2>2, <2>3 DEF Types
<1>2. StepOf(r)
  BY DEF Exclusive, Inv, Types, Values, StepOf, Same, FtpDiscard
<1>3. /\ RequestInv(r) /\ Values
      /\ UNCHANGED <<owner, data, plain>>
      /\ Exclusive' <=> Exclusive
  BY DEF Exclusive, Inv, Types, FtpDiscard
<1>4. PlaceInv(r)'
  BY <1>3 DEF Values, RequestInv, PlaceInv, FtpDiscard
<1>5. FailureInv(r)'
  BY <1>3 DEF Values, RequestInv, FailureInv, FtpDiscard
<1>6. LateInv(r)' /\ SpoiltInv(r)' /\ OwnInv(r)'
  <2>1. LateInv(r)'
    BY <1>3 DEF Values, RequestInv, LateInv, FailureInv, FtpDiscard
  <2>2. SpoiltInv(r)'
    BY <1>3 DEF Values, RequestInv, SpoiltInv, FailureInv, FtpDiscard
  <2>3. OwnInv(r)'
    BY <1>3 DEF Values, RequestInv, OwnInv, LateInv, FtpDiscard
  <2> QED  BY <2>1, <2>2, <2>3
<1>7. BudgetInv(r)'
  BY <1>3, OwnStored DEF Values, RequestInv, BudgetInv, FailureInv, FtpDiscard
<1>8. DoneInv(r)'
  BY <1>2, <1>3, OwnAlone, OwnDone
     DEF Values, RequestInv, PlaceInv, FailureInv, DoneInv, Doing, Whole,
         FtpDiscard
<1>9. \A s \in Requests \ {r} : RequestInv(s)'
  <2>1. \A s \in Requests \ {r} : s \in attached' <=> s \in attached
    BY DEF FtpDiscard
  <2> QED  BY <1>2, <1>3, <2>1, OtherKept
<1> QED  BY <1>1, <1>4, <1>5, <1>6, <1>7, <1>8, <1>9 DEF Inv, RequestInv

\* A closed file is whole, or is about to be unlinked.
LEMMA FtpCloseInv ==
    ASSUME Inv, NEW r \in Requests, NEW ok \in BOOLEAN, FtpClose(r, ok)
    PROVE  Inv'
<1>1. Types'
  <2>1. Values'
    BY DEF Inv, Types, Values, FtpClose, Closed, FlushFails
  <2>2. Sets'
    BY DEF Inv, Types, Values, Sets, FtpClose, Closed, FlushFails
  <2>3. Entries'
    BY DEF Inv, Types, Entries, FtpClose, Closed, FlushFails
  <2> QED  BY <2>1, <2>2, <2>3 DEF Types
<1>2. StepOf(r)
  BY DEF Exclusive, Inv, Types, Values, StepOf, Same, FtpClose, Closed,
         FlushFails
<1>3. /\ RequestInv(r) /\ Values
      /\ UNCHANGED <<owner, data, plain>>
      /\ Exclusive' <=> Exclusive
  BY DEF Exclusive, Inv, Types, FtpClose, Closed, FlushFails
<1>4. PlaceInv(r)'
  BY <1>3 DEF Values, RequestInv, PlaceInv, FtpClose, Closed, FlushFails
<1>5. FailureInv(r)'
  BY <1>3 DEF Values, RequestInv, FailureInv, FtpClose, Closed, FlushFails
<1>6. LateInv(r)' /\ SpoiltInv(r)' /\ OwnInv(r)'
  <2>1. LateInv(r)'
    BY <1>3
       DEF Values, RequestInv, LateInv, FailureInv, FtpClose, Closed,
           FlushFails
  <2>2. SpoiltInv(r)'
    BY <1>3
       DEF Values, RequestInv, SpoiltInv, FailureInv, FtpClose, Closed,
           FlushFails
  <2>3. OwnInv(r)'
    BY <1>3
       DEF Values, RequestInv, OwnInv, LateInv, FtpClose, Closed, FlushFails
  <2> QED  BY <2>1, <2>2, <2>3
<1>7. BudgetInv(r)'
  BY <1>3, OwnStored
     DEF Values, RequestInv, BudgetInv, FailureInv, FtpClose, Closed,
         FlushFails
<1>8. DoneInv(r)'
  <2> SUFFICES ASSUME op[r] = "download", Alone(r)'
               PROVE  DoneInv(r)'
    BY DEF DoneInv, FtpClose
  <2>1. DoneInv(r) /\ Alone(r) /\ OwnInv(r) /\ PlaceInv(r)
    BY <1>2, <1>3, OwnAlone DEF RequestInv
  <2>2. failure[r] = None => \A f \in 1..cur[r] : Done(r, f)
    <3> SUFFICES ASSUME failure[r] = None, NEW f \in 1..cur[r]
                 PROVE  Done(r, f)
      OBVIOUS
    <3>1. Doing(r) /\ f \in 1..Files
      BY <1>3 DEF Doing, Values, FtpClose
    <3>2. CASE f = cur[r]
      BY <1>3, <2>1, <3>1, <3>2
         DEF Values, DoneInv, Done, WholeFile, Doing, OwnInv, PlaceInv
    <3>3. CASE f # cur[r]
      <4>1. f \in 1..(cur[r] - 1)
        BY <1>3, <3>3 DEF Values
      <4> QED  BY <2>1, <3>1, <4>1 DEF DoneInv
    <3> QED  BY <3>2, <3>3
  <2>3. failure[r] = None => \A f \in 1..cur[r] : Done(r, f)'
    <3>1. attempt'[r] = attempt[r] /\ \A f \in 1..cur[r] : f \in 1..Files
      BY <1>3 DEF Values, FtpClose
    <3> QED  BY <1>3, <2>2, <3>1, OwnDone
  <2> QED  BY <1>3, <2>3
           DEF Values, DoneInv, Doing, Whole, FtpClose, Closed, FlushFails
<1>9. \A s \in Requests \ {r} : RequestInv(s)'
  <2>1. \A s \in Requests \ {r} : s \in attached' <=> s \in attached
    BY DEF FtpClose, Closed, FlushFails
  <2> QED  BY <1>2, <1>3, <2>1, OtherKept
<1> QED  BY <1>1, <1>4, <1>5, <1>6, <1>7, <1>8, <1>9 DEF Inv, RequestInv

\* The same for SFTP.
LEMMA SftpCloseInv ==
    ASSUME Inv, NEW r \in Requests, NEW ok \in BOOLEAN, SftpClose(r, ok)
    PROVE  Inv'
<1>1. Types'
  <2>1. Values'
    BY DEF Inv, Types, Values, SftpClose, Closed, FlushFails
  <2>2. Sets'
    BY DEF Inv, Types, Values, Sets, SftpClose, Closed, FlushFails
  <2>3. Entries'
    BY DEF Inv, Types, Entries, SftpClose, Closed, FlushFails
  <2> QED  BY <2>1, <2>2, <2>3 DEF Types
<1>2. StepOf(r)
  BY DEF Exclusive, Inv, Types, Values, StepOf, Same, SftpClose, Closed,
         FlushFails
<1>3. /\ RequestInv(r) /\ Values
      /\ UNCHANGED <<owner, data, plain>>
      /\ Exclusive' <=> Exclusive
  BY DEF Exclusive, Inv, Types, SftpClose, Closed, FlushFails
<1>4. PlaceInv(r)'
  BY <1>3 DEF Values, RequestInv, PlaceInv, SftpClose, Closed, FlushFails
<1>5. FailureInv(r)'
  BY <1>3 DEF Values, RequestInv, FailureInv, SftpClose, Closed, FlushFails
<1>6. LateInv(r)' /\ SpoiltInv(r)' /\ OwnInv(r)'
  <2>1. LateInv(r)'
    BY <1>3
       DEF Values, RequestInv, LateInv, FailureInv, SftpClose, Closed,
           FlushFails
  <2>2. SpoiltInv(r)'
    BY <1>3
       DEF Values, RequestInv, SpoiltInv, FailureInv, SftpClose, Closed,
           FlushFails
  <2>3. OwnInv(r)'
    BY <1>3
       DEF Values, RequestInv, OwnInv, LateInv, SftpClose, Closed, FlushFails
  <2> QED  BY <2>1, <2>2, <2>3
<1>7. BudgetInv(r)'
  BY <1>3, OwnStored
     DEF Values, RequestInv, BudgetInv, FailureInv, SftpClose, Closed,
         FlushFails
<1>8. DoneInv(r)'
  <2> SUFFICES ASSUME op[r] = "download", Alone(r)'
               PROVE  DoneInv(r)'
    BY DEF DoneInv, SftpClose
  <2>1. DoneInv(r) /\ Alone(r) /\ OwnInv(r) /\ PlaceInv(r)
    BY <1>2, <1>3, OwnAlone DEF RequestInv
  <2>2. failure[r] = None => \A f \in 1..cur[r] : Done(r, f)
    <3> SUFFICES ASSUME failure[r] = None, NEW f \in 1..cur[r]
                 PROVE  Done(r, f)
      OBVIOUS
    <3>1. Doing(r) /\ f \in 1..Files
      BY <1>3 DEF Doing, Values, SftpClose
    <3>2. CASE f = cur[r]
      BY <1>3, <2>1, <3>1, <3>2
         DEF Values, DoneInv, Done, WholeFile, Doing, OwnInv, PlaceInv
    <3>3. CASE f # cur[r]
      <4>1. f \in 1..(cur[r] - 1)
        BY <1>3, <3>3 DEF Values
      <4> QED  BY <2>1, <3>1, <4>1 DEF DoneInv
    <3> QED  BY <3>2, <3>3
  <2>3. failure[r] = None => \A f \in 1..cur[r] : Done(r, f)'
    <3>1. attempt'[r] = attempt[r] /\ \A f \in 1..cur[r] : f \in 1..Files
      BY <1>3 DEF Values, SftpClose
    <3> QED  BY <1>3, <2>2, <3>1, OwnDone
  <2> QED  BY <1>3, <2>3
           DEF Values, DoneInv, Doing, Whole, SftpClose, Closed, FlushFails
<1>9. \A s \in Requests \ {r} : RequestInv(s)'
  <2>1. \A s \in Requests \ {r} : s \in attached' <=> s \in attached
    BY DEF SftpClose, Closed, FlushFails
  <2> QED  BY <1>2, <1>3, <2>1, OtherKept
<1> QED  BY <1>1, <1>4, <1>5, <1>6, <1>7, <1>8, <1>9 DEF Inv, RequestInv

\* The file of a plain download is closed, whole or not.
LEMMA PlainCloseInv ==
    ASSUME Inv, NEW r \in Requests, NEW ok \in BOOLEAN, PlainClose(r, ok)
    PROVE  Inv'
<1>1. Types'
  <2>1. Values'
    BY DEF Inv, Types, Values, PlainClose, Closed, LocalFailure
  <2>2. Sets'
    BY DEF Inv, Types, Values, Sets, PlainClose, Closed, LocalFailure
  <2>3. Entries'
    BY DEF Inv, Types, Entries, PlainClose, Closed, LocalFailure
  <2> QED  BY <2>1, <2>2, <2>3 DEF Types
<1>2. StepOf(r)
  BY DEF Exclusive, Inv, Types, Values, StepOf, Same, PlainClose, Closed,
         LocalFailure
<1>3. /\ RequestInv(r) /\ Values
      /\ UNCHANGED <<owner, data, plain>>
      /\ Exclusive' <=> Exclusive
  BY DEF Exclusive, Inv, Types, PlainClose, Closed, LocalFailure
<1>4. PlaceInv(r)'
  BY <1>3 DEF Values, RequestInv, PlaceInv, PlainClose, Closed, LocalFailure
<1>5. FailureInv(r)'
  BY <1>3 DEF Values, RequestInv, FailureInv, PlainClose, Closed, LocalFailure
<1>6. LateInv(r)' /\ SpoiltInv(r)' /\ OwnInv(r)'
  <2>1. LateInv(r)'
    BY <1>3
       DEF Values, RequestInv, LateInv, FailureInv, PlainClose, Closed,
           LocalFailure
  <2>2. SpoiltInv(r)'
    BY <1>3
       DEF Values, RequestInv, SpoiltInv, FailureInv, PlainClose, Closed,
           LocalFailure
  <2>3. OwnInv(r)'
    BY <1>3
       DEF Values, RequestInv, OwnInv, LateInv, PlainClose, Closed, LocalFailure
  <2> QED  BY <2>1, <2>2, <2>3
<1>7. BudgetInv(r)'
  BY <1>3, OwnStored
     DEF Values, RequestInv, BudgetInv, FailureInv, PlainClose, Closed,
         LocalFailure
<1>8. DoneInv(r)'
  <2> SUFFICES ASSUME op[r] = "download", Alone(r)'
               PROVE  DoneInv(r)'
    BY DEF DoneInv, PlainClose
  <2>1. DoneInv(r) /\ Alone(r) /\ OwnInv(r) /\ PlaceInv(r)
    BY <1>2, <1>3, OwnAlone DEF RequestInv
  <2>2. failure[r] = None => \A f \in 1..cur[r] : Done(r, f)
    <3> SUFFICES ASSUME failure[r] = None, NEW f \in 1..cur[r]
                 PROVE  Done(r, f)
      OBVIOUS
    <3>1. Doing(r) /\ f \in 1..Files
      BY <1>3 DEF Doing, Values, PlainClose
    <3>2. CASE f = cur[r]
      BY <1>3, <2>1, <3>1, <3>2
         DEF Values, DoneInv, Done, WholeFile, Doing, OwnInv, PlaceInv
    <3>3. CASE f # cur[r]
      <4>1. f \in 1..(cur[r] - 1)
        BY <1>3, <3>3 DEF Values
      <4> QED  BY <2>1, <3>1, <4>1 DEF DoneInv
    <3> QED  BY <3>2, <3>3
  <2>3. failure[r] = None => \A f \in 1..cur[r] : Done(r, f)'
    <3>1. attempt'[r] = attempt[r] /\ \A f \in 1..cur[r] : f \in 1..Files
      BY <1>3 DEF Values, PlainClose
    <3> QED  BY <1>3, <2>2, <3>1, OwnDone
  <2> QED  BY <1>3, <2>3
           DEF Values, DoneInv, Doing, Whole, PlainClose, Closed, LocalFailure
<1>9. \A s \in Requests \ {r} : RequestInv(s)'
  <2>1. \A s \in Requests \ {r} : s \in attached' <=> s \in attached
    BY DEF PlainClose, Closed, LocalFailure
  <2> QED  BY <1>2, <1>3, <2>1, OtherKept
<1> QED  BY <1>1, <1>4, <1>5, <1>6, <1>7, <1>8, <1>9 DEF Inv, RequestInv

-----------------------------------------------------------------------------
(* Cancellations that leave entries and blocks as they are.                *)

\* There is no file open: the cancellation leaves the session.
LEMMA CancelSessionInv ==
    ASSUME Inv, NEW r \in Requests, CancelSession(r),
           cancels' = [cancels EXCEPT ![r] = @ + 1], UNCHANGED link
    PROVE  Inv'
<1>1. Types'
  <2>1. Values'
    BY DEF Inv, Types, Values, CancelSession
  <2>2. Sets'
    BY DEF Inv, Types, Values, Sets, CancelSession
  <2>3. Entries'
    BY DEF Inv, Types, Entries, CancelSession
  <2> QED  BY <2>1, <2>2, <2>3 DEF Types
<1>2. StepOf(r)
  BY DEF Exclusive, Inv, Types, Values, StepOf, Same, CancelSession
<1>3. /\ RequestInv(r) /\ Values
      /\ UNCHANGED <<owner, data, attached, late, plain>>
      /\ Exclusive' <=> Exclusive
  BY DEF Exclusive, Inv, Types, CancelSession
<1>4. PlaceInv(r)'
  BY <1>3 DEF Values, RequestInv, PlaceInv, CancelSession
<1>5. FailureInv(r)'
  BY <1>3 DEF Values, RequestInv, FailureInv, CancelSession
<1>6. LateInv(r)' /\ SpoiltInv(r)' /\ OwnInv(r)'
  <2>1. LateInv(r)'
    BY <1>3 DEF Values, RequestInv, LateInv, FailureInv, CancelSession
  <2>2. SpoiltInv(r)'
    BY <1>3 DEF Values, RequestInv, SpoiltInv, FailureInv, CancelSession
  <2>3. OwnInv(r)'
    BY <1>3 DEF Values, RequestInv, OwnInv, LateInv, CancelSession
  <2> QED  BY <2>1, <2>2, <2>3
<1>7. BudgetInv(r)'
  BY <1>3, OwnStored
     DEF Values, RequestInv, BudgetInv, FailureInv, CancelSession
<1>8. DoneInv(r)'
  BY <1>2, <1>3, OwnAlone, OwnDone
     DEF Values, RequestInv, PlaceInv, FailureInv, DoneInv, Doing, Whole,
         CancelSession
<1>9. \A s \in Requests \ {r} : RequestInv(s)'
  BY <1>2, <1>3, OtherKept
<1> QED  BY <1>1, <1>4, <1>5, <1>6, <1>7, <1>8, <1>9 DEF Inv, RequestInv

\* A cancelled close spoils the file.
LEMMA CancelCloseInv ==
    ASSUME Inv, NEW r \in Requests, CancelClose(r),
           cancels' = [cancels EXCEPT ![r] = @ + 1], UNCHANGED link
    PROVE  Inv'
<1>1. Types'
  <2>1. Values'
    BY DEF Inv, Types, Values, CancelClose
  <2>2. Sets'
    BY DEF Inv, Types, Values, Sets, CancelClose
  <2>3. Entries'
    BY DEF Inv, Types, Entries, CancelClose
  <2> QED  BY <2>1, <2>2, <2>3 DEF Types
<1>2. StepOf(r)
  BY DEF Exclusive, Inv, Types, Values, StepOf, Same, CancelClose
<1>3. /\ RequestInv(r) /\ Values
      /\ UNCHANGED <<owner, data, plain>>
      /\ Exclusive' <=> Exclusive
  BY DEF Exclusive, Inv, Types, CancelClose
<1>4. PlaceInv(r)'
  BY <1>3 DEF Values, RequestInv, PlaceInv, CancelClose
<1>5. FailureInv(r)'
  BY <1>3 DEF Values, RequestInv, FailureInv, CancelClose
<1>6. LateInv(r)' /\ SpoiltInv(r)' /\ OwnInv(r)'
  <2>1. LateInv(r)'
    BY <1>3 DEF Values, RequestInv, LateInv, FailureInv, CancelClose
  <2>2. SpoiltInv(r)'
    BY <1>3 DEF Values, RequestInv, SpoiltInv, FailureInv, CancelClose
  <2>3. OwnInv(r)'
    BY <1>3 DEF Values, RequestInv, OwnInv, LateInv, CancelClose
  <2> QED  BY <2>1, <2>2, <2>3
<1>7. BudgetInv(r)'
  BY <1>3, OwnStored DEF Values, RequestInv, BudgetInv, FailureInv, CancelClose
<1>8. DoneInv(r)'
  BY <1>2, <1>3, OwnAlone, OwnDone
     DEF Values, RequestInv, PlaceInv, FailureInv, DoneInv, Doing, Whole,
         CancelClose
<1>9. \A s \in Requests \ {r} : RequestInv(s)'
  <2>1. \A s \in Requests \ {r} : s \in attached' <=> s \in attached
    BY DEF CancelClose
  <2> QED  BY <1>2, <1>3, <2>1, OtherKept
<1> QED  BY <1>1, <1>4, <1>5, <1>6, <1>7, <1>8, <1>9 DEF Inv, RequestInv

\* A cancelled cleanup leaves the unlink to its thread, or undone.
LEMMA CancelCleanupInv ==
    ASSUME Inv, NEW r \in Requests, CancelCleanup(r),
           cancels' = [cancels EXCEPT ![r] = @ + 1], UNCHANGED link
    PROVE  Inv'
<1>1. Types'
  <2>1. Values'
    BY DEF Inv, Types, Values, CancelCleanup
  <2>2. Sets'
    BY DEF Inv, Types, Values, Sets, CancelCleanup
  <2>3. Entries'
    BY DEF Inv, Types, Entries, CancelCleanup
  <2> QED  BY <2>1, <2>2, <2>3 DEF Types
<1>2. StepOf(r)
  BY DEF Exclusive, Inv, Types, Values, StepOf, Same, CancelCleanup
<1>3. /\ RequestInv(r) /\ Values
      /\ UNCHANGED <<owner, data, plain>>
      /\ Exclusive' <=> Exclusive
  BY DEF Exclusive, Inv, Types, CancelCleanup
<1>4. PlaceInv(r)'
  BY <1>3 DEF Values, RequestInv, PlaceInv, CancelCleanup
<1>5. FailureInv(r)'
  BY <1>3 DEF Values, RequestInv, PlaceInv, FailureInv, CancelCleanup
<1>6. LateInv(r)' /\ SpoiltInv(r)' /\ OwnInv(r)'
  <2>1. LateInv(r)'
    BY <1>3
       DEF Values, RequestInv, PlaceInv, LateInv, FailureInv, CancelCleanup
  <2>2. SpoiltInv(r)'
    BY <1>3 DEF Values, RequestInv, SpoiltInv, FailureInv, CancelCleanup
  <2>3. OwnInv(r)'
    BY <1>3 DEF Values, RequestInv, OwnInv, LateInv, CancelCleanup
  <2> QED  BY <2>1, <2>2, <2>3
<1>7. BudgetInv(r)'
  BY <1>3, OwnStored
     DEF Values, RequestInv, BudgetInv, FailureInv, CancelCleanup
<1>8. DoneInv(r)'
  BY <1>2, <1>3, OwnAlone, OwnDone
     DEF Values, RequestInv, PlaceInv, FailureInv, DoneInv, Doing, Whole,
         CancelCleanup
<1>9. \A s \in Requests \ {r} : RequestInv(s)'
  <2>1. \A s \in Requests \ {r} : s \in attached' <=> s \in attached
    BY DEF CancelCleanup
  <2> QED  BY <1>2, <1>3, <2>1, OtherKept
<1> QED  BY <1>1, <1>4, <1>5, <1>6, <1>7, <1>8, <1>9 DEF Inv, RequestInv
-----------------------------------------------------------------------------
(* Blocks.                                                                 *)

\* A block goes into the entry's own file, one place after the last.
LEMMA StoreEntries ==
    ASSUME Inv, NEW r \in Requests, pos[r] < Blocks, Store(r), UNCHANGED owner
    PROVE  /\ Entries'
           /\ pos' \in [Requests -> 0..Blocks]
           /\ Stored(r)' \subseteq Stored(r) \cup {<<cur[r], pos[r] + 1>>}
<1>1. /\ pos \in [Requests -> 0..Blocks] /\ pos[r] \in 0..Blocks
      /\ cur[r] \in 1..Files /\ attempt[r] \in 1..Attempts
  BY DEF Inv, Types, Values
<1>2. pos[r] + 1 \in 1..Blocks
  BY <1>1
<1>3. <<r, attempt[r]>> \in (Requests \cup {None, Before}) \X (0..Attempts)
  BY <1>1
<1>4. Entries
  BY DEF Inv, Types
<1>5. Entries'
  BY <1>1, <1>2, <1>3, <1>4 DEF Entries, Store
<1>6. pos' \in [Requests -> 0..Blocks]
  BY <1>1, <1>2 DEF Store
<1>7. Stored(r)' \subseteq Stored(r) \cup {<<cur[r], pos[r] + 1>>}
  BY <1>1, <1>2, <1>4 DEF Entries, Store, Stored
<1> QED  BY <1>5, <1>6, <1>7

\* The charge for a block pays for it.
LEMMA StoreCharged ==
    ASSUME Inv, NEW r \in Requests, pos[r] < Blocks, UNCHANGED owner,
           Store(r) \/ UNCHANGED data
    PROVE  /\ Cardinality(Stored(r)) \in Nat
           /\ (Cardinality(Stored(r)))' \in Nat
           /\ (Cardinality(Stored(r)))' <= Cardinality(Stored(r)) + 1
<1>1. (Cardinality(Stored(r)))' = Cardinality(Stored(r)')
  OBVIOUS
<1>2. CASE Store(r)
  BY <1>1, <1>2, StoreEntries, StoredOneMore
<1>3. CASE UNCHANGED data
  BY <1>3, OwnStored
<1> QED  BY <1>2, <1>3

\* A request that does well goes on doing well.
LEMMA StoreDone ==
    ASSUME Inv, NEW r \in Requests, pos[r] < Blocks, Store(r), StepOf(r),
           UNCHANGED <<owner, cur, attempt, op, attached>>,
           Doing(r), Doing(r)'
    PROVE  DoneInv(r)'
<1> SUFFICES ASSUME op[r] = "download", Alone(r)'
             PROVE  DoneInv(r)'
  BY DEF DoneInv
<1>1. DoneInv(r) /\ Alone(r) /\ r \in attached
  BY OwnAlone DEF Inv, RequestInv, DoneInv
<1>2. /\ pos[r] \in 0..Blocks /\ pos'[r] = pos[r] + 1
      /\ cur[r] \in 1..Files /\ (Exclusive' => Exclusive)
      /\ data' = [data EXCEPT ![cur[r]][pos[r] + 1] = <<r, attempt[r]>>]
      /\ data \in [1..Files -> [1..Blocks ->
                     (Requests \cup {None, Before}) \X (0..Attempts)]]
  <2>1. pos \in [Requests -> 0..Blocks] /\ cur[r] \in 1..Files
    BY DEF Inv, Types, Values
  <2>2. data \in [1..Files -> [1..Blocks ->
                    (Requests \cup {None, Before}) \X (0..Attempts)]]
    BY DEF Inv, Types, Entries
  <2> QED  BY <1>1, <2>1, <2>2 DEF Store, StepOf
<1>3. \A f \in 1..(cur[r] - 1) : Done(r, f)'
  <2> SUFFICES ASSUME NEW f \in 1..(cur[r] - 1)
               PROVE  Done(r, f)'
    OBVIOUS
  <2>1. f \in 1..Files /\ f # cur[r] /\ Done(r, f)
    BY <1>1, <1>2 DEF DoneInv
  <2>2. data'[f] = data[f]
    BY <1>2, <2>1
  <2> QED  BY <1>2, <2>1, <2>2 DEF Done, WholeFile
<1>4. \A b \in 1..Blocks :
        data'[cur[r]][b] = IF b <= pos'[r] THEN <<r, attempt[r]>>
                           ELSE <<None, 0>>
  <2> SUFFICES ASSUME NEW b \in 1..Blocks
               PROVE  data'[cur[r]][b] = IF b <= pos[r] + 1
                                         THEN <<r, attempt[r]>>
                                         ELSE <<None, 0>>
    BY <1>2
  <2>1. data[cur[r]][b] = IF b <= pos[r] THEN <<r, attempt[r]>>
                          ELSE <<None, 0>>
    BY <1>1 DEF DoneInv
  <2>2. CASE b = pos[r] + 1
    BY <1>2, <2>2
  <2>3. CASE b # pos[r] + 1
    <3>1. data'[cur[r]][b] = data[cur[r]][b]
      BY <1>2, <2>3
    <3> QED  BY <1>2, <2>1, <2>3, <3>1
  <2> QED  BY <2>2, <2>3
<1>5. ~Whole(r)'
  BY DEF Doing, Whole
<1> QED  BY <1>1, <1>3, <1>4, <1>5 DEF DoneInv, Doing

\* The charge that was paid covers the block.
LEMMA FtpWriteInv ==
    ASSUME Inv, NEW r \in Requests, NEW ok \in BOOLEAN, FtpWrite(r, ok)
    PROVE  Inv'
<1>1. /\ RequestInv(r) /\ Values /\ pos[r] < Blocks
      /\ UNCHANGED <<owner, attached, late, plain, cur, attempt, op>>
      /\ Exclusive' <=> Exclusive
  BY DEF Exclusive, Inv, Types, RequestInv, PlaceInv, FtpWrite
<1>2. StepOf(r)
  BY DEF Exclusive, Inv, Types, Values, StepOf, Same, FtpWrite, Store
<1>3. Types'
  <2>1. Values'
    BY <1>1, StoreEntries DEF Values, FtpWrite
  <2>2. Sets'
    BY DEF Inv, Types, Sets, FtpWrite
  <2>3. Entries'
    BY <1>1, StoreEntries DEF Inv, Types, Entries, FtpWrite
  <2> QED  BY <2>1, <2>2, <2>3 DEF Types
<1>4. PlaceInv(r)'
  BY <1>1 DEF Values, RequestInv, PlaceInv, FtpWrite
<1>5. FailureInv(r)'
  BY <1>1 DEF Values, RequestInv, FailureInv, FtpWrite
<1>6. LateInv(r)' /\ SpoiltInv(r)' /\ OwnInv(r)'
  BY <1>1 DEF Values, RequestInv, LateInv, SpoiltInv, OwnInv, FtpWrite
<1>7. BudgetInv(r)'
  <2>1. Store(r) \/ UNCHANGED data
    BY DEF FtpWrite
  <2> QED  BY <1>1, <2>1, StoreCharged
           DEF Values, RequestInv, BudgetInv, FtpWrite
<1>8. DoneInv(r)'
  <2>1. CASE ok
    <3>1. Store(r) /\ Doing(r) /\ Doing(r)'
      BY <1>1, <2>1 DEF Values, RequestInv, FailureInv, FtpWrite, Doing
    <3> QED  BY <1>1, <1>2, <3>1, StoreDone
  <2>2. CASE ~ok
    BY <1>1, <2>2 DEF Values, FtpWrite, DoneInv, Doing, Whole
  <2> QED  BY <2>1, <2>2
<1>9. ASSUME NEW s \in Requests \ {r}
      PROVE  RequestInv(s)'
  <2>1. CASE Store(r)
    BY <1>1, <1>2, <2>1, OtherStored DEF FtpWrite
  <2>2. CASE UNCHANGED data
    BY <1>1, <1>2, <2>2, OtherKept
  <2> QED  BY <2>1, <2>2 DEF FtpWrite
<1> QED  BY <1>3, <1>4, <1>5, <1>6, <1>7, <1>8, <1>9 DEF Inv, RequestInv

\* The charge and the block in one step.
LEMMA SftpWriteInv ==
    ASSUME Inv, NEW r \in Requests, NEW ok \in BOOLEAN, SftpWrite(r, ok)
    PROVE  Inv'
<1>1. /\ RequestInv(r) /\ Values /\ pos[r] < Blocks
      /\ UNCHANGED <<owner, late, plain, cur, attempt, op>>
      /\ Exclusive' <=> Exclusive
  BY DEF Exclusive, Inv, Types, SftpWrite
<1>2. StepOf(r)
  BY DEF Exclusive, Inv, Types, Values, StepOf, Same, SftpWrite, Store
<1>3. written[r] \in 0..Limit
  BY <1>1 DEF Values, RequestInv, BudgetInv, SftpWrite
<1>4. Types'
  <2>1. Values'
    <3>1. written[r] + 1 \in 0..(Limit + 1)
      BY <1>3
    <3>2. written' \in [Requests -> 0..(Limit + 1)]
      BY <1>1, <3>1 DEF Values, SftpWrite
    <3>3. pos' \in [Requests -> 0..Blocks]
      BY <1>1, StoreEntries DEF Values, SftpWrite
    <3> QED  BY <1>1, <3>2, <3>3 DEF Values, SftpWrite
  <2>2. Sets'
    BY DEF Inv, Types, Sets, SftpWrite
  <2>3. Entries'
    BY <1>1, StoreEntries DEF Inv, Types, Entries, SftpWrite
  <2> QED  BY <2>1, <2>2, <2>3 DEF Types
<1>5. PlaceInv(r)'
  BY <1>1 DEF Values, RequestInv, PlaceInv, SftpWrite
<1>6. FailureInv(r)'
  BY <1>1 DEF Values, RequestInv, FailureInv, SftpWrite
<1>7. LateInv(r)' /\ SpoiltInv(r)' /\ OwnInv(r)'
  BY <1>1 DEF Values, RequestInv, LateInv, SpoiltInv, OwnInv, SftpWrite
<1>8. BudgetInv(r)'
  <2>1. Store(r) \/ UNCHANGED data
    BY DEF SftpWrite
  <2>2. CASE Spend(r) /\ ok
    BY <1>1, <1>3, <2>1, <2>2, StoreCharged
       DEF Values, RequestInv, BudgetInv, SftpWrite, Spend
  <2>3. CASE ~(Spend(r) /\ ok)
    BY <1>1, <1>3, <2>3, OwnStored
       DEF Values, RequestInv, BudgetInv, SftpWrite, Spend
  <2> QED  BY <2>2, <2>3
<1>9. DoneInv(r)'
  <2>1. CASE Spend(r) /\ ok
    <3>1. Store(r) /\ Doing(r) /\ Doing(r)' /\ UNCHANGED attached
      BY <1>1, <2>1 DEF Values, RequestInv, FailureInv, SftpWrite, Doing
    <3> QED  BY <1>1, <1>2, <3>1, StoreDone
  <2>2. CASE ~(Spend(r) /\ ok)
    BY <1>1, <2>2 DEF Values, SftpWrite, DoneInv, Doing, Whole
  <2> QED  BY <2>1, <2>2
<1>10. ASSUME NEW s \in Requests \ {r}
       PROVE  RequestInv(s)'
  <2>1. s \in attached' <=> s \in attached
    BY DEF SftpWrite
  <2>2. CASE Store(r)
    BY <1>1, <1>2, <2>1, <2>2, OtherStored DEF SftpWrite
  <2>3. CASE UNCHANGED data
    BY <1>1, <1>2, <2>1, <2>3, OtherKept
  <2> QED  BY <2>2, <2>3 DEF SftpWrite
<1> QED  BY <1>4, <1>5, <1>6, <1>7, <1>8, <1>9, <1>10 DEF Inv, RequestInv

\* A plain download writes without a charge, and is no exclusive one.
LEMMA PlainWriteInv ==
    ASSUME Inv, NEW r \in Requests, NEW ok \in BOOLEAN, PlainWrite(r, ok)
    PROVE  Inv'
<1>1. /\ RequestInv(r) /\ Values /\ pos[r] < Blocks
      /\ r \in plain /\ ~Exclusive'
      /\ UNCHANGED <<owner, attached, late, plain, cur, attempt, op>>
  BY DEF Exclusive, Inv, Types, PlainWrite
<1>2. StepOf(r)
  BY DEF Exclusive, Inv, Types, Values, StepOf, Same, PlainWrite, Store
<1>3. Types'
  <2>1. Values'
    BY <1>1, StoreEntries DEF Values, PlainWrite, LocalFailure
  <2>2. Sets'
    BY DEF Inv, Types, Sets, PlainWrite
  <2>3. Entries'
    BY <1>1, StoreEntries DEF Inv, Types, Entries, PlainWrite
  <2> QED  BY <2>1, <2>2, <2>3 DEF Types
<1>4. PlaceInv(r)'
  BY <1>1 DEF Values, RequestInv, PlaceInv, PlainWrite
<1>5. FailureInv(r)'
  BY <1>1 DEF Values, RequestInv, FailureInv, PlainWrite, LocalFailure
<1>6. LateInv(r)' /\ SpoiltInv(r)' /\ OwnInv(r)' /\ BudgetInv(r)'
  BY <1>1 DEF RequestInv, LateInv, SpoiltInv, OwnInv, BudgetInv
<1>7. DoneInv(r)'
  <2>1. CASE ok
    <3>1. Store(r) /\ Doing(r) /\ Doing(r)'
      BY <1>1, <2>1 DEF Values, RequestInv, FailureInv, PlainWrite, Doing
    <3> QED  BY <1>1, <1>2, <3>1, StoreDone
  <2>2. CASE ~ok
    BY <1>1, <2>2
       DEF Values, PlainWrite, LocalFailure, DoneInv, Doing, Whole
  <2> QED  BY <2>1, <2>2
<1>8. ASSUME NEW s \in Requests \ {r}
      PROVE  RequestInv(s)'
  <2>1. CASE Store(r)
    BY <1>1, <1>2, <2>1, OtherStored DEF PlainWrite
  <2>2. CASE UNCHANGED data
    BY <1>1, <1>2, <2>2, OtherKept
  <2> QED  BY <2>1, <2>2 DEF PlainWrite
<1> QED  BY <1>3, <1>4, <1>5, <1>6, <1>7, <1>8 DEF Inv, RequestInv

-----------------------------------------------------------------------------
(* Entries.                                                                *)

\* An open never leaves a block of a request that was not there.
LEMMA OpenedEntries ==
    ASSUME Inv, NEW r \in Requests, NEW f \in 1..Files, Opened(r, f)
    PROVE  /\ Entries'
           /\ owner' = [owner EXCEPT ![f] = IF @ = None THEN r ELSE @]
           /\ data' = [data EXCEPT ![f] = Empty]
           /\ \A s \in Requests : Stored(s)' \subseteq Stored(s)
<1>1. /\ Entries
      /\ <<None, 0>> \in (Requests \cup {None, Before}) \X (0..Attempts)
  BY DEF Inv, Types
<1>2. Entries'
  BY <1>1 DEF Entries, Opened, Empty
<1>3. \A s \in Requests : Stored(s)' \subseteq Stored(s)
  BY <1>1 DEF Entries, Opened, Empty, Stored
<1> QED  BY <1>2, <1>3 DEF Opened

\* Neither does an unlink.
LEMMA UnlinkedEntries ==
    ASSUME Inv, NEW f \in 1..Files, Unlinked(f)
    PROVE  /\ Entries'
           /\ owner' = [owner EXCEPT ![f] = None]
           /\ data' = [data EXCEPT ![f] = Empty]
           /\ \A s \in Requests : Stored(s)' \subseteq Stored(s)
<1>1. /\ Entries
      /\ <<None, 0>> \in (Requests \cup {None, Before}) \X (0..Attempts)
  BY DEF Inv, Types
<1>2. Entries'
  BY <1>1 DEF Entries, Unlinked, Empty
<1>3. \A s \in Requests : Stored(s)' \subseteq Stored(s)
  BY <1>1 DEF Entries, Unlinked, Empty, Stored
<1> QED  BY <1>2, <1>3 DEF Unlinked

\* Fewer blocks need no charge.
LEMMA LessCharged ==
    ASSUME NEW r \in Requests, Stored(r)' \subseteq Stored(r)
    PROVE  /\ Cardinality(Stored(r)) \in Nat
           /\ (Cardinality(Stored(r)))' \in Nat
           /\ (Cardinality(Stored(r)))' <= Cardinality(Stored(r))
<1>1. (Cardinality(Stored(r)))' = Cardinality(Stored(r)')
  OBVIOUS
<1> QED  BY <1>1, StoredLess

\* The entry is emptied, and is the own one where nobody overwrites.
LEMMA OpenFileInv ==
    ASSUME Inv, NEW r \in Requests, OpenFile(r)
    PROVE  Inv'
<1>1. /\ RequestInv(r) /\ Values /\ pc[r] = "open" /\ cur[r] \in 1..Files
      /\ UNCHANGED <<late, plain, cur, pos, attempt, op>>
      /\ Exclusive' <=> Exclusive
  BY DEF Exclusive, Inv, Types, Values, OpenFile, Unopened, LocalFailure
<1>2. StepOf(r)
  BY DEF Exclusive, Inv, Types, Values, StepOf, Same, OpenFile, Unopened,
         LocalFailure
<1>3. CASE UNCHANGED disk /\ pc'[r] = "settle" /\ failure'[r] # None
  <2>1. Types'
    <3>1. Values'
      BY <1>1 DEF Values, OpenFile, Unopened, LocalFailure
    <3>2. Sets' /\ Entries'
      BY <1>3 DEF Inv, Types, Sets, Entries, OpenFile, Unopened, LocalFailure
    <3> QED  BY <3>1, <3>2 DEF Types
  <2>2. PlaceInv(r)' /\ FailureInv(r)'
    BY <1>1, <1>3
       DEF Values, RequestInv, PlaceInv, FailureInv, OpenFile, Unopened,
           LocalFailure
  <2>3. LateInv(r)' /\ SpoiltInv(r)' /\ OwnInv(r)'
    BY <1>1, <1>3
       DEF Values, RequestInv, LateInv, FailureInv, SpoiltInv, OwnInv,
           OpenFile, Unopened, LocalFailure
  <2>4. BudgetInv(r)'
    BY <1>1, <1>3, OwnStored
       DEF Values, RequestInv, BudgetInv, OpenFile, Unopened, LocalFailure
  <2>5. DoneInv(r)'
    BY <1>3 DEF DoneInv, Doing, Whole
  <2>6. \A s \in Requests \ {r} : RequestInv(s)'
    BY <1>1, <1>2, <1>3, OtherKept
  <2> QED  BY <2>1, <2>2, <2>3, <2>4, <2>5, <2>6 DEF Inv, RequestInv
<1>4. CASE /\ MayOpen(r, cur[r]) /\ Opened(r, cur[r])
           /\ attached' = attached \cup {r} /\ Go(r, "block")
  <2>1. /\ Entries'
        /\ owner' = [owner EXCEPT ![cur[r]] = IF @ = None THEN r ELSE @]
        /\ data' = [data EXCEPT ![cur[r]] = Empty]
        /\ Stored(r)' \subseteq Stored(r)
        /\ Entries
    BY <1>1, <1>4, OpenedEntries DEF Inv, Types
  <2>2. Types'
    <3>1. Values'
      BY <1>1, <1>4 DEF Values, OpenFile, Unopened, LocalFailure
    <3>2. Sets'
      BY <1>4 DEF Inv, Types, Sets, OpenFile, Unopened, LocalFailure
    <3> QED  BY <2>1, <3>1, <3>2 DEF Types
  <2>3. PlaceInv(r)'
    BY <1>1, <1>4, <2>1
       DEF Values, Entries, RequestInv, PlaceInv, OpenFile, Unopened,
           LocalFailure
  <2>4. FailureInv(r)'
    BY <1>1, <1>4
       DEF Values, RequestInv, FailureInv, OpenFile, Unopened, LocalFailure
  <2>5. LateInv(r)' /\ SpoiltInv(r)'
    BY <1>1, <1>4
       DEF Values, RequestInv, LateInv, SpoiltInv, OpenFile, Unopened,
           LocalFailure
  <2>6. OwnInv(r)'
    BY <1>1, <1>4, <2>1
       DEF Values, Entries, RequestInv, LateInv, OwnInv, MayOpen, Exclusive
  <2>7. BudgetInv(r)'
    BY <1>1, <1>4, <2>1, LessCharged
       DEF Values, RequestInv, BudgetInv, OpenFile, Unopened, LocalFailure
  <2>8. DoneInv(r)'
    <3> SUFFICES ASSUME op[r] = "download", Alone(r)'
                 PROVE  DoneInv(r)'
      BY <1>1 DEF DoneInv
    <3>1. DoneInv(r) /\ Alone(r) /\ pos[r] = 0 /\ (Exclusive' => Exclusive)
      BY <1>1, <1>2, OwnAlone DEF RequestInv, PlaceInv
    <3>2. \A f \in 1..(cur[r] - 1) : Done(r, f)'
      <4> SUFFICES ASSUME NEW f \in 1..(cur[r] - 1)
                   PROVE  Done(r, f)'
        OBVIOUS
      <4>1. f \in 1..Files /\ f # cur[r] /\ Done(r, f)
        BY <1>1, <3>1 DEF DoneInv
      <4>2. data'[f] = data[f] /\ owner'[f] = owner[f]
        BY <1>1, <2>1, <4>1 DEF Entries
      <4> QED  BY <1>1, <3>1, <4>1, <4>2 DEF Done, WholeFile
    <3>3. \A b \in 1..Blocks : data'[cur[r]][b] = <<None, 0>>
      BY <1>1, <2>1 DEF Entries, Empty
    <3>4. pc'[r] = "block" /\ r \in attached'
      BY <1>1, <1>4 DEF Values
    <3> QED  BY <1>1, <3>1, <3>2, <3>3, <3>4 DEF DoneInv, Doing, Whole
  <2>9. ASSUME NEW s \in Requests \ {r}
        PROVE  RequestInv(s)'
    BY <1>1, <1>2, <1>4, OtherOpened
  <2> QED  BY <2>2, <2>3, <2>4, <2>5, <2>6, <2>7, <2>8, <2>9
           DEF Inv, RequestInv
<1> QED  BY <1>1, <1>3, <1>4 DEF Values, OpenFile, Unopened, LocalFailure

\* The file of a failed write is gone.
LEMMA UnlinkInv ==
    ASSUME Inv, NEW r \in Requests, Unlink(r)
    PROVE  Inv'
<1>1. /\ RequestInv(r) /\ Values /\ cur[r] \in 1..Files
      /\ Unlinked(cur[r]) /\ r \in spoilt /\ failure[r] # None
      /\ pc[r] = "unlink" /\ pc'[r] = "settle" /\ failure' = failure
      /\ UNCHANGED <<late, plain, cur, attempt>>
      /\ Exclusive' <=> Exclusive
  BY DEF Exclusive, Inv, Types, Values, RequestInv, PlaceInv, FailureInv,
         Unlink
<1>2. StepOf(r)
  BY DEF Exclusive, Inv, Types, Values, StepOf, Same, Unlink
<1>3. /\ Entries' /\ Entries
      /\ owner' = [owner EXCEPT ![cur[r]] = None]
      /\ Stored(r)' \subseteq Stored(r)
  BY <1>1, UnlinkedEntries DEF Inv, Types
<1>4. Types'
  <2>1. Values'
    BY <1>1 DEF Values, Unlink
  <2>2. Sets'
    BY DEF Inv, Types, Sets, Unlink, Unlinked
  <2> QED  BY <1>3, <2>1, <2>2 DEF Types
<1>5. PlaceInv(r)' /\ FailureInv(r)'
  BY <1>1
     DEF Values, RequestInv, PlaceInv, FailureInv, Unlink, Unlinked
<1>6. LateInv(r)' /\ OwnInv(r)'
  BY <1>1 DEF Values, RequestInv, LateInv, OwnInv, Unlink
<1>7. SpoiltInv(r)'
  BY <1>1, <1>3 DEF Entries, SpoiltInv
<1>8. BudgetInv(r)'
  BY <1>1, <1>3, LessCharged DEF Values, RequestInv, BudgetInv, Unlink
<1>9. DoneInv(r)'
  BY <1>1 DEF DoneInv, Doing, Whole
<1>10. ASSUME NEW s \in Requests \ {r}
       PROVE  RequestInv(s)'
  <2>1. Exclusive => owner[cur[r]] = r
    BY <1>1 DEF RequestInv, OwnInv
  <2> QED  BY <1>1, <1>2, <2>1, OtherUnlinked
<1> QED  BY <1>4, <1>5, <1>6, <1>7, <1>8, <1>9, <1>10 DEF Inv, RequestInv
\* The request of a late call has failed.
LEMMA LateFailed ==
    ASSUME Inv, NEW r \in Requests, cancels[r] > 0, pc[r] \in Ending,
           r \notin plain
    PROVE  ~Whole(r) /\ ~Doing(r) /\ pc[r] \notin {"open", "start"}
<1>1. FailureInv(r)
  BY DEF Inv, RequestInv
<1> QED  BY <1>1 DEF FailureInv, Whole, Doing

\* A thread opens an entry for a request that has given up.
LEMMA LateOpenInv ==
    ASSUME Inv, NEW r \in Requests, NEW f \in 1..Files, LateOpen(r, f)
    PROVE  Inv'
<1>1. /\ RequestInv(r) /\ Types /\ f = cur[r] /\ cancels[r] > 0
      /\ pc[r] \in Ending /\ r \notin spoilt /\ r \notin attached
      /\ r \notin plain
      /\ \A g \in 1..Files : <<r, "unlink", g>> \notin late
  BY DEF Inv, RequestInv, LateInv, PlaceInv, LateOpen
<1>2. /\ late' = late \ {<<r, "open", f>>}
      /\ UNCHANGED <<attached, overwriting, plain, op, session, connected, pc,
                     attempt, cur, pos, written, failure, cancels, spoilt,
                     interrupted, result>>
  BY DEF LateOpen
<1>3. StepOf(r)
  BY <1>1, <1>2 DEF Exclusive, StepOf, Same
<1>4. \/ UNCHANGED <<owner, data>>
      \/ MayOpen(r, f) /\ Opened(r, f)
  BY DEF LateOpen
<1>5. Entries' /\ Stored(r)' \subseteq Stored(r)
  BY <1>1, <1>4, OpenedEntries DEF Types, Entries, Stored
<1>6. Types'
  BY <1>1, <1>2, <1>5 DEF Types, Values, Sets
<1>7. PlaceInv(r)' /\ FailureInv(r)'
  BY <1>1, <1>2 DEF RequestInv, PlaceInv, FailureInv
<1>8. LateInv(r)' /\ SpoiltInv(r)' /\ OwnInv(r)'
  BY <1>1, <1>2 DEF RequestInv, LateInv, SpoiltInv, OwnInv
<1>9. BudgetInv(r)'
  BY <1>1, <1>2, <1>5, LessCharged DEF Types, Values, RequestInv, BudgetInv
<1>10. DoneInv(r)'
  BY <1>1, <1>2, LateFailed DEF DoneInv, Doing, Whole
<1>11. ASSUME NEW s \in Requests \ {r}
       PROVE  RequestInv(s)'
  BY <1>2, <1>3, <1>4, OtherKept, OtherOpened
<1> QED  BY <1>6, <1>7, <1>8, <1>9, <1>10, <1>11 DEF Inv, RequestInv

\* A thread unlinks an entry for a request that has given up.
LEMMA LateUnlinkInv ==
    ASSUME Inv, NEW r \in Requests, NEW f \in 1..Files, LateUnlink(r, f)
    PROVE  Inv'
<1>1. /\ RequestInv(r) /\ Types /\ f = cur[r] /\ cancels[r] > 0
      /\ pc[r] \in Ending /\ r \in spoilt /\ r \notin attached
      /\ r \notin plain
      /\ \A g \in 1..Files : <<r, "unlink", g>> \in late => g = f
      /\ Exclusive => owner[f] = r
  <2>1. RequestInv(r) /\ Types /\ <<r, "unlink", f>> \in late
    BY DEF Inv, LateUnlink
  <2>2. Exclusive => owner[f] = r
    BY <2>1 DEF RequestInv, OwnInv
  <2> QED  BY <2>1, <2>2 DEF RequestInv, LateInv, PlaceInv
<1>2. /\ late' = late \ {<<r, "unlink", f>>}
      /\ Unlinked(f)
      /\ UNCHANGED <<overwriting, plain, op, session, connected, pc, attempt,
                     cur, pos, written, failure, cancels, spoilt, interrupted,
                     result>>
  BY DEF LateUnlink
<1>3. StepOf(r)
  BY <1>1, <1>2 DEF Exclusive, StepOf, Same
<1>4. /\ Entries' /\ Stored(r)' \subseteq Stored(r)
      /\ owner' = [owner EXCEPT ![f] = None]
  BY <1>2, UnlinkedEntries
<1>5. attached' \subseteq attached
  BY <1>2 DEF Unlinked
<1>6. Types'
  BY <1>1, <1>2, <1>4, <1>5 DEF Types, Values, Sets
<1>7. PlaceInv(r)' /\ FailureInv(r)'
  BY <1>1, <1>2, <1>5 DEF RequestInv, PlaceInv, FailureInv
<1>8. LateInv(r)' /\ OwnInv(r)'
  BY <1>1, <1>2 DEF RequestInv, LateInv, OwnInv
<1>9. SpoiltInv(r)'
  BY <1>1, <1>2, <1>4 DEF Types, Entries, SpoiltInv
<1>10. BudgetInv(r)'
  BY <1>1, <1>2, <1>4, LessCharged DEF Types, Values, RequestInv, BudgetInv
<1>11. DoneInv(r)'
  BY <1>1, <1>2, LateFailed DEF DoneInv, Doing, Whole
<1>12. ASSUME NEW s \in Requests \ {r}
       PROVE  RequestInv(s)'
  BY <1>1, <1>2, <1>3, OtherUnlinked
<1> QED  BY <1>6, <1>7, <1>8, <1>9, <1>10, <1>11, <1>12 DEF Inv, RequestInv

\* A cancelled wait for a thread: the write may or may not have been done.
LEMMA CancelTransferInv ==
    ASSUME Inv, NEW r \in Requests, CancelTransfer(r),
           cancels' = [cancels EXCEPT ![r] = @ + 1], UNCHANGED link
    PROVE  Inv'
<1>1. /\ RequestInv(r) /\ Types
      /\ \/ pc[r] \in {"mkdir", "open", "block", "write"}
         \/ pc[r] = "close" /\ r \in plain
      /\ failure' = [failure EXCEPT ![r] = "cancelled"]
      /\ pc' = [pc EXCEPT ![r] = IF pc[r] \in {"mkdir", "open"} THEN "settle"
                                 ELSE IF pc[r] = "write" THEN "discard"
                                 ELSE "close"]
      /\ late' = IF pc[r] = "open" /\ r \notin plain
                 THEN late \cup {<<r, "open", cur[r]>>} ELSE late
      /\ spoilt' = IF pc[r] = "write" THEN spoilt \cup {r} ELSE spoilt
      /\ UNCHANGED <<owner, attached, overwriting, plain, op, session,
                     connected, attempt, cur, written, interrupted, result>>
  BY DEF Inv, CancelTransfer
<1>2. UNCHANGED <<data, pos>> \/ (pc[r] = "write" /\ Store(r))
  BY DEF CancelTransfer
<1>3. pc[r] = "write" => pos[r] < Blocks
  BY <1>1 DEF RequestInv, PlaceInv
<1>4. StepOf(r)
  BY <1>1, <1>2 DEF Exclusive, Types, Values, StepOf, Same, Store
<1>5. Types'
  <2>1. pos' \in [Requests -> 0..Blocks] /\ Entries'
    BY <1>1, <1>2, <1>3, StoreEntries DEF Types, Values, Entries
  <2>2. Values'
    <3>1. pc' \in [Requests -> Places]
      BY <1>1 DEF Types, Values
    <3>2. cancels' \in [Requests -> Nat]
      BY <1>1 DEF Types, Values
    <3> QED  BY <1>1, <2>1, <3>1, <3>2 DEF Types, Values
  <2>3. Sets'
    BY <1>1 DEF Types, Values, Sets
  <2> QED  BY <2>1, <2>2, <2>3 DEF Types
<1>6. PlaceInv(r)'
  BY <1>1 DEF Types, Values, RequestInv, PlaceInv
<1>7. FailureInv(r)'
  BY <1>1 DEF Types, Values, RequestInv, FailureInv
<1>8. LateInv(r)'
  BY <1>1 DEF Types, Values, RequestInv, LateInv, FailureInv
<1>9. SpoiltInv(r)' /\ OwnInv(r)'
  BY <1>1
     DEF Types, Values, RequestInv, PlaceInv, FailureInv, LateInv, SpoiltInv,
         OwnInv, Exclusive
<1>10. BudgetInv(r)'
  <2>1. CASE UNCHANGED data
    BY <1>1, <2>1, OwnStored DEF Types, Values, RequestInv, BudgetInv
  <2>2. CASE pc[r] = "write" /\ Store(r)
    BY <1>1, <1>3, <2>2, StoreCharged
       DEF Types, Values, RequestInv, BudgetInv
  <2> QED  BY <1>2, <2>1, <2>2
<1>11. DoneInv(r)'
  BY <1>1 DEF Types, Values, DoneInv, Doing, Whole
<1>12. ASSUME NEW s \in Requests \ {r}
       PROVE  RequestInv(s)'
  BY <1>1, <1>2, <1>3, <1>4, OtherKept, OtherStored
<1> QED  BY <1>5, <1>6, <1>7, <1>8, <1>9, <1>10, <1>11, <1>12
         DEF Inv, RequestInv
-----------------------------------------------------------------------------
(* The specification.                                                      *)

\* Nothing has been written.
LEMMA InitInv == Init => Inv
<1> SUFFICES ASSUME Init PROVE Inv
  OBVIOUS
<1>1. Values /\ Sets
  BY DEF Init, Values, Sets
<1>2. Entries
  <2>1. \A f \in 1..Files : owner[f] \in {None, Before}
    BY DEF Init
  <2> QED  BY <2>1 DEF Init, Entries
<1>3. ASSUME NEW r \in Requests
      PROVE  RequestInv(r)
  <2>1. PlaceInv(r) /\ FailureInv(r) /\ LateInv(r) /\ SpoiltInv(r) /\ OwnInv(r)
    BY <1>3 DEF Init, PlaceInv, FailureInv, LateInv, SpoiltInv, OwnInv
  <2>2. DoneInv(r)
    BY <1>3 DEF Init, DoneInv
  <2>3. BudgetInv(r)
    <3>1. \A f \in 1..Files, b \in 1..Blocks : data[f][b][1] # r
      BY <1>3 DEF Init
    <3>2. Stored(r) = {}
      BY <3>1 DEF Stored
    <3>3. Cardinality(Stored(r)) = 0
      BY <3>2, FS_EmptySet
    <3> QED  BY <1>3, <3>3 DEF Init, BudgetInv
  <2> QED  BY <2>1, <2>2, <2>3 DEF RequestInv
<1> QED  BY <1>1, <1>2, <1>3 DEF Inv, Types

\* A cancellation, wherever it arrives.
LEMMA CancelInv ==
    ASSUME Inv, NEW r \in Requests, Cancel(r)
    PROVE  Inv'
<1>1. cancels' = [cancels EXCEPT ![r] = @ + 1] /\ UNCHANGED link
  BY DEF Cancel
<1>2. CASE CancelSession(r)
  BY <1>1, <1>2, CancelSessionInv
<1>3. CASE CancelTransfer(r)
  BY <1>1, <1>3, CancelTransferInv
<1>4. CASE CancelClose(r)
  BY <1>1, <1>4, CancelCloseInv
<1>5. CASE CancelCleanup(r)
  BY <1>1, <1>5, CancelCleanupInv
<1> QED  BY <1>2, <1>3, <1>4, <1>5 DEF Cancel

\* A step of a request.
LEMMA StepInv ==
    ASSUME Inv, NEW r \in Requests, Step(r)
    PROVE  Inv'
<1>1. ASSUME NEW ok \in BOOLEAN,
             \/ Connect(r, ok) \/ Login(r, ok) \/ Look(r, ok) \/ Admit(r, ok)
             \/ RemoteCommand(r, ok) \/ Stat(r, ok) \/ LeaveFtp(r, ok)
      PROVE  Inv'
  BY <1>1, ConnectInv, LoginInv, LookInv, AdmitInv, RemoteCommandInv, StatInv,
     LeaveFtpInv
<1>2. ASSUME NEW ok \in BOOLEAN,
             \/ Mkdir(r, ok) \/ FtpWrite(r, ok) \/ SftpWrite(r, ok)
             \/ FtpClose(r, ok) \/ SftpClose(r, ok)
             \/ PlainWrite(r, ok) \/ PlainClose(r, ok)
      PROVE  Inv'
  BY <1>2, MkdirInv, FtpWriteInv, SftpWriteInv, FtpCloseInv, SftpCloseInv,
     PlainWriteInv, PlainCloseInv
<1>3. CASE \E ok \in BOOLEAN : Awaited(r, ok)
  BY <1>1, <1>2, <1>3 DEF Awaited
<1>4. CASE StartFtp(r) \/ StartSftp(r) \/ Settle(r) \/ LeaveSftp(r)
  BY <1>4, StartFtpInv, StartSftpInv, SettleInv, LeaveSftpInv
<1>5. CASE \/ OpenFile(r) \/ NoMoreBlocks(r) \/ FtpBlock(r) \/ FtpDiscard(r)
           \/ Unlink(r)
  BY <1>5, OpenFileInv, NoMoreBlocksInv, FtpBlockInv, FtpDiscardInv, UnlinkInv
<1> QED  BY <1>3, <1>4, <1>5 DEF Step

\* Every step preserves the invariant.
LEMMA NextInv ==
    ASSUME Inv, [Next]_vars
    PROVE  Inv'
<1>1. CASE UNCHANGED vars
  <2>1. Types'
    BY <1>1 DEF Inv, Types, Values, Sets, Entries, vars
  <2>2. ASSUME NEW r \in Requests
        PROVE  RequestInv(r)'
    <3>1. RequestInv(r)
      BY DEF Inv
    <3>2. PlaceInv(r)' /\ FailureInv(r)' /\ LateInv(r)' /\ SpoiltInv(r)'
      BY <1>1, <3>1
         DEF RequestInv, PlaceInv, FailureInv, LateInv, SpoiltInv, vars
    <3>3. OwnInv(r)' /\ BudgetInv(r)'
      BY <1>1, <3>1 DEF RequestInv, OwnInv, BudgetInv, Stored, Exclusive, vars
    <3>4. DoneInv(r)'
      BY <1>1, <3>1
         DEF RequestInv, DoneInv, Alone, Doing, Whole, Done, WholeFile,
             Exclusive, vars
    <3> QED  BY <3>2, <3>3, <3>4 DEF RequestInv
  <2> QED  BY <2>1, <2>2 DEF Inv
<1>2. ASSUME NEW r \in Requests, Thread(r)
      PROVE  Inv'
  BY <1>2, LateOpenInv, LateUnlinkInv DEF Thread
<1> QED  BY <1>1, <1>2, StepInv, CancelInv DEF Next, Terminated

\* The invariant holds of every behaviour.
THEOREM Invariance == Spec => []Inv
BY InitInv, NextInv, PTL DEF Spec

\* A session's peer is authenticated unless the caller asked otherwise by name,
\* and its connection is closed when the request has ended
\* (FTPRequest and SFTPRequest.handle_request, _explicit_ftps_context).
THEOREM SpecSession == Spec => []SessionInv
<1>1. Inv => SessionInv
  <2> SUFFICES ASSUME Inv PROVE SessionInv
    OBVIOUS
  <2>1. \A r \in Requests : PlaceInv(r)
    BY DEF Inv, RequestInv
  <2>2. Values /\ Sets /\ Entries
    BY DEF Inv, Types
  <2>3. TypeOK
    BY <2>1, <2>2 DEF TypeOK, Values, Sets, Entries, PlaceInv
  <2>4. PeerVerified /\ SessionClosed
    BY <2>1, <2>2 DEF PeerVerified, SessionClosed, Sets, PlaceInv
  <2> QED  BY <2>3, <2>4 DEF SessionInv
<1> QED  BY <1>1, Invariance, PTL

\* Within the budget, whole after a success and gone after a failed write,
\* whatever overlapping requests, retries, cancellations and abandoned threads
\* do (TransferBudget, ContainedPathIO, ClassifyingLocalFile).  Without a local
\* path there is neither budget nor removal, and a success is still whole.
THEOREM SpecFiles == Spec => []FilesInv
<1>1. Inv => FilesInv
  <2> SUFFICES ASSUME Inv PROVE FilesInv
    OBVIOUS
  <2>1. \A r \in Requests : BudgetInv(r) /\ SpoiltInv(r) /\ DoneInv(r)
    BY DEF Inv, RequestInv
  <2>2. BudgetHolds
    BY <2>1 DEF BudgetHolds, BudgetInv
  <2>3. FailedWriteRemoved
    <3>1. \A r \in Requests : owner[cur[r]] \in Requests \cup {None, Before}
      BY DEF Inv, Types, Values, Entries
    <3>2. spoilt \subseteq Requests
      BY DEF Inv, Types, Sets
    <3> QED  BY <2>1, <3>1, <3>2 DEF FailedWriteRemoved, SpoiltInv
  <2>4. SuccessIsWhole
    <3> SUFFICES ASSUME NEW r \in Requests,
                        result[r] = "ok", op[r] = "download", Alone(r)
                 PROVE  \A f \in 1..Files : owner[f] # None /\ WholeFile(r, f)
      BY DEF SuccessIsWhole, Alone
    <3>1. pc[r] = "ended"
      BY DEF Inv, RequestInv, FailureInv
    <3> QED  BY <2>1, <3>1 DEF DoneInv, Whole, Done
  <2> QED  BY <2>2, <2>3, <2>4 DEF FilesInv
<1> QED  BY <1>1, Invariance, PTL

\* A cancelled request ends as cancelled, unless a failing flush replaced the
\* CancelledError (_being_cancelled, and both wrappers' close), which a download
\* without a local path even retries.
THEOREM SpecCancellation == Spec => []CancellationReported
<1>1. Inv => CancellationReported
  BY DEF Inv, RequestInv, FailureInv, CancellationReported
<1> QED  BY <1>1, Invariance, PTL

\* As long as all requests name a local path and none overwrites, no step, no
\* cleanup and no thread that nobody waits for writes to or removes a file that
\* was there or that was reported as downloaded (guarded_opener's O_EXCL).
THEOREM SpecExclusive == Spec => ExclusiveKeeps
<1>1. ASSUME Inv, NEW r \in Requests, NEW f \in 1..Files,
             MayOpen(r, f), Opened(r, f)
      PROVE  Exclusive => Kept
  BY <1>1 DEF Inv, Types, Entries, Kept, MayOpen, Opened, Exclusive
<1>2. ASSUME Inv, NEW r \in Requests, Store(r), UNCHANGED owner,
             pc[r] \in {"block", "write"}
      PROVE  Exclusive => Kept
  <2>1. /\ Exclusive => owner[cur[r]] = r
        /\ result[r] # "ok" /\ Entries /\ cur[r] \in 1..Files
    BY <1>2 DEF Inv, Types, Values, RequestInv, OwnInv, FailureInv
  <2> QED  BY <1>2, <2>1 DEF Entries, Kept, Store
<1>3. ASSUME Inv, NEW r \in Requests, NEW f \in 1..Files, Unlinked(f),
             result[r] # "ok", Exclusive => owner[f] = r
      PROVE  Exclusive => Kept
  BY <1>3 DEF Inv, Types, Entries, Kept, Unlinked
<1>4. UNCHANGED <<owner, data>> => Kept
  BY DEF Kept
<1>5. ASSUME Inv, NEW r \in Requests, Step(r)
      PROVE  Exclusive => Kept
  <2>1. CASE OpenFile(r)
    <3>1. cur[r] \in 1..Files
      BY <1>5 DEF Inv, Types, Values
    <3> QED  BY <1>1, <1>4, <1>5, <2>1, <3>1 DEF OpenFile
  <2>2. CASE \E ok \in BOOLEAN : \/ FtpWrite(r, ok) \/ SftpWrite(r, ok)
                                 \/ PlainWrite(r, ok)
    BY <1>2, <1>4, <1>5, <2>2 DEF FtpWrite, SftpWrite, PlainWrite
  <2>3. CASE Unlink(r)
    <3>1. cur[r] \in 1..Files /\ RequestInv(r)
      BY <1>5 DEF Inv, Types, Values
    <3>2. result[r] # "ok" /\ (Exclusive => owner[cur[r]] = r)
      BY <2>3, <3>1 DEF RequestInv, FailureInv, OwnInv, Unlink
    <3> QED  BY <1>3, <1>5, <2>3, <3>1, <3>2 DEF Unlink
  <2>4. CASE StartFtp(r) \/ StartSftp(r) \/ Settle(r) \/ LeaveSftp(r)
    BY <1>4, <2>4 DEF StartFtp, StartSftp, Settle, LeaveSftp
  <2>5. CASE NoMoreBlocks(r) \/ FtpBlock(r) \/ FtpDiscard(r)
    BY <1>4, <2>5 DEF NoMoreBlocks, FtpBlock, FtpDiscard
  <2>6. ASSUME NEW ok \in BOOLEAN,
               \/ Connect(r, ok) \/ Login(r, ok) \/ Look(r, ok)
               \/ Admit(r, ok) \/ RemoteCommand(r, ok) \/ Stat(r, ok)
        PROVE  UNCHANGED <<owner, data>>
    BY <2>6 DEF Connect, Login, Look, Admit, RemoteCommand, Stat
  <2>7. ASSUME NEW ok \in BOOLEAN,
               \/ LeaveFtp(r, ok) \/ Mkdir(r, ok)
               \/ FtpClose(r, ok) \/ SftpClose(r, ok)
               \/ PlainClose(r, ok)
        PROVE  UNCHANGED <<owner, data>>
    BY <2>7 DEF LeaveFtp, Mkdir, FtpClose, SftpClose, PlainClose
  <2>8. CASE \E ok \in BOOLEAN : Awaited(r, ok)
    BY <1>4, <2>2, <2>6, <2>7, <2>8 DEF Awaited
  <2> QED  BY <1>5, <2>1, <2>3, <2>4, <2>5, <2>8 DEF Step
<1>6. ASSUME Inv, NEW r \in Requests, Thread(r)
      PROVE  Exclusive => Kept
  <2>1. ASSUME NEW f \in 1..Files, LateOpen(r, f)
        PROVE  Exclusive => Kept
    BY <1>1, <1>4, <1>6, <2>1 DEF LateOpen
  <2>2. ASSUME NEW f \in 1..Files, LateUnlink(r, f)
        PROVE  Exclusive => Kept
    <3>1. RequestInv(r) /\ <<r, "unlink", f>> \in late /\ Unlinked(f)
      BY <1>6, <2>2 DEF Inv, LateUnlink
    <3>2. Exclusive => owner[f] = r
      BY <3>1 DEF RequestInv, OwnInv
    <3>3. result[r] # "ok"
      BY <3>1 DEF RequestInv, LateInv, FailureInv
    <3> QED  BY <1>3, <1>6, <3>1, <3>2, <3>3
  <2> QED  BY <1>6, <2>1, <2>2 DEF Thread
<1>7. ASSUME Inv, NEW r \in Requests, Cancel(r)
      PROVE  Exclusive => Kept
  <2>1. CASE CancelTransfer(r)
    BY <1>2, <1>4, <1>7, <2>1 DEF CancelTransfer
  <2>2. CASE CancelSession(r) \/ CancelClose(r) \/ CancelCleanup(r)
    BY <1>4, <2>2 DEF CancelSession, CancelClose, CancelCleanup
  <2> QED  BY <1>7, <2>1, <2>2 DEF Cancel
<1>8. Inv /\ [Next]_vars => (Exclusive => Kept)
  <2>1. UNCHANGED vars => UNCHANGED <<owner, data>>
    BY DEF vars
  <2> QED  BY <1>4, <1>5, <1>6, <1>7, <2>1 DEF Next, Terminated
<1> QED  BY <1>8, Invariance, PTL DEF Spec, ExclusiveKeeps

=============================================================================
