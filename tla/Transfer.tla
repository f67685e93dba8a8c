------------------------------ MODULE Transfer ------------------------------
(***************************************************************************)
(* FTP and SFTP requests (logic/ftp_client.py, logic/sftp_client.py) that  *)
(* download a directory to the same local one, or run a command that only  *)
(* changes the server.  A download that names its local path goes through  *)
(* the containment wrappers (utils/contained_io.py).  One that does not is *)
(* plain: the library writes to the working directory, here that same      *)
(* directory, through a file system of its own.  aioftp and asyncssh are   *)
(* external: they open the session, ask for the files one after the other, *)
(* hand over each block and close the file whatever happens.               *)
(*                                                                         *)
(* A step is the code between two awaits.  The FTP wrapper makes every     *)
(* file call in a thread and waits for it; SFTP's write and close, and the *)
(* file calls of a plain download, do not wait.  A cancellation ends the   *)
(* waiting, never the thread: an open or unlink that was under way still   *)
(* happens, later.                                                         *)
(*                                                                         *)
(* An entry of the directory has the request that created its file as      *)
(* owner.  A request whose file was unlinked by another goes on writing to *)
(* a file without a name.                                                  *)
(***************************************************************************)
EXTENDS Integers, FiniteSets, TransferSetup

CONSTANTS
    Ftp, Sftp,    \* the requests
    Files,        \* number of files in the remote directory
    Blocks,       \* bound: blocks in one file; the server decides how many
    Limit,        \* max_response_bytes, in blocks
    Attempts,     \* attempts of circuit_breaker.run
    MaxCancels    \* bound: how often one request is cancelled

Requests == Ftp \cup Sftp

ASSUME RequestsAssumption == /\ Ftp \cap Sftp = {}
                             /\ {"none", "before"} \cap Requests = {}
ASSUME NumbersAssumption ==
    /\ {Files, Blocks, Attempts} \subseteq Nat \ {0}
    /\ {Limit, MaxCancels} \subseteq Nat

None == "none"
Before == "before"    \* created, and written, before the requests

VARIABLES
    overwriting,  \* the requests that download with overwrite=True
    plain,        \* the requests that download without a local path
    owner,        \* of each local entry: who created it, or None
    data,         \* of each local entry: the writer of every block
    attached,     \* requests whose open descriptor is for the entry's own file
    late,         \* thread calls that their request no longer waits for
    pc,
    op,           \* command or mode
    session,      \* requests whose session has the peer they asked for
    connected,    \* requests with an open control connection
    attempt,
    cur,          \* the file being transferred
    pos,          \* blocks of it written
    written,      \* TransferBudget.written
    failure,      \* what is being raised
    cancels,
    spoilt,       \* history: requests with a failed write or flush
    interrupted,  \* history: requests cancelled while they cleaned up
    result

disk == <<owner, data, attached, late>>
link == <<overwriting, plain, op, session>>
place == <<attempt, cur, pos>>
hist == <<spoilt, interrupted>>
vars == <<disk, link, connected, pc, place, written, failure, cancels, hist,
          result>>

Empty == [b \in 1..Blocks |-> <<None, 0>>]

Init == /\ overwriting = {}
        /\ plain = {}
        /\ \E first \in {None, Before} :
             owner = [f \in 1..Files |-> IF f = 1 THEN first ELSE None]
        /\ data = [f \in 1..Files |-> [b \in 1..Blocks |-> <<owner[f], 0>>]]
        /\ attached = {}
        /\ late = {}
        /\ pc = [r \in Requests |-> "start"]
        /\ op = [r \in Requests |-> None]
        /\ session = {}
        /\ connected = {}
        /\ attempt = [r \in Requests |-> 1]
        /\ cur = [r \in Requests |-> 1]
        /\ pos = [r \in Requests |-> 0]
        /\ written = [r \in Requests |-> 0]
        /\ failure = [r \in Requests |-> None]
        /\ cancels = [r \in Requests |-> 0]
        /\ spoilt = {}
        /\ interrupted = {}
        /\ result = [r \in Requests |-> None]

Go(r, next) == /\ pc' = [pc EXCEPT ![r] = next]
               /\ UNCHANGED <<failure, result, written>>

Raise(r, why, next) == /\ failure' = [failure EXCEPT ![r] = why]
                       /\ pc' = [pc EXCEPT ![r] = next]
                       /\ UNCHANGED <<result, written>>

\* handle_request returns or raises; its budget is gone with it.
End(r, res) == /\ result' = [result EXCEPT ![r] = res]
               /\ pc' = [pc EXCEPT ![r] = "ended"]
               /\ failure' = [failure EXCEPT ![r] = None]
               /\ written' = [written EXCEPT ![r] = 0]

-----------------------------------------------------------------------------
(* The session.                                                            *)

\* The client goes on to connect, or refuses before there is a socket.
Starts(r, call) ==
    \/ /\ call.accepted
       /\ session' = IF call.asked THEN session \cup {r} ELSE session
       /\ op' = [op EXCEPT ![r] = call.command]
       /\ plain' = IF call.plain THEN plain \cup {r} ELSE plain
       /\ overwriting' = IF call.overwrite THEN overwriting \cup {r}
                         ELSE overwriting
       /\ Go(r, "connect")
    \/ ~call.accepted /\ End(r, "config") /\ UNCHANGED link

\* FTPRequest.handle_request up to the connection.
StartFtp(r) ==
    /\ pc[r] = "start" /\ r \in Ftp
    /\ \E call \in FtpCalls : Starts(r, call)
    /\ UNCHANGED <<disk, connected, place, cancels, hist>>

\* SFTPRequest.handle_request up to the connection.
StartSftp(r) ==
    /\ pc[r] = "start" /\ r \in Sftp
    /\ \E call \in SftpCalls : Starts(r, call)
    /\ UNCHANGED <<disk, connected, place, cancels, hist>>

\* The socket; outside circuit_breaker.run, so a failure is not counted.
Connect(r, ok) ==
    /\ pc[r] = "connect"
    /\ \/ ok /\ connected' = connected \cup {r} /\ Go(r, "login")
       \/ ~ok /\ End(r, "network") /\ UNCHANGED connected
    /\ UNCHANGED <<disk, link, place, cancels, hist>>

\* Mutant: a failed login leaves the control connection open.
LoginAbandoning(r, ok) ==
    /\ pc[r] = "login"
    /\ \/ ok /\ Go(r, "admit")
       \/ ~ok /\ End(r, "network")
    /\ UNCHANGED <<disk, link, connected, place, cancels, hist>>

\* The TLS upgrade and the login, which close the client when they fail.
Login(r, ok) ==
    /\ pc[r] = "login"
    /\ \/ /\ ok
          /\ Go(r, IF r \in Sftp /\ op[r] # "upload" THEN "look" ELSE "admit")
          /\ UNCHANGED connected
       \/ ~ok /\ End(r, "network") /\ connected' = connected \ {r}
    /\ UNCHANGED <<disk, link, place, cancels, hist>>

\* Except for an upload, _run_session looks at the remote path first.
Look(r, ok) ==
    /\ pc[r] = "look"
    /\ \/ ok /\ Go(r, "admit")
       \/ ~ok /\ Raise(r, "network", "leave")
    /\ UNCHANGED <<disk, link, connected, place, cancels, hist>>

\* The breaker admits an attempt or raises CircuitOpen.
Admit(r, ok) ==
    /\ pc[r] \in {"admit", "backoff"}
    /\ \/ ok /\ Go(r, IF op[r] = "download" THEN "mkdir" ELSE "command")
       \/ ~ok /\ Raise(r, "open", "leave")
    /\ UNCHANGED <<disk, link, connected, place, cancels, hist>>

\* An upload or a removal: only the server's files change.  With an operand too
\* many the call is a TypeError, which no family claims.
RemoteCommand(r, ok) ==
    /\ pc[r] = "command"
    /\ \/ ok /\ op[r] # "misfit" /\ Go(r, "settle")
       \/ ~ok /\ Raise(r, IF op[r] = "misfit" THEN "defect" ELSE "network",
                       "settle")
    /\ UNCHANGED <<disk, link, connected, place, cancels, hist>>

\* RETRIABLE_FAILURES without the abortable ones: the wrappers' LocalWriteError
\* is abortable, the OSError of asyncssh's own file system is not.
Retriable(r, why) == why = "network" \/ (why = "local" /\ r \in plain)

\* The file_stats are read after the operation.
StatsAfter(r) == op[r] = "upload" \/ (r \in Ftp /\ op[r] = "download")

\* Mutant: a retry goes on with the file that failed.
RetryInPlace(r) ==
    /\ attempt' = [attempt EXCEPT ![r] = @ + 1]
    /\ UNCHANGED <<cur, pos>>

\* The retry calls the operation again, from the first file.
Retry(r) ==
    /\ attempt' = [attempt EXCEPT ![r] = @ + 1]
    /\ cur' = [cur EXCEPT ![r] = 1]
    /\ pos' = [pos EXCEPT ![r] = 0]

\* circuit_breaker.run has the attempt's outcome: it returns, sleeps before it
\* retries, or raises.
Settle(r) ==
    /\ pc[r] = "settle"
    /\ \/ /\ failure[r] = None
          /\ Go(r, IF StatsAfter(r) THEN "stat" ELSE "leave")
          /\ UNCHANGED place
       \/ /\ Retriable(r, failure[r]) /\ attempt[r] < Attempts
          /\ Retry(r)
          /\ Raise(r, None, "backoff")
       \/ /\ failure[r] # None
          /\ Retriable(r, failure[r]) => attempt[r] = Attempts
          /\ Go(r, "leave")
          /\ UNCHANGED place
    /\ UNCHANGED <<disk, link, connected, cancels, hist>>

Stat(r, ok) ==
    /\ pc[r] = "stat"
    /\ \/ ok /\ Go(r, "leave")
       \/ ~ok /\ Raise(r, "network", "leave")
    /\ UNCHANGED <<disk, link, connected, place, cancels, hist>>

\* Mutant: a failure of the transport is reported whatever it replaced.
ReportedAsIs(r, why) == why

\* _being_cancelled, by Task.cancelling(): a failure of the transport in a task
\* that was cancelled is reported as the cancellation.
Reported(r, why) ==
    IF why = "network" /\ cancels[r] > 0 THEN "cancelled" ELSE why

\* The end of the FTP session's context and of handle_request.  The error of a
\* client.quit() that fails replaces the one being raised.
LeaveFtp(r, ok) ==
    /\ pc[r] = "leave" /\ r \in Ftp
    /\ connected' = connected \ {r}
    /\ LET why == IF ok THEN failure[r] ELSE "network"
       IN  End(r, IF why = None THEN "ok" ELSE Reported(r, why))
    /\ UNCHANGED <<disk, link, place, cancels, hist>>

\* The SFTP session's contexts close the connection without a word.
LeaveSftp(r) ==
    /\ pc[r] = "leave" /\ r \in Sftp
    /\ connected' = connected \ {r}
    /\ End(r, IF failure[r] = None THEN "ok" ELSE failure[r])
    /\ UNCHANGED <<disk, link, place, cancels, hist>>

-----------------------------------------------------------------------------
(* The local files.                                                        *)

\* What the local file system's refusals are to the dispatch: the wrappers'
\* LocalWriteError and PathContainmentError and asyncssh's OSError are PATH;
\* aioftp's own PathIOError is taken for a failure of the transport.
LocalFailure(r) == IF r \in plain \cap Ftp THEN "network" ELSE "local"

\* What keeps a file from being opened: the local side, or the server.
Unopened(r) == \E why \in {LocalFailure(r), "network"} : Raise(r, why, "settle")

\* mkdir of the wrappers, whose classify_mkdir_refusal never lets a refusal be a
\* ConfigurationError, or of the library's own file system.
Mkdir(r, ok) ==
    /\ pc[r] = "mkdir"
    /\ \/ ok /\ Go(r, "open")
       \/ ~ok /\ Unopened(r)
    /\ UNCHANGED <<disk, link, connected, place, cancels, hist>>

\* Mutant: O_EXCL is only used for a new name.
MayOpenAnything(r, f) == TRUE

\* guarded_opener, through _open_guarded: O_EXCL unless overwrite.  A plain
\* download opens with mode 'wb'.
MayOpen(r, f) == r \in overwriting \cup plain \/ owner[f] = None

\* The entry after an open of `f`: an existing file is truncated, not replaced.
Opened(r, f) ==
    /\ owner' = [owner EXCEPT ![f] = IF @ = None THEN r ELSE @]
    /\ data' = [data EXCEPT ![f] = Empty]

\* _open of ContainedPathIO, open of ContainedLocalFS, where a name that leaves
\* the base directory, or is a link, is refused.
OpenFile(r) ==
    /\ pc[r] = "open"
    /\ \/ /\ MayOpen(r, cur[r])
          /\ Opened(r, cur[r])
          /\ attached' = attached \cup {r}
          /\ Go(r, "block")
          /\ UNCHANGED late
       \/ Unopened(r) /\ UNCHANGED disk
       \/ /\ ~MayOpen(r, cur[r])
          /\ Raise(r, "config", "settle")
          /\ UNCHANGED disk
    /\ UNCHANGED <<link, connected, place, cancels, hist>>

\* Mutant: the block is charged once it is on the disk.
SpendAfter(r) == written[r] <= Limit

\* TransferBudget.spend, before the block is written: one budget for all files
\* and attempts of a request.
Spend(r) == written[r] + 1 <= Limit

\* A block reaches the file behind the descriptor.
Store(r) ==
    /\ pos' = [pos EXCEPT ![r] = @ + 1]
    /\ data' = IF r \in attached
               THEN [data EXCEPT ![cur[r]][pos[r] + 1] = <<r, attempt[r]>>]
               ELSE data

\* The library has the end of the file, or the connection has failed: either
\* way it closes the file.
NoMoreBlocks(r) ==
    /\ pc[r] = "block"
    /\ Go(r, "close") \/ Raise(r, "network", "close")
    /\ UNCHANGED <<disk, link, connected, place, cancels, hist>>

\* ContainedPathIO.write up to its await: the block is charged, and a refusal
\* discards the file.
FtpBlock(r) ==
    /\ pc[r] = "block" /\ r \in Ftp \ plain
    /\ pos[r] < Blocks
    /\ written' = [written EXCEPT ![r] = @ + 1]
    /\ \/ /\ Spend(r)
          /\ pc' = [pc EXCEPT ![r] = "write"]
          /\ UNCHANGED <<failure, spoilt>>
       \/ /\ ~Spend(r)
          /\ pc' = [pc EXCEPT ![r] = "discard"]
          /\ failure' = [failure EXCEPT ![r] = "tooLarge"]
          /\ spoilt' = spoilt \cup {r}
    /\ UNCHANGED <<disk, link, connected, place, cancels, interrupted, result>>

\* Mutant: only a refusal of the budget discards the file.
FtpWriteKeeping(r, ok) ==
    /\ pc[r] = "write"
    /\ \/ ok /\ Store(r) /\ Go(r, "block") /\ UNCHANGED spoilt
       \/ /\ ~ok
          /\ spoilt' = spoilt \cup {r}
          /\ Raise(r, "local", "close")
          /\ UNCHANGED <<data, pos>>
    /\ UNCHANGED <<owner, attached, late, link, connected, attempt, cur,
                   cancels, interrupted>>

\* The write in its thread; _classifying types its failure.
FtpWrite(r, ok) ==
    /\ pc[r] = "write"
    /\ \/ ok /\ Store(r) /\ Go(r, "block") /\ UNCHANGED spoilt
       \/ /\ ~ok
          /\ spoilt' = spoilt \cup {r}
          /\ Raise(r, "local", "discard")
          /\ UNCHANGED <<data, pos>>
    /\ UNCHANGED <<owner, attached, late, link, connected, attempt, cur,
                   cancels, interrupted>>

\* ContainedPathIO._discard closes, and any Exception of that is suppressed.
FtpDiscard(r) ==
    /\ pc[r] = "discard"
    /\ attached' = attached \ {r}
    /\ Go(r, "unlink")
    /\ UNCHANGED <<owner, data, late, link, connected, place, cancels, hist>>

\* ClassifyingLocalFile.write, which only waits for the unlink of its _discard.
SftpWrite(r, ok) ==
    /\ pc[r] = "block" /\ r \in Sftp \ plain
    /\ pos[r] < Blocks
    /\ written' = [written EXCEPT ![r] = @ + 1]
    /\ \/ /\ Spend(r) /\ ok
          /\ Store(r)
          /\ UNCHANGED <<attached, pc, failure, spoilt>>
       \/ /\ ~Spend(r) \/ ~ok
          /\ attached' = attached \ {r}
          /\ pc' = [pc EXCEPT ![r] = "unlink"]
          /\ failure' = [failure EXCEPT ![r] =
                           IF Spend(r) THEN "local" ELSE "tooLarge"]
          /\ spoilt' = spoilt \cup {r}
          /\ UNCHANGED <<data, pos>>
    /\ UNCHANGED <<owner, late, link, connected, attempt, cur, cancels,
                   interrupted, result>>

\* A block of a plain download: not charged, and nothing is discarded.
PlainWrite(r, ok) ==
    /\ pc[r] = "block" /\ r \in plain
    /\ pos[r] < Blocks
    /\ \/ ok /\ Store(r) /\ UNCHANGED <<pc, failure, result, written, spoilt>>
       \/ /\ ~ok
          /\ spoilt' = spoilt \cup {r}
          /\ Raise(r, LocalFailure(r), "close")
          /\ UNCHANGED <<data, pos>>
    /\ UNCHANGED <<owner, attached, late, link, connected, attempt, cur,
                   cancels, interrupted>>

\* The file is closed; without a failure the next one follows.
Closed(r) ==
    /\ attached' = attached \ {r}
    /\ pos' = [pos EXCEPT ![r] = 0]
    /\ \/ /\ failure[r] = None /\ cur[r] < Files
          /\ cur' = [cur EXCEPT ![r] = @ + 1]
          /\ Go(r, "open")
       \/ /\ failure[r] # None \/ cur[r] = Files
          /\ Go(r, "settle")
          /\ UNCHANGED cur

\* A close whose flush fails: the file goes.
FlushFails(r) ==
    /\ attached' = attached \ {r}
    /\ spoilt' = spoilt \cup {r}
    /\ Raise(r, "local", "unlink")
    /\ UNCHANGED <<cur, pos>>

\* ContainedPathIO.close
FtpClose(r, ok) ==
    /\ pc[r] = "close" /\ r \in Ftp \ plain
    /\ \/ ok /\ Closed(r) /\ UNCHANGED spoilt
       \/ ~ok /\ FlushFails(r)
    /\ UNCHANGED <<owner, data, late, link, connected, attempt, cancels,
                   interrupted>>

\* ClassifyingLocalFile.close
SftpClose(r, ok) ==
    /\ pc[r] = "close" /\ r \in Sftp \ plain
    /\ \/ ok /\ Closed(r) /\ UNCHANGED spoilt
       \/ ~ok /\ FlushFails(r)
    /\ UNCHANGED <<owner, data, late, link, connected, attempt, cancels,
                   interrupted>>

\* The library closes the file of a plain download.  A flush that fails leaves
\* it, and its error replaces the one being raised.
PlainClose(r, ok) ==
    /\ pc[r] = "close" /\ r \in plain
    /\ \/ ok /\ Closed(r) /\ UNCHANGED spoilt
       \/ /\ ~ok
          /\ attached' = attached \ {r}
          /\ spoilt' = spoilt \cup {r}
          /\ Raise(r, LocalFailure(r), "settle")
          /\ UNCHANGED <<cur, pos>>
    /\ UNCHANGED <<owner, data, late, link, connected, attempt, cancels,
                   interrupted>>

\* Mutant: descriptors are taken to follow the name.
UnlinkedAttached(f) ==
    /\ owner' = [owner EXCEPT ![f] = None]
    /\ data' = [data EXCEPT ![f] = Empty]
    /\ UNCHANGED attached

\* The entry is removed, whoever owns it by now.
Unlinked(f) ==
    /\ owner' = [owner EXCEPT ![f] = None]
    /\ data' = [data EXCEPT ![f] = Empty]
    /\ attached' = {r \in attached : cur[r] # f}

\* _unlink, in a thread.
Unlink(r) ==
    /\ pc[r] = "unlink"
    /\ Unlinked(cur[r])
    /\ Go(r, "settle")
    /\ UNCHANGED <<late, link, connected, place, cancels, hist>>

\* The thread of a cancelled request gets to its call.
LateOpen(r, f) ==
    /\ <<r, "open", f>> \in late
    /\ late' = late \ {<<r, "open", f>>}
    /\ IF MayOpen(r, f) THEN Opened(r, f) ELSE UNCHANGED <<owner, data>>
    /\ UNCHANGED <<attached, link, connected, pc, place, written, failure,
                   cancels, hist, result>>

LateUnlink(r, f) ==
    /\ <<r, "unlink", f>> \in late
    /\ late' = late \ {<<r, "unlink", f>>}
    /\ Unlinked(f)
    /\ UNCHANGED <<link, connected, pc, place, written, failure, cancels, hist,
                   result>>

-----------------------------------------------------------------------------
(* task.cancel(), at every await.                                          *)

CancelSession(r) ==
    /\ \/ pc[r] \in {"connect", "login", "leave"}
          /\ End(r, "cancelled")
          /\ connected' = connected \ {r}
       \/ pc[r] \in {"look", "command", "backoff", "stat"}
          /\ Raise(r, "cancelled", "leave")
          /\ UNCHANGED connected
    /\ UNCHANGED <<disk, place, hist>>

\* Waiting for a thread, or for the server.  The library closes the file it
\* has open, unless the wrapper is already doing that.
CancelTransfer(r) ==
    /\ \/ /\ pc[r] \in {"mkdir", "open"}
          /\ late' = IF pc[r] = "open" /\ r \notin plain
                     THEN late \cup {<<r, "open", cur[r]>>} ELSE late
          /\ Raise(r, "cancelled", "settle")
          /\ UNCHANGED <<owner, data, attached, pos, hist>>
       \/ /\ pc[r] = "block" \/ (pc[r] = "close" /\ r \in plain)
          /\ Raise(r, "cancelled", "close")
          /\ UNCHANGED <<disk, pos, hist>>
       \/ /\ pc[r] = "write"
          /\ Store(r) \/ UNCHANGED <<data, pos>>
          /\ spoilt' = spoilt \cup {r}
          /\ Raise(r, "cancelled", "discard")
          /\ UNCHANGED <<owner, attached, late, interrupted>>
    /\ UNCHANGED <<connected, attempt, cur>>

\* FTP's close removes the file it was closing, complete or not.
CancelClose(r) ==
    /\ pc[r] = "close" /\ r \in Ftp \ plain
    /\ attached' = attached \ {r}
    /\ spoilt' = spoilt \cup {r}
    /\ Raise(r, "cancelled", "unlink")
    /\ UNCHANGED <<owner, data, late, place, connected, interrupted>>

\* suppress(Exception) lets a CancelledError through: no unlink follows an
\* FTP _discard that is cancelled while it closes.
CancelCleanup(r) ==
    /\ \/ /\ pc[r] = "discard"
          /\ attached' = attached \ {r}
          /\ UNCHANGED late
       \/ /\ pc[r] = "unlink"
          /\ late' = late \cup {<<r, "unlink", cur[r]>>}
          /\ UNCHANGED attached
    /\ interrupted' = interrupted \cup {r}
    /\ Raise(r, "cancelled", "settle")
    /\ UNCHANGED <<owner, data, place, connected, spoilt>>

Cancel(r) ==
    /\ cancels[r] < MaxCancels
    /\ cancels' = [cancels EXCEPT ![r] = @ + 1]
    /\ \/ CancelSession(r)
       \/ CancelTransfer(r)
       \/ CancelClose(r)
       \/ CancelCleanup(r)
    /\ UNCHANGED link

-----------------------------------------------------------------------------
Awaited(r, ok) == \/ Connect(r, ok)
                  \/ Login(r, ok)
                  \/ Look(r, ok)
                  \/ Admit(r, ok)
                  \/ RemoteCommand(r, ok)
                  \/ Stat(r, ok)
                  \/ LeaveFtp(r, ok)
                  \/ Mkdir(r, ok)
                  \/ FtpWrite(r, ok)
                  \/ SftpWrite(r, ok)
                  \/ PlainWrite(r, ok)
                  \/ FtpClose(r, ok)
                  \/ SftpClose(r, ok)
                  \/ PlainClose(r, ok)

Step(r) == \/ StartFtp(r)
           \/ StartSftp(r)
           \/ \E ok \in BOOLEAN : Awaited(r, ok)
           \/ Settle(r)
           \/ LeaveSftp(r)
           \/ OpenFile(r)
           \/ NoMoreBlocks(r)
           \/ FtpBlock(r)
           \/ FtpDiscard(r)
           \/ Unlink(r)

Thread(r) == \E f \in 1..Files : LateOpen(r, f) \/ LateUnlink(r, f)

\* All requests have ended, and so have their threads.
Terminated == /\ \A r \in Requests : pc[r] = "ended"
              /\ late = {}
              /\ UNCHANGED vars

Next == \/ \E r \in Requests : Step(r) \/ Thread(r) \/ Cancel(r)
        \/ Terminated

Spec == Init /\ [][Next]_vars

-----------------------------------------------------------------------------
(* Properties.                                                             *)

Failures ==
    {None, "network", "local", "config", "tooLarge", "open", "defect",
     "cancelled"}

\* The variables keep their types; a descriptor is attached to an entry that
\* exists.
TypeOK ==
    /\ owner \in [1..Files -> Requests \cup {None, Before}]
    /\ \A r \in attached : owner[cur[r]] # None
    /\ \A c \in late : c \in Requests \X {"open", "unlink"} \X (1..Files)
    /\ op \in [Requests -> {None, "download", "upload", "remove", "misfit"}]
    /\ attempt \in [Requests -> 1..Attempts]
    /\ cur \in [Requests -> 1..Files]
    /\ pos \in [Requests -> 0..Blocks]
    /\ written \in [Requests -> 0..(Limit + 1)]
    /\ failure \in [Requests -> Failures]
    /\ result \in [Requests -> (Failures \cup {"ok"})]

Stored(r) ==
    {e \in (1..Files) \X (1..Blocks) : data[e[1]][e[2]][1] = r}

\* A request with a local path never has more than max_response_bytes on the
\* disk, all files and what earlier attempts left included (one TransferBudget
\* per request).  A plain download has no budget: README.md's "Download ceiling"
\* does not hold for it.
BudgetHolds == \A r \in Requests \ plain : Cardinality(Stored(r)) <= Limit

\* The file of a failed write or flush is gone when the request ends, whatever
\* retries, other requests and cancellations came between, unless a
\* cancellation interrupted the removal itself (write, close and _discard of
\* both wrappers).  A plain download removes nothing.
FailedWriteRemoved ==
    \A r \in spoilt \ (interrupted \cup plain) :
        pc[r] = "ended" => owner[cur[r]] \in (Requests \ {r}) \cup {None}

\* Nobody overwrites, by asking for it or by naming no local path.
Exclusive == overwriting \cup plain = {}

\* A file that was there, or that a request has reported as downloaded, is
\* neither written to nor removed.
Kept == \A f \in 1..Files :
            owner[f] = Before
              \/ (owner[f] \in Requests /\ result[owner[f]] = "ok")
            => owner'[f] = owner[f] /\ data'[f] = data[f]

\* Where all requests are exclusive, files are kept, also from the cleanup of
\* another request and from a thread nobody waits for (O_EXCL).  A plain
\* download truncates what it finds, although README.md says that "Downloads
\* refuse to overwrite by default".
ExclusiveKeeps == [][Exclusive => Kept]_vars

\* A block of the request's last attempt, or nothing after the end.
WholeFile(r, f) ==
    \E n \in 0..Blocks : \A b \in 1..Blocks :
        data[f][b] = IF b <= n THEN <<r, attempt[r]>> ELSE <<None, 0>>

\* A download that reports success left every file whole and made of blocks of
\* one attempt: a retry never succeeds over what an earlier attempt left, with
\* or without a local path.  Only for a request that had the directory to
\* itself, or where nobody overwrites: an overwriting or plain request
\* truncates a file that another one is writing.
SuccessIsWhole ==
    \A r \in Requests :
        /\ result[r] = "ok" /\ op[r] = "download"
        /\ Exclusive \/ \A q \in Requests \ {r} : pc[q] = "start"
        => \A f \in 1..Files : owner[f] # None /\ WholeFile(r, f)

\* A cancelled request ends as cancelled, also when quit() fails on the way out
\* (_being_cancelled).  The one thing that hides a cancellation is a local file
\* whose flush fails as the library closes it.  LocalWriteError then replaces
\* the CancelledError in both wrappers' close; a plain download even retries,
\* as the library's error is a retriable one.
CancellationReported ==
    \A r \in Requests : pc[r] = "ended" /\ cancels[r] > 0 =>
        \/ result[r] = "cancelled"
        \/ result[r] = "local" /\ r \in spoilt \ interrupted
        \/ r \in spoilt \cap plain

\* Nobody is authenticated in a session only if the caller asked for it by
\* name: verify_ssl falsy, insecure_skip_host_key_check=True.
PeerVerified == connected \subseteq session

\* An ended request has no control connection (_explicit_ftps_context).
SessionClosed == \A r \in Requests : pc[r] = "ended" => r \notin connected

\* The session: types and bounds, an authenticated peer, a closed connection.
SessionInv == TypeOK /\ PeerVerified /\ SessionClosed

\* The local files of transfers that overlap, fail, retry and are cancelled:
\* within the budget, whole after a success, gone after a failed write.
FilesInv == BudgetHolds /\ FailedWriteRemoved /\ SuccessIsWhole
=============================================================================
