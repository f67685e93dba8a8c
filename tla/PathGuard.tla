----------------------------- MODULE PathGuard ------------------------------
(***************************************************************************)
(* The guarded opening of a local path and what is done with the file      *)
(* (utils/paths.py): a writer, which is safe_writer around a capped        *)
(* response body (download_file_from_url of utils/http_file_config.py,     *)
(* read_response of helpers/internal/request_helper.py) or the open of an  *)
(* FTP or SFTP transfer, and a reader, read_guarded_file.                  *)
(*                                                                         *)
(* Either names dir/leaf.  Other calls and processes work in the same      *)
(* tree: `dir` may be exchanged for a link to the directory `out`, and     *)
(* back, and the leaf for another file, between any two system calls.  A   *)
(* path is resolved once and walked again, one component at a time, when   *)
(* it is opened.                                                           *)
(***************************************************************************)
EXTENDS Integers, FiniteSets

CONSTANTS
    Blocks,       \* bound: blocks in a response or a file
    Limit,        \* max_response_bytes and max_bytes, in blocks
    MaxMoves,     \* bound: changes made by other processes
    MaxCancels    \* bound: how often one task is cancelled

ASSUME NumbersAssumption ==
    /\ {Blocks, Limit} \subseteq Nat \ {0}
    /\ {MaxMoves, MaxCancels} \subseteq Nat

None == "none"
Before == -1      \* the content a file had at the start
Procs == {"writer", "reader"}

\* What the leaf can be: a file that was there, one that also has a name in
\* `out`, the writer's new file, a pipe or device, a symbolic link.
Regular == {"mine", "theirs", "new"}
Inodes == Regular \cup {"pipe", "link"}

VARIABLES
    dir,        \* what the name `dir` is: "directory" or "link", to `out`
    leaf,       \* the entry `leaf` of both directories
    data,       \* blocks in each regular file, or Before
    moves,
    withdrawn,  \* history: a name of the file went between open and fstat
    via,        \* how the writer was given its path: "caller" or "contained"
    overwrite,
    pc,
    target,     \* the directory the path was resolved to
    parents,    \* the descriptor of the directory being opened in
    file,       \* the file that was opened
    held,       \* processes with an open descriptor of their file
    count,      \* blocks received or read
    failure,    \* what is being raised
    gone,       \* tasks that were cancelled while a thread was working for them
    cancels,
    left,       \* history: the writer ended without removing what it opened
    result

tree == <<dir, leaf, moves, withdrawn>>
options == <<via, overwrite>>
descriptors == <<parents, file, held>>
vars == <<tree, data, options, pc, target, descriptors, count, failure, gone,
          cancels, left, result>>

Init == /\ dir \in {"directory", "link"}
        /\ \E i \in {None, "mine"} :
             leaf = [d \in {"in", "out"} |-> IF d = "in" THEN i ELSE "theirs"]
        /\ data = [i \in Regular |-> Before]
        /\ moves = 0
        /\ withdrawn = FALSE
        /\ via \in {"caller", "contained"}
        /\ overwrite \in BOOLEAN
        /\ \E q \in Procs :
             pc = [p \in Procs |-> IF p = q THEN "resolve" ELSE "ended"]
        /\ target = [p \in Procs |-> None]
        /\ parents = [p \in Procs |-> None]
        /\ file = [p \in Procs |-> None]
        /\ held = {}
        /\ count = [p \in Procs |-> 0]
        /\ failure = [p \in Procs |-> None]
        /\ gone = {}
        /\ cancels = [p \in Procs |-> 0]
        /\ left = FALSE
        /\ result = [p \in Procs |-> None]

Go(p, next) == /\ pc' = [pc EXCEPT ![p] = next]
               /\ UNCHANGED <<failure, result>>

Raise(p, why, next) == /\ failure' = [failure EXCEPT ![p] = why]
                       /\ pc' = [pc EXCEPT ![p] = next]
                       /\ UNCHANGED result

\* Mutant: a cancellation during a thread's call is forgotten.
EndForgetting(p, res) == /\ result' = [result EXCEPT ![p] = res]
                         /\ pc' = [pc EXCEPT ![p] = "ended"]
                         /\ UNCHANGED failure

\* The call returns or raises; a cancellation it was waiting out comes first.
End(p, res) == /\ result' = [result EXCEPT ![p] =
                               IF p \in gone THEN "cancelled" ELSE res]
               /\ pc' = [pc EXCEPT ![p] = "ended"]
               /\ UNCHANGED failure

-----------------------------------------------------------------------------
(* Other processes.                                                        *)

SwapDir == dir' = (IF dir = "link" THEN "directory" ELSE "link")
           /\ UNCHANGED <<leaf, withdrawn>>

\* The leaf is removed, or replaced by rename, link() or symlink(): never by a
\* file that no longer has a name.
PutLeaf(i) ==
    /\ i = "theirs" => leaf["out"] = i
    /\ i = "mine" => file["writer"] # i
    /\ leaf' = [leaf EXCEPT !["in"] = i]
    /\ withdrawn' = (withdrawn \/ (/\ pc["writer"] = "check" /\ i # leaf["in"]
                                  /\ file["writer"] = leaf["in"]))
    /\ UNCHANGED dir

Others == /\ moves < MaxMoves
          /\ moves' = moves + 1
          /\ SwapDir \/ \E i \in (Inodes \ {"new"}) \cup {None} : PutLeaf(i)
          /\ UNCHANGED <<data, options, pc, target, descriptors, count, failure,
                         gone, cancels, left, result>>

Links(i) == Cardinality({d \in {"in", "out"} : leaf[d] = i})

\* The directory a system call reaches by the resolved name of `d`.
Reached(d) == IF d = "in" /\ dir = "link" THEN "out" ELSE d

-----------------------------------------------------------------------------
(* Resolving.                                                              *)

\* resolve_within follows every link but the leaf.  A caller's own directory
\* is its own base (caller_path); a transfer's must stay in the base (under).
Resolve(p) ==
    /\ pc[p] = "resolve"
    /\ LET contained == p = "writer" /\ via = "contained"
       IN  \/ /\ contained /\ dir = "link"
              /\ End(p, "containment")
              /\ UNCHANGED target
           \/ /\ ~(contained /\ dir = "link")
              /\ target' = [target EXCEPT ![p] = Reached("in")]
              /\ Go(p, IF p = "writer" /\ via = "caller" THEN "request"
                       ELSE "walk")
           \/ End(p, "config") /\ UNCHANGED target
    /\ UNCHANGED <<tree, data, options, descriptors, count, gone, cancels,
                   left>>

\* The answer is refused by its status or its declared length
\* (guard_declared_length) before there is a file.
Request ==
    /\ pc["writer"] = "request"
    /\ \/ Go("writer", "walk")
       \/ \E why \in {"network", "tooLarge"} : End("writer", why)
    /\ UNCHANGED <<tree, data, options, target, descriptors, count, gone,
                   cancels, left>>

-----------------------------------------------------------------------------
(* open_within and _open_read_descriptor, in a thread.                     *)

\* Mutant: a walk that fails does not close where it got to.
WalkLeaking(p) ==
    /\ pc[p] = "walk"
    /\ parents' = [parents EXCEPT ![p] = target[p]]
    /\ \/ Reached(target[p]) = target[p] /\ Go(p, "open")
       \/ End(p, "local")
    /\ UNCHANGED <<tree, data, options, target, file, held, count, gone,
                   cancels, left>>

\* _walk_to_parent opens every component with O_NOFOLLOW.
Walk(p) ==
    /\ pc[p] = "walk"
    /\ \/ /\ Reached(target[p]) = target[p]
          /\ parents' = [parents EXCEPT ![p] = target[p]]
          /\ Go(p, "open")
       \/ End(p, "local") /\ UNCHANGED parents
    /\ UNCHANGED <<tree, data, options, target, file, held, count, gone,
                   cancels, left>>

\* Mutant: O_EXCL is not set.
ExclusiveIgnored == FALSE

\* guarded_opener
Exclusive == ~overwrite

\* The leaf is opened, without O_TRUNC; the directory is closed either way.
OpenLeaf(p, i) ==
    /\ pc[p] = "open" /\ i = leaf[parents[p]]
    /\ parents' = [parents EXCEPT ![p] = None]
    /\ \/ /\ p = "writer" /\ i = None
          /\ leaf' = [leaf EXCEPT ![parents[p]] = "new"]
          /\ data' = [data EXCEPT !["new"] = 0]
          /\ file' = [file EXCEPT ![p] = "new"]
          /\ held' = held \cup {p}
          /\ Go(p, "check")
       \/ /\ i \in Regular \cup {"pipe"}
          /\ p = "writer" => ~Exclusive
          /\ file' = [file EXCEPT ![p] = i]
          /\ held' = held \cup {p}
          /\ Go(p, "check")
          /\ UNCHANGED <<leaf, data>>
       \/ /\ UNCHANGED <<leaf, data, file, held>>
          /\ \E why \in {"containment", "config", "local"} :
               /\ why = "config" => p = "writer" /\ Exclusive /\ i # None
               /\ why = "containment" => i \in {"pipe", "link"}
               /\ End(p, why)
    /\ UNCHANGED <<dir, moves, withdrawn, options, target, count, gone, cancels,
                   left>>

\* Mutant: a hard link is not noticed.
AcceptableAnyLinks(p) == file[p] \in Regular

\* _reject_irregular, and the fstat of _open_read_descriptor.
Acceptable(p) == /\ file[p] \in Regular
                 /\ p = "writer" => Links(file[p]) <= 1

\* The descriptor is looked at before anything is changed through it.
Check(p) ==
    /\ pc[p] = "check"
    /\ \/ /\ Acceptable(p)
          /\ Go(p, IF p = "writer" THEN "truncate" ELSE "opened")
          /\ UNCHANGED <<held, left>>
       \/ /\ held' = held \ {p}
          /\ left' = (left \/ p = "writer")
          /\ \E why \in {"containment", "config", "local"} :
               /\ why # "local" => ~Acceptable(p)
               /\ why = "config" <=> (p = "reader" /\ ~Acceptable(p))
               /\ End(p, why)
    /\ UNCHANGED <<tree, data, options, target, parents, file, count, gone,
                   cancels>>

\* What fails here, too, leaves a file that the open has created.
Truncate(ok) ==
    /\ pc["writer"] = "truncate"
    /\ \/ /\ ok
          /\ data' = IF Exclusive THEN data
                     ELSE [data EXCEPT ![file["writer"]] = 0]
          /\ Go("writer", "opened")
          /\ UNCHANGED <<held, left>>
       \/ /\ ~ok
          /\ held' = held \ {"writer"}
          /\ left' = TRUE
          /\ End("writer", "local")
          /\ UNCHANGED data
    /\ UNCHANGED <<tree, options, target, parents, file, count, gone, cancels>>

\* Mutant: only a reader that is still there gets its descriptor closed.
OpenedDropped(p) ==
    /\ pc[p] = "opened"
    /\ \/ /\ p \in gone
          /\ held' = IF p = "writer" THEN held \ {p} ELSE held
          /\ End(p, "cancelled")
       \/ p \notin gone /\ Go(p, "stream") /\ UNCHANGED held
    /\ UNCHANGED <<tree, data, options, target, parents, file, count, gone,
                   cancels, left>>

\* The thread returns.  _await_open_descriptor closes what nobody will use; a
\* file object that nobody awaits is closed when it is dropped.
Opened(p) ==
    /\ pc[p] = "opened"
    /\ \/ p \in gone /\ held' = held \ {p} /\ End(p, "cancelled")
       \/ p \notin gone /\ Go(p, "stream") /\ UNCHANGED held
    /\ UNCHANGED <<tree, data, options, target, parents, file, count, gone,
                   cancels, left>>

-----------------------------------------------------------------------------
(* safe_writer.                                                            *)

\* An FTP or SFTP transfer writes to the file it was given (Transfer).
HandOver ==
    /\ pc["writer"] = "stream" /\ via = "contained"
    /\ held' = held \ {"writer"}
    /\ End("writer", "ok")
    /\ UNCHANGED <<tree, data, options, target, parents, file, count, gone,
                   cancels, left>>

\* Mutant: the cap is tested before the block is counted.
CappedLate(p) == count[p] <= Limit

\* iter_capped and the reader's loop: a block is counted, then used.
Capped(p) == count[p] + 1 <= Limit

\* A block arrives and is written, unless the limit or the disk refuses it.
WriteBlock(ok) ==
    /\ pc["writer"] = "stream" /\ via = "caller"
    /\ count["writer"] < Blocks
    /\ count' = [count EXCEPT !["writer"] = @ + 1]
    /\ \/ /\ Capped("writer") /\ ok
          /\ data' = [data EXCEPT ![file["writer"]] = @ + 1]
          /\ Go("writer", "stream")
       \/ /\ Capped("writer") /\ ~ok
          /\ Raise("writer", "local", "discard")
          /\ UNCHANGED data
       \/ /\ ~Capped("writer")
          /\ Raise("writer", "tooLarge", "discard")
          /\ UNCHANGED data
    /\ UNCHANGED <<tree, options, target, descriptors, gone, cancels, left>>

\* The body ends, or fails.
BodyEnds ==
    /\ pc["writer"] = "stream" /\ via = "caller"
    /\ Go("writer", "close") \/ Raise("writer", "network", "discard")
    /\ UNCHANGED <<tree, data, options, target, descriptors, count, gone,
                   cancels, left>>

\* Mutant: a failing close leaves the file.
CloseKeeping(ok) ==
    /\ pc["writer"] = "close"
    /\ held' = held \ {"writer"}
    /\ \/ ok /\ End("writer", "ok")
       \/ ~ok /\ End("writer", "local")
    /\ UNCHANGED <<tree, data, options, target, parents, file, count, gone,
                   cancels, left>>

\* The close after the body, which flushes: its failure removes the file.
Close(ok) ==
    /\ pc["writer"] = "close"
    /\ held' = held \ {"writer"}
    /\ \/ ok /\ End("writer", "ok")
       \/ ~ok /\ Raise("writer", "local", "unlink")
    /\ UNCHANGED <<tree, data, options, target, parents, file, count, gone,
                   cancels, left>>

\* The handler of the body's failure closes first; an OSError is suppressed.
Discard ==
    /\ pc["writer"] = "discard"
    /\ held' = held \ {"writer"}
    /\ Go("writer", "unlink")
    /\ UNCHANGED <<tree, data, options, target, parents, file, count, gone,
                   cancels, left>>

\* safe_unlink goes by the resolved name, whatever that has become.  When it
\* fails, its OSError is what the caller gets.
Unlink(ok) ==
    /\ pc["writer"] = "unlink"
    /\ \/ /\ ok
          /\ leaf' = [leaf EXCEPT ![Reached(target["writer"])] = None]
          /\ left' = (left \/ Reached(target["writer"]) # target["writer"])
          /\ Go("writer", "classify")
       \/ /\ ~ok /\ left' = TRUE /\ End("writer", "local") /\ UNCHANGED leaf
    /\ UNCHANGED <<dir, moves, withdrawn, data, options, target, descriptors,
                   count, gone, cancels>>

\* classify_refusal looks at the path again, in a thread.
Classify ==
    /\ pc["writer"] = "classify"
    /\ End("writer", failure["writer"])
    /\ UNCHANGED <<tree, data, options, target, descriptors, count, gone,
                   cancels, left>>

-----------------------------------------------------------------------------
(* read_guarded_file.                                                      *)

ReadBlock(ok) ==
    /\ pc["reader"] = "stream"
    /\ \/ /\ "reader" \in gone
          /\ Raise("reader", "cancelled", "close")
          /\ UNCHANGED count
       \/ /\ "reader" \notin gone /\ ok /\ count["reader"] < Blocks
          /\ count' = [count EXCEPT !["reader"] = @ + 1]
          /\ IF Capped("reader") THEN Go("reader", "stream")
             ELSE Raise("reader", "config", "close")
       \/ /\ "reader" \notin gone
          /\ \/ ok /\ Go("reader", "close")
             \/ ~ok /\ Raise("reader", "local", "close")
          /\ UNCHANGED count
    /\ UNCHANGED <<tree, data, options, target, descriptors, gone, cancels,
                   left>>

\* _close_descriptor: after a failure with suppress_cancellation.
CloseReader(ok) ==
    /\ pc["reader"] = "close"
    /\ held' = held \ {"reader"}
    /\ \/ /\ failure["reader"] # None
          /\ result' = [result EXCEPT !["reader"] = failure["reader"]]
          /\ pc' = [pc EXCEPT !["reader"] = "ended"]
          /\ UNCHANGED failure
       \/ /\ failure["reader"] = None
          /\ End("reader", IF ok THEN "ok" ELSE "local")
    /\ UNCHANGED <<tree, data, options, target, parents, file, count, gone,
                   cancels, left>>

-----------------------------------------------------------------------------
(* task.cancel(), at every await.                                          *)

\* Threads go on: the open, and the reader's shielded calls, are waited for or
\* thrown away when they are done.
CancelThread(p) ==
    /\ \/ pc[p] \in {"walk", "open", "check", "truncate", "opened"}
       \/ p = "reader" /\ pc[p] \in {"stream", "close"}
       \/ p = "writer" /\ pc[p] \in {"unlink", "classify"}
    /\ gone' = gone \cup {p}
    /\ left' = (left \/ (p = "writer" /\ pc[p] \notin {"unlink", "classify"}))
    /\ UNCHANGED <<data, held, pc, failure, result>>

\* Nothing was opened yet.
CancelEarly(p) ==
    /\ pc[p] \in {"resolve", "request"}
    /\ result' = [result EXCEPT ![p] = "cancelled"]
    /\ pc' = [pc EXCEPT ![p] = "ended"]
    /\ UNCHANGED <<data, held, failure, gone, left>>

\* The body is awaited, or a write that will still be done.
CancelBody ==
    /\ pc["writer"] = "stream" /\ via = "caller"
    /\ \/ UNCHANGED data
       \/ /\ count["writer"] < Blocks /\ Capped("writer")
          /\ data' = [data EXCEPT ![file["writer"]] = @ + 1]
    /\ Raise("writer", "cancelled", "discard")
    /\ UNCHANGED <<held, gone, left>>

\* Neither close is shielded: the CancelledError skips the unlink.
CancelClose ==
    /\ pc["writer"] \in {"discard", "close"}
    /\ held' = held \ {"writer"}
    /\ left' = TRUE
    /\ result' = [result EXCEPT !["writer"] = "cancelled"]
    /\ pc' = [pc EXCEPT !["writer"] = "ended"]
    /\ UNCHANGED <<data, failure, gone>>

Cancel(p) ==
    /\ cancels[p] < MaxCancels
    /\ cancels' = [cancels EXCEPT ![p] = @ + 1]
    /\ \/ CancelThread(p)
       \/ CancelEarly(p)
       \/ p = "writer" /\ (CancelBody \/ CancelClose)
    /\ UNCHANGED <<tree, options, target, parents, file, count>>

-----------------------------------------------------------------------------
Opening(p) == \/ Resolve(p)
              \/ Walk(p)
              \/ \E i \in Inodes \cup {None} : OpenLeaf(p, i)
              \/ Check(p)
              \/ Opened(p)

Writer == \/ Opening("writer")
          \/ Request
          \/ HandOver
          \/ BodyEnds
          \/ Discard
          \/ Classify
          \/ \E ok \in BOOLEAN :
               Truncate(ok) \/ WriteBlock(ok) \/ Close(ok) \/ Unlink(ok)

Reader == \/ Opening("reader")
          \/ \E ok \in BOOLEAN : ReadBlock(ok) \/ CloseReader(ok)

\* Both calls have ended.  Every step brings a call closer to its end, so that
\* a call that does not end is a deadlock.
Terminated == (\A p \in Procs : pc[p] = "ended") /\ UNCHANGED vars

Next == \/ Writer
        \/ Reader
        \/ Others
        \/ \E p \in Procs : Cancel(p)
        \/ Terminated

Spec == Init /\ [][Next]_vars

-----------------------------------------------------------------------------
(* Properties.                                                             *)

\* The variables keep their types; a directory's descriptor is only held while
\* the leaf is being opened.
TypeOK ==
    /\ leaf \in [{"in", "out"} -> Inodes \cup {None}]
    /\ data \in [Regular -> Before..Blocks]
    /\ file \in [Procs -> Inodes \cup {None}]
    /\ \A p \in Procs : parents[p] # None => pc[p] = "open"
    /\ \A p \in held : file[p] # None
    /\ result \in [Procs -> {None, "ok", "containment", "config", "local",
                             "network", "tooLarge", "cancelled"}]

\* A path that was resolved inside `dir` never leads a writer to a file outside
\* it, however links, directories and names change under it: a file that also
\* has a name in `out` is neither truncated nor written (the walk, O_NOFOLLOW,
\* and truncation after _reject_irregular).  The count of names is a snapshot:
\* a name inside that goes between the open and the fstat is not noticed.
OutsideUntouched ==
    target["writer"] = "in" /\ ~withdrawn => data["theirs"] = Before

\* No descriptor outlives its call, on any failure or cancellation, also one
\* that a thread opens after the task was cancelled.
NothingLeaks == \A p \in Procs :
    pc[p] = "ended" => p \notin held /\ parents[p] = None

\* A write that fails leaves no file of its own under the name.  What prevents
\* that is an open that fails or is cancelled after it has created the file, a
\* cancellation during one of the two closes, an unlink that fails, and a
\* directory exchanged before the unlink.
NoPartialFile ==
    /\ pc["writer"] = "ended" /\ result["writer"] # "ok"
    /\ via = "caller" /\ ~left /\ ~withdrawn
    /\ file["writer"] \in Regular /\ data[file["writer"]] # Before
    => leaf[target["writer"]] # file["writer"]

\* Without overwrite a file that was there is neither changed nor, as long as
\* no other process exchanges names, removed: not by a cleanup either.
ExistingKept ==
    [][~overwrite =>
          /\ data'["mine"] = data["mine"] /\ data'["theirs"] = data["theirs"]
          /\ \A d \in {"in", "out"} :
               moves' = 0 /\ leaf[d] \in {"mine", "theirs"}
                 => leaf'[d] = leaf[d]]_vars

\* Not more than the limit is written or returned, whatever length the answer
\* declared.
LimitHolds ==
    /\ \A i \in Regular : data[i] <= Limit
    /\ result["reader"] = "ok" => count["reader"] <= Limit

\* A cancelled task ends as cancelled, unless the call ended first or a failed
\* read was already closing its descriptor (suppress_cancellation).
CancellationSeen ==
    \A p \in Procs : pc[p] = "ended" /\ cancels[p] > 0 =>
        \/ result[p] = "cancelled"
        \/ p = "reader" /\ failure[p] \in {"config", "local"}
        \/ p = "writer" /\ failure[p] = "cancelled" /\ left

\* What can be reached and how much of it: no file outside, not beyond the limit.
GuardInv == TypeOK /\ OutsideUntouched /\ LimitHolds

\* What a call leaves: no descriptor, no partial file, a cancellation reported.
CleanupInv == NothingLeaks /\ NoPartialFile /\ CancellationSeen
=============================================================================
