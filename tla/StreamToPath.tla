---------------------------- MODULE StreamToPath ----------------------------
(***************************************************************************)
(* stream_to_path (utils/paths.py): downloads streamed to one target path, *)
(* by several tasks at once.  An overwriting writer streams to a temporary *)
(* file and replaces the target with it; an exclusive writer creates the   *)
(* target itself.                                                          *)
(*                                                                         *)
(* Every system call runs in a thread under _await_shielded_operation: the *)
(* task waits for it whatever cancellations arrive, and only then raises   *)
(* the first of them, unless the call suppresses it.  A step of the model  *)
(* is one such call: its effect and the code up to the next await.  Where  *)
(* the task awaits unshielded (the next chunk, the sleep(0) before the     *)
(* replacement) a cancellation takes effect at once.                       *)
(*                                                                         *)
(* A file is known by the writer that created it: the directory entry      *)
(* `target` names one, and writing goes to the file a descriptor holds,    *)
(* whatever the entry says by then.  A cleanup that fails is ignored by    *)
(* the code and not modelled: its close and unlink succeed.                *)
(***************************************************************************)
EXTENDS Integers, FiniteSets

CONSTANTS
    Overwriting,  \* the writers that pass overwrite=True
    Exclusive,    \* the writers that pass overwrite=False
    Chunks,       \* how many chunks a whole body has
    MaxCancels    \* bound: how often one writer's task is cancelled

ASSUME WritersAssumption == Overwriting \cap Exclusive = {}
ASSUME ChunksAssumption == Chunks \in Nat
ASSUME MaxCancelsAssumption == MaxCancels \in Nat

Writers == Overwriting \cup Exclusive
Nobody == "none"      \* the target does not exist
Before == "before"    \* the file that was there before any writer started

ASSUME NamesAssumption == Writers \cap {Nobody, Before} = {}

VARIABLES
    target,     \* the file the target's directory entry names
    temp,       \* writers whose temporary name exists
    fds,        \* writers whose file descriptor is open
    parents,    \* writers whose parent-directory descriptor is open
    pc,         \* the call each task is waiting for
    written,    \* chunks in each writer's file
    failure,    \* what the try block is raising
    cancelled,  \* caller_cancellation of the call being awaited
    cancels,
    asked,      \* history: writers cancelled while nothing had failed and
                \* the replacement was not dispatched
    replaced,   \* history: writers that have replaced the target
    result

vars == <<target, temp, fds, parents, pc, written, failure, cancelled,
          cancels, asked, replaced, result>>

Init == /\ target \in {Nobody, Before}
        /\ temp = {}
        /\ fds = {}
        /\ parents = {}
        /\ pc = [w \in Writers |-> "start"]
        /\ written = [w \in Writers |-> 0]
        /\ failure = [w \in Writers |-> "none"]
        /\ cancelled = [w \in Writers |-> FALSE]
        /\ cancels = [w \in Writers |-> 0]
        /\ asked = {}
        /\ replaced = {}
        /\ result = [w \in Writers |-> "none"]

-----------------------------------------------------------------------------
(* How a call ends.                                                        *)

\* The try block goes on to its next call.
Proceed(w, next) ==
    /\ pc' = [pc EXCEPT ![w] = next]
    /\ UNCHANGED <<failure, cancelled, result>>

\* The try block raises, and its finally starts cleaning up at `next`.
Fail(w, why, next) ==
    /\ failure' = [failure EXCEPT ![w] = why]
    /\ pc' = [pc EXCEPT ![w] = next]
    /\ cancelled' = [cancelled EXCEPT ![w] = FALSE]
    /\ UNCHANGED result

\* stream_to_path returns or raises.
Finish(w, res) ==
    /\ result' = [result EXCEPT ![w] = res]
    /\ pc' = [pc EXCEPT ![w] = "ended"]
    /\ cancelled' = [cancelled EXCEPT ![w] = FALSE]
    /\ UNCHANGED failure

\* The writer returns to stream_to_path, which looks at an OSError again in a
\* thread before it raises.
Return(w, res) ==
    \/ Finish(w, res)
    \/ /\ res = "error"
       /\ Fail(w, res, "classify")

\* Mutant: the loop that waits does not end once it has seen a cancellation.
AwaitedSpinning(w, ok, next, cleanup) ==
    \/ ~cancelled[w] /\ ok /\ Proceed(w, next)
    \/ ~cancelled[w] /\ ~ok /\ Fail(w, "error", cleanup)

\* Mutant: the call's own error outranks the cancellation.
AwaitedErrorFirst(w, ok, next, cleanup) ==
    \/ ~ok /\ Fail(w, "error", cleanup)
    \/ ok /\ cancelled[w] /\ Fail(w, "cancelled", cleanup)
    \/ ok /\ ~cancelled[w] /\ Proceed(w, next)

\* _await_shielded_operation without suppress_cancellation.
Awaited(w, ok, next, cleanup) ==
    \/ cancelled[w] /\ Fail(w, "cancelled", cleanup)
    \/ ~cancelled[w] /\ ok /\ Proceed(w, next)
    \/ ~cancelled[w] /\ ~ok /\ Fail(w, "error", cleanup)

-----------------------------------------------------------------------------
(* _stream_overwrite and _stream_exclusive.                                *)

\* resolve_caller_path, after the options are checked.
Start(w) ==
    /\ pc[w] = "start"
    /\ Proceed(w, "parent") \/ Finish(w, "error")
    /\ UNCHANGED <<target, temp, fds, parents, written, cancels, asked, replaced>>

\* Mutant: a descriptor that arrives after the cancellation is dropped.
OpenParentDropped(w, ok) ==
    /\ pc[w] = "parent"
    /\ parents' = IF ok THEN parents \cup {w} ELSE parents
    /\ IF ok /\ ~cancelled[w] THEN Proceed(w, "create")
       ELSE Return(w, IF cancelled[w] THEN "cancelled" ELSE "error")
    /\ UNCHANGED <<target, temp, fds, written, cancels, asked, replaced>>

\* _open_parent_descriptor under _await_open_descriptor, which closes a
\* descriptor that arrives after a cancellation.
OpenParent(w, ok) ==
    /\ pc[w] = "parent"
    /\ parents' = IF ok THEN parents \cup {w} ELSE parents
    /\ \/ ok /\ Awaited(w, ok, "create", "closeParent")
       \/ ~ok /\ Return(w, IF cancelled[w] THEN "cancelled" ELSE "error")
    /\ UNCHANGED <<target, temp, fds, written, cancels, asked, replaced>>

\* _temporary_file_for under _await_temporary_file, which undoes a creation
\* that succeeds after a cancellation, as the finally would.
CreateTemporary(w, ok) ==
    /\ pc[w] = "create" /\ w \in Overwriting
    /\ temp' = IF ok THEN temp \cup {w} ELSE temp
    /\ fds' = IF ok THEN fds \cup {w} ELSE fds
    /\ Awaited(w, ok, "chunk", IF ok THEN "closeFile" ELSE "closeParent")
    /\ UNCHANGED <<target, parents, written, cancels, asked, replaced>>

\* Mutant: the target is opened without O_EXCL.
CreateExclusiveAnyway(w, ok) ==
    /\ pc[w] = "create" /\ w \in Exclusive
    /\ target' = IF ok THEN w ELSE target
    /\ fds' = IF ok THEN fds \cup {w} ELSE fds
    /\ Awaited(w, ok, "chunk", IF ok THEN "closeFile" ELSE "closeParent")
    /\ UNCHANGED <<temp, parents, written, cancels, asked, replaced>>

\* Mutant: `created` is set before the creation is known to have succeeded.
CreateExclusiveClaimed(w, ok) ==
    /\ pc[w] = "create" /\ w \in Exclusive
    /\ ok => target = Nobody
    /\ target' = IF ok THEN w ELSE target
    /\ fds' = IF ok THEN fds \cup {w} ELSE fds
    /\ Awaited(w, ok, "chunk", IF ok THEN "closeFile" ELSE "unlink")
    /\ UNCHANGED <<temp, parents, written, cancels, asked, replaced>>

\* _exclusive_file_for under _await_exclusive_file: EEXIST if the target is
\* there.
CreateExclusive(w, ok) ==
    /\ pc[w] = "create" /\ w \in Exclusive
    /\ ok => target = Nobody
    /\ target' = IF ok THEN w ELSE target
    /\ fds' = IF ok THEN fds \cup {w} ELSE fds
    /\ Awaited(w, ok, "chunk", IF ok THEN "closeFile" ELSE "closeParent")
    /\ UNCHANGED <<temp, parents, written, cancels, asked, replaced>>

\* Mutant: the end of the body is noticed one chunk late.
NextChunkLate(w) ==
    /\ pc[w] = "chunk"
    /\ \/ written[w] <= Chunks /\ Proceed(w, "write")
       \/ written[w] >= Chunks /\ Proceed(w, "finalize")
       \/ Fail(w, "error", "finalize")
    /\ UNCHANGED <<target, temp, fds, parents, written, cancels, asked, replaced>>

\* _stream_descriptor gets another chunk, the end of the body, or a failure
\* of the iterator, which includes a chunk that is over the limit.
NextChunk(w) ==
    /\ pc[w] = "chunk"
    /\ \/ written[w] < Chunks /\ Proceed(w, "write")
       \/ written[w] = Chunks /\ Proceed(w, "finalize")
       \/ Fail(w, "error", "finalize")
    /\ UNCHANGED <<target, temp, fds, parents, written, cancels, asked, replaced>>

\* _write_all in a thread; a write that fails may leave less than a chunk.
Write(w, ok) ==
    /\ pc[w] = "write"
    /\ written' = [written EXCEPT ![w] = IF ok THEN @ + 1 ELSE @]
    /\ Awaited(w, ok, "chunk", "finalize")
    /\ UNCHANGED <<target, temp, fds, parents, cancels, asked, replaced>>

\* Mutant: closing the body hides the failure that ended it.
FinalizeForgetting(w, ok) ==
    /\ pc[w] = "finalize"
    /\ Awaited(w, ok, "fsync", "closeFile")
    /\ UNCHANGED <<target, temp, fds, parents, written, cancels, asked, replaced>>

\* _finalize_async_iterator; an earlier failure outranks its own.
Finalize(w, ok) ==
    /\ pc[w] = "finalize"
    /\ IF failure[w] = "none"
       THEN Awaited(w, ok, "fsync", "closeFile")
       ELSE Fail(w, failure[w], "closeFile")
    /\ UNCHANGED <<target, temp, fds, parents, written, cancels, asked, replaced>>

Fsync(w, ok) ==
    /\ pc[w] = "fsync"
    /\ Awaited(w, ok, "close", "closeFile")
    /\ UNCHANGED <<target, temp, fds, parents, written, cancels, asked, replaced>>

\* close() releases the descriptor even when it reports an error.
Close(w, ok) ==
    /\ pc[w] = "close"
    /\ fds' = fds \ {w}
    /\ Awaited(w, ok, IF w \in Overwriting THEN "yield" ELSE "closeParent",
               "unlink")
    /\ UNCHANGED <<target, temp, parents, written, cancels, asked, replaced>>

\* The sleep(0) of _atomic_replace_at is over: the replacement is dispatched.
Dispatch(w) ==
    /\ pc[w] = "yield"
    /\ Proceed(w, "replace")
    /\ UNCHANGED <<target, temp, fds, parents, written, cancels, asked, replaced>>

\* Mutant: the replacement is awaited like any other call.
ReplaceCancellable(w, ok) ==
    /\ pc[w] = "replace"
    /\ target' = IF ok THEN w ELSE target
    /\ replaced' = IF ok THEN replaced \cup {w} ELSE replaced
    /\ temp' = IF ok THEN temp \ {w} ELSE temp
    /\ Awaited(w, ok, "closeParent", "unlink")
    /\ UNCHANGED <<fds, parents, written, cancels, asked>>

\* os.replace, its cancellation suppressed.
Replace(w, ok) ==
    /\ pc[w] = "replace"
    /\ target' = IF ok THEN w ELSE target
    /\ replaced' = IF ok THEN replaced \cup {w} ELSE replaced
    /\ temp' = IF ok THEN temp \ {w} ELSE temp
    /\ \/ /\ ok
          /\ pc' = [pc EXCEPT ![w] = "closeParent"]
          /\ cancelled' = [cancelled EXCEPT ![w] = FALSE]
          /\ UNCHANGED <<failure, result>>
       \/ ~ok /\ Fail(w, "error", "unlink")
    /\ UNCHANGED <<fds, parents, written, cancels, asked>>

-----------------------------------------------------------------------------
(* The finally.  Its calls suppress cancellation, except that the last one *)
(* does so only once the outcome is settled.                               *)

CloseFile(w) ==
    /\ pc[w] = "closeFile"
    /\ fds' = fds \ {w}
    /\ Fail(w, failure[w], "unlink")
    /\ UNCHANGED <<target, temp, parents, written, cancels, asked, replaced>>

\* _unlink_at, by name and only if this writer created the file: the temporary
\* name, or the target's whatever file that names by now.
Unlink(w) ==
    /\ pc[w] = "unlink"
    /\ temp' = temp \ {w}
    /\ target' = IF w \in Exclusive THEN Nobody ELSE target
    /\ Fail(w, failure[w], "closeParent")
    /\ UNCHANGED <<fds, parents, written, cancels, asked, replaced>>

CloseParent(w) ==
    /\ pc[w] = "closeParent"
    /\ parents' = parents \ {w}
    /\ Return(w, IF failure[w] # "none" THEN failure[w]
                 ELSE IF cancelled[w] /\ w \in Exclusive THEN "cancelled"
                 ELSE "ok")
    /\ UNCHANGED <<target, temp, fds, written, cancels, asked, replaced>>

-----------------------------------------------------------------------------
\* classify_refusal.
Classify(w) ==
    /\ pc[w] = "classify"
    /\ Finish(w, failure[w])
    /\ UNCHANGED <<target, temp, fds, parents, written, cancels, asked, replaced>>

\* The replacement is dispatched, or done.
Committing(w) == w \in Overwriting /\ pc[w] \in {"replace", "closeParent"}

\* task.cancel(): raised at an unshielded await, kept by a shielded one.
Cancel(w) ==
    /\ pc[w] # "ended"
    /\ cancels[w] < MaxCancels
    /\ cancels' = [cancels EXCEPT ![w] = @ + 1]
    /\ asked' = IF failure[w] = "none" /\ ~Committing(w) THEN asked \cup {w}
                                                        ELSE asked
    /\ CASE pc[w] \in {"start", "classify"} -> Finish(w, "cancelled")
         [] pc[w] = "chunk" -> Fail(w, "cancelled", "finalize")
         [] pc[w] = "yield" -> Fail(w, "cancelled", "unlink")
         [] OTHER -> /\ cancelled' = [cancelled EXCEPT ![w] = TRUE]
                     /\ UNCHANGED <<pc, failure, result>>
    /\ UNCHANGED <<target, temp, fds, parents, written, replaced>>

Call(w, ok) == \/ OpenParent(w, ok)
               \/ CreateTemporary(w, ok)
               \/ CreateExclusive(w, ok)
               \/ Write(w, ok)
               \/ Finalize(w, ok)
               \/ Fsync(w, ok)
               \/ Close(w, ok)
               \/ Replace(w, ok)

Step(w) == \/ Start(w)
           \/ \E ok \in BOOLEAN : Call(w, ok)
           \/ NextChunk(w)
           \/ Dispatch(w)
           \/ CloseFile(w)
           \/ Unlink(w)
           \/ CloseParent(w)
           \/ Classify(w)

Next == \E w \in Writers : Step(w) \/ Cancel(w)

Spec == Init /\ [][Next]_vars

\* System calls return and the body's iterator has a timeout.
FairSpec == Spec /\ \A w \in Writers : WF_vars(Step(w))

-----------------------------------------------------------------------------
(* Properties.                                                             *)

Places == {"start", "parent", "create", "chunk", "write", "finalize", "fsync",
           "close", "yield", "replace", "closeFile", "unlink", "closeParent",
           "classify", "ended"}

\* The variables keep their types: no writer puts more than the body in its
\* file, and only an overwriting one has a temporary file or replaces.
TypeOK ==
    /\ target \in Writers \cup {Nobody, Before}
    /\ temp \subseteq Overwriting
    /\ fds \subseteq Writers
    /\ parents \subseteq Writers
    /\ pc \in [Writers -> Places]
    /\ written \in [Writers -> 0..Chunks]
    /\ failure \in [Writers -> {"none", "error", "cancelled"}]
    /\ cancelled \in [Writers -> BOOLEAN]
    /\ cancels \in [Writers -> 0..MaxCancels]
    /\ asked \subseteq Writers
    /\ replaced \subseteq Overwriting
    /\ result \in [Writers -> {"none", "ok", "error", "cancelled"}]

\* A reader of the target never sees an overwriting writer's file before the
\* whole body is in it and its descriptor is closed: _stream_overwrite
\* replaces last, whatever failed or was cancelled on the way.
NeverTorn ==
    target \in Overwriting => written[target] = Chunks /\ target \notin fds

\* The file that was there before is only ever replaced by a whole download:
\* an exclusive writer never truncates or removes it (O_EXCL, `created`), and
\* a failed overwriting writer removes only its temporary file.
ExistingKept ==
    [][target = Before /\ target' # Before => target' \in Overwriting]_vars

\* The caller of an overwriting download is told the truth: success exactly if
\* the target was replaced, however cancellations race the replacement
\* (_atomic_replace_at and the committed flag).
ResultHonest ==
    \A w \in Overwriting :
        pc[w] = "ended" => (result[w] = "ok" <=> w \in replaced)

\* A stream that is over leaves nothing behind: no descriptor, no temporary
\* file, and no partial exclusive file (the finally blocks and the
\* _await_open_descriptor family, also when the open outlives a cancellation).
NothingLeft ==
    \A w \in Writers : pc[w] = "ended" =>
        /\ w \notin fds \cup parents \cup temp
        /\ target = w => written[w] = Chunks

\* An exclusive download that has reported success stays in place until an
\* overwriting one replaces it: the cleanup of a failed exclusive writer, which
\* unlinks by name, never removes it.
SuccessStays ==
    \A w \in Exclusive : result[w] = "ok" => target \in Overwriting \cup {w}

\* "Cancellation propagates except after AC6.6's atomic-overwrite commit
\* point": a writer cancelled before that ends cancelled, whatever the call
\* it waited for came to and however often it is cancelled again.  The code
\* makes one more exception: a cancellation that arrives while a failed
\* stream cleans up is dropped for the failure.
CancellationNotLost ==
    \A w \in asked : pc[w] = "ended" => result[w] = "cancelled"

\* Every stream ends: no cancellation, failure or other writer leaves a task
\* waiting in _await_shielded_operation.
EveryStreamEnds == \A w \in Writers : <>(pc[w] = "ended")

\* What others see under the name: whole downloads, and those for good.
TargetInv == TypeOK /\ NeverTorn /\ SuccessStays

\* What the caller is told: the truth about the target, and of a cancellation.
OutcomeHonest == ResultHonest /\ CancellationNotLost
=============================================================================
