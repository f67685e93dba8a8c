---------------------------- MODULE OutputProofs ----------------------------
(***************************************************************************)
(* Proofs about what a call leaves to its caller: the file its body is     *)
(* streamed to (StreamToPath), for every set of writers, every length of   *)
(* the body and every number of cancellations, and the trace it records    *)
(* (TraceScopes), for every set of tasks and every number of calls,        *)
(* retries and redirects.                                                  *)
(***************************************************************************)
EXTENDS StreamToPath, TraceScopes, TLAPS

-----------------------------------------------------------------------------
(* The streamed file: the inductive invariant.                             *)

\* Where a file is being written, and where it is complete.
Filling == {"chunk", "write", "finalize", "fsync", "close", "closeFile"}
Complete == {"fsync", "close", "yield", "replace"}

\* What a task holds follows from the call it is waiting for.
HoldsInv(w) ==
    /\ w \in fds <=> pc[w] \in Filling
    /\ w \in parents <=> pc[w] \in Filling \cup {"create", "yield", "replace",
                                                 "unlink", "closeParent"}
    /\ w \in temp <=> /\ w \in Overwriting
                      /\ pc[w] \in Filling \cup {"yield", "replace", "unlink"}

\* The failure belongs to the finally; the body is whole once it was read to
\* its end; an unshielded await has no cancellation to remember.
ProgressInv(w) ==
    /\ pc[w] \in {"start", "parent", "create", "chunk", "write"} \cup Complete
         => failure[w] = "none"
    /\ pc[w] \in {"closeFile", "unlink"} => failure[w] # "none"
    /\ pc[w] = "classify" => failure[w] = "error"
    /\ pc[w] \in {"yield", "replace"} => w \in Overwriting
    /\ pc[w] = "write" => written[w] < Chunks
    /\ pc[w] \in Complete => written[w] = Chunks
    /\ pc[w] \in {"finalize", "closeParent"} /\ failure[w] = "none"
         => written[w] = Chunks
    /\ pc[w] \in {"start", "chunk", "yield", "classify", "ended"}
         => ~cancelled[w]
    /\ pc[w] # "ended" => result[w] = "none"

\* A cancellation that counts is retained by the call being awaited, or is what
\* the try block raises, or has been reported.
AskedInv(w) ==
    w \in asked => IF pc[w] = "ended" THEN result[w] = "cancelled"
                   ELSE \/ failure[w] = "cancelled"
                        \/ failure[w] = "none" /\ cancelled[w] /\ ~Committing(w)

\* The replacement is the last thing an overwriting writer does, with the whole
\* body in a closed file, and only after it is success reported.
ReplacedInv(w) ==
    w \in Overwriting =>
        /\ target = w => w \in replaced
        /\ w \in replaced => /\ pc[w] \in {"closeParent", "ended"}
                             /\ written[w] = Chunks
                             /\ pc[w] = "closeParent" => failure[w] = "none"
                             /\ pc[w] = "ended" => result[w] = "ok"
        /\ pc[w] = "closeParent" /\ failure[w] = "none" => w \in replaced
        /\ pc[w] = "ended" /\ result[w] = "ok" => w \in replaced

\* The exclusive writers that created the target and have not unlinked it.
Owner(w) == /\ w \in Exclusive
            /\ \/ pc[w] \in Filling \cup {"unlink"}
               \/ pc[w] = "closeParent" /\ failure[w] = "none"
               \/ result[w] = "ok"

\* The entry names an exclusive writer's file only while that writer owns it, or
\* once it is whole.
CreatedInv(w) ==
    /\ w \in Exclusive /\ target = w
         => \/ pc[w] \in Filling \cup {"unlink"}
            \/ pc[w] = "closeParent" /\ failure[w] = "none"
            \/ pc[w] = "ended" /\ written[w] = Chunks
    /\ Owner(w) => target \in Overwriting \cup {w}

WriterInv(w) == /\ HoldsInv(w) /\ ProgressInv(w) /\ AskedInv(w)
                /\ ReplacedInv(w) /\ CreatedInv(w)

\* At most one exclusive writer may unlink the target by name.
OneOwner == \A v, w \in Writers : Owner(v) /\ Owner(w) => v = w

Inv == TypeOK /\ OneOwner /\ \A w \in Writers : WriterInv(w)

-----------------------------------------------------------------------------
(* How a call ends.                                                        *)

USE DEF Filling, Complete, Places, Nobody, Before, Writers

\* What the end of a call assigns.
EndTypes ==
    /\ pc' \in [Writers -> Places]
    /\ failure' \in [Writers -> {"none", "error", "cancelled"}]
    /\ cancelled' \in [Writers -> BOOLEAN]
    /\ result' \in [Writers -> {"none", "ok", "error", "cancelled"}]

\* The try block goes on.
LEMMA ProceedTypes ==
    ASSUME TypeOK, NEW w \in Writers, NEW next \in Places, Proceed(w, next)
    PROVE  EndTypes
BY DEF TypeOK, Proceed, EndTypes

\* The try block raises.
LEMMA FailTypes ==
    ASSUME TypeOK, NEW w \in Writers, NEW next \in Places,
           NEW why \in {"none", "error", "cancelled"}, Fail(w, why, next)
    PROVE  EndTypes
BY DEF TypeOK, Fail, EndTypes

\* stream_to_path returns or raises.
LEMMA FinishTypes ==
    ASSUME TypeOK, NEW w \in Writers,
           NEW res \in {"none", "ok", "error", "cancelled"}, Finish(w, res)
    PROVE  EndTypes
BY DEF TypeOK, Finish, EndTypes

\* The writer returns, or an OSError is looked at again.
LEMMA ReturnTypes ==
    ASSUME TypeOK, NEW w \in Writers, NEW res \in {"ok", "error", "cancelled"},
           Return(w, res)
    PROVE  EndTypes
BY FinishTypes, FailTypes DEF Return

\* _await_shielded_operation returns or raises.
LEMMA AwaitedTypes ==
    ASSUME TypeOK, NEW w \in Writers, NEW ok \in BOOLEAN, NEW next \in Places,
           NEW cleanup \in Places, Awaited(w, ok, next, cleanup)
    PROVE  EndTypes
BY ProceedTypes, FailTypes DEF Awaited

-----------------------------------------------------------------------------
(* Every step keeps what is known of the writer that takes it, and of the  *)
(* others.                                                                 *)

USE DEF WriterInv, HoldsInv, ProgressInv, AskedInv, ReplacedInv, CreatedInv,
        Owner, OneOwner, Committing

\* Nobody has begun.
LEMMA InitInv == Init => Inv
<1> SUFFICES ASSUME Init PROVE Inv
    OBVIOUS
<1>1. TypeOK
    BY ChunksAssumption, MaxCancelsAssumption DEF Init, TypeOK
<1>2. OneOwner
    BY DEF Init
<1>3. ASSUME NEW w \in Writers PROVE WriterInv(w)
    BY NamesAssumption DEF Init
<1>4. QED
    BY <1>1, <1>2, <1>3 DEF Inv

\* The path is resolved, or refused.
LEMMA StartInv ==
    ASSUME Inv, NEW w \in Writers, Start(w)
    PROVE  Inv'
<1>1. TypeOK'
    <2>1. EndTypes
        BY ProceedTypes, FinishTypes DEF Start, Inv
    <2>2. QED
        BY <2>1 DEF Start, EndTypes, Inv, TypeOK
<1>2. WriterInv(w)'
    BY DEF Start, Proceed, Finish, Inv, TypeOK
<1>3. ASSUME NEW v \in Writers \ {w} PROVE WriterInv(v)'
    BY DEF Start, Proceed, Finish, Inv, TypeOK
<1>4. OneOwner'
    BY DEF Start, Proceed, Finish, Inv, TypeOK
<1>5. QED
    BY <1>1, <1>2, <1>3, <1>4 DEF Inv

\* The parent directory is opened, or not.
LEMMA OpenParentInv ==
    ASSUME Inv, NEW w \in Writers, NEW ok \in BOOLEAN, OpenParent(w, ok)
    PROVE  Inv'
<1>1. TypeOK'
    <2>1. EndTypes
        BY AwaitedTypes, ReturnTypes DEF OpenParent, Inv
    <2>2. QED
        BY <2>1 DEF OpenParent, EndTypes, Inv, TypeOK
<1>2. HoldsInv(w)' /\ ProgressInv(w)'
    BY DEF OpenParent, Return, Finish, Awaited, Proceed, Fail, Inv, TypeOK
<1>3. AskedInv(w)' /\ ReplacedInv(w)'
    BY DEF OpenParent, Return, Finish, Awaited, Proceed, Fail, Inv, TypeOK
<1>4. CreatedInv(w)'
    BY DEF OpenParent, Return, Finish, Awaited, Proceed, Fail, Inv, TypeOK
<1>5. ASSUME NEW v \in Writers \ {w} PROVE WriterInv(v)'
    BY DEF OpenParent, Return, Finish, Awaited, Proceed, Fail, Inv, TypeOK
<1>6. OneOwner'
    BY DEF OpenParent, Return, Finish, Awaited, Proceed, Fail, Inv, TypeOK
<1>7. QED
    BY <1>1, <1>2, <1>3, <1>4, <1>5, <1>6 DEF Inv

\* An overwriting writer makes its temporary file.
LEMMA CreateTemporaryInv ==
    ASSUME Inv, NEW w \in Writers, NEW ok \in BOOLEAN, CreateTemporary(w, ok)
    PROVE  Inv'
<1>1. TypeOK'
    <2>1. EndTypes
        BY AwaitedTypes DEF CreateTemporary, Inv
    <2>2. QED
        BY <2>1, WritersAssumption DEF CreateTemporary, EndTypes, Inv, TypeOK
<1>2. HoldsInv(w)' /\ ProgressInv(w)'
    BY WritersAssumption
       DEF CreateTemporary, Awaited, Proceed, Fail, Inv, TypeOK
<1>3. AskedInv(w)' /\ ReplacedInv(w)'
    BY WritersAssumption
       DEF CreateTemporary, Awaited, Proceed, Fail, Inv, TypeOK
<1>4. CreatedInv(w)'
    BY WritersAssumption
       DEF CreateTemporary, Awaited, Proceed, Fail, Inv, TypeOK
<1>5. ASSUME NEW v \in Writers \ {w} PROVE WriterInv(v)'
    BY WritersAssumption
       DEF CreateTemporary, Awaited, Proceed, Fail, Inv, TypeOK
<1>6. OneOwner'
    BY WritersAssumption
       DEF CreateTemporary, Awaited, Proceed, Fail, Inv, TypeOK
<1>7. QED
    BY <1>1, <1>2, <1>3, <1>4, <1>5, <1>6 DEF Inv

\* An exclusive writer makes the target, which nobody owns then.
LEMMA CreateExclusiveInv ==
    ASSUME Inv, NEW w \in Writers, NEW ok \in BOOLEAN, CreateExclusive(w, ok)
    PROVE  Inv'
<1>1. TypeOK'
    <2>1. EndTypes
        BY AwaitedTypes DEF CreateExclusive, Inv
    <2>2. QED
        BY <2>1, WritersAssumption, NamesAssumption
           DEF CreateExclusive, EndTypes, Inv, TypeOK
<1>2. HoldsInv(w)' /\ ProgressInv(w)'
    BY WritersAssumption, NamesAssumption
       DEF CreateExclusive, Awaited, Proceed, Fail, Inv, TypeOK
<1>3. AskedInv(w)' /\ ReplacedInv(w)'
    BY WritersAssumption, NamesAssumption
       DEF CreateExclusive, Awaited, Proceed, Fail, Inv, TypeOK
<1>4. CreatedInv(w)'
    BY WritersAssumption, NamesAssumption
       DEF CreateExclusive, Awaited, Proceed, Fail, Inv, TypeOK
<1>5. ASSUME NEW v \in Writers \ {w} PROVE WriterInv(v)'
    BY WritersAssumption, NamesAssumption
       DEF CreateExclusive, Awaited, Proceed, Fail, Inv, TypeOK
<1>6. OneOwner'
    BY WritersAssumption, NamesAssumption
       DEF CreateExclusive, Awaited, Proceed, Fail, Inv, TypeOK
<1>7. QED
    BY <1>1, <1>2, <1>3, <1>4, <1>5, <1>6 DEF Inv

\* Another chunk, the end of the body, or a failure of the iterator.
LEMMA NextChunkInv ==
    ASSUME Inv, NEW w \in Writers, NextChunk(w)
    PROVE  Inv'
<1>1. TypeOK'
    <2>1. EndTypes
        BY ProceedTypes, FailTypes DEF NextChunk, Inv
    <2>2. QED
        BY <2>1 DEF NextChunk, EndTypes, Inv, TypeOK
<1>2. WriterInv(w)'
    BY DEF NextChunk, Proceed, Fail, Inv, TypeOK
<1>3. ASSUME NEW v \in Writers \ {w} PROVE WriterInv(v)'
    BY DEF NextChunk, Proceed, Fail, Inv, TypeOK
<1>4. OneOwner'
    BY DEF NextChunk, Proceed, Fail, Inv, TypeOK
<1>5. QED
    BY <1>1, <1>2, <1>3, <1>4 DEF Inv

\* A chunk is written.
LEMMA WriteInv ==
    ASSUME Inv, NEW w \in Writers, NEW ok \in BOOLEAN, Write(w, ok)
    PROVE  Inv'
<1>1. TypeOK'
    <2>1. EndTypes
        BY AwaitedTypes DEF Write, Inv
    <2>2. QED
        BY <2>1, ChunksAssumption DEF Write, EndTypes, Inv, TypeOK
<1>2. HoldsInv(w)' /\ ProgressInv(w)'
    BY ChunksAssumption DEF Write, Awaited, Proceed, Fail, Inv, TypeOK
<1>3. AskedInv(w)' /\ ReplacedInv(w)'
    BY ChunksAssumption DEF Write, Awaited, Proceed, Fail, Inv, TypeOK
<1>4. CreatedInv(w)'
    BY ChunksAssumption DEF Write, Awaited, Proceed, Fail, Inv, TypeOK
<1>5. ASSUME NEW v \in Writers \ {w} PROVE WriterInv(v)'
    BY ChunksAssumption DEF Write, Awaited, Proceed, Fail, Inv, TypeOK
<1>6. OneOwner'
    BY ChunksAssumption DEF Write, Awaited, Proceed, Fail, Inv, TypeOK
<1>7. QED
    BY <1>1, <1>2, <1>3, <1>4, <1>5, <1>6 DEF Inv

\* The iterator is closed.
LEMMA FinalizeInv ==
    ASSUME Inv, NEW w \in Writers, NEW ok \in BOOLEAN, Finalize(w, ok)
    PROVE  Inv'
<1>1. TypeOK'
    <2>1. CASE failure[w] = "none"
        BY <2>1, AwaitedTypes DEF Finalize, EndTypes, Inv, TypeOK
    <2>2. CASE failure[w] # "none"
        <3>1. failure[w] \in {"error", "cancelled"}
            BY <2>2 DEF Inv, TypeOK
        <3>2. EndTypes
            BY <2>2, <3>1, FailTypes DEF Finalize, Inv
        <3>3. QED
            BY <3>2 DEF Finalize, EndTypes, Inv, TypeOK
    <2>3. QED
        BY <2>1, <2>2
<1>2. HoldsInv(w)' /\ ProgressInv(w)'
    BY DEF Finalize, Awaited, Proceed, Fail, Inv, TypeOK
<1>3. AskedInv(w)' /\ ReplacedInv(w)'
    BY DEF Finalize, Awaited, Proceed, Fail, Inv, TypeOK
<1>4. CreatedInv(w)'
    BY DEF Finalize, Awaited, Proceed, Fail, Inv, TypeOK
<1>5. ASSUME NEW v \in Writers \ {w} PROVE WriterInv(v)'
    BY DEF Finalize, Awaited, Proceed, Fail, Inv, TypeOK
<1>6. OneOwner'
    BY DEF Finalize, Awaited, Proceed, Fail, Inv, TypeOK
<1>7. QED
    BY <1>1, <1>2, <1>3, <1>4, <1>5, <1>6 DEF Inv

\* The file is on disk.
LEMMA FsyncInv ==
    ASSUME Inv, NEW w \in Writers, NEW ok \in BOOLEAN, Fsync(w, ok)
    PROVE  Inv'
<1>1. TypeOK'
    <2>1. EndTypes
        BY AwaitedTypes DEF Fsync, Inv
    <2>2. QED
        BY <2>1 DEF Fsync, EndTypes, Inv, TypeOK
<1>2. WriterInv(w)'
    BY DEF Fsync, Awaited, Proceed, Fail, Inv, TypeOK
<1>3. ASSUME NEW v \in Writers \ {w} PROVE WriterInv(v)'
    BY DEF Fsync, Awaited, Proceed, Fail, Inv, TypeOK
<1>4. OneOwner'
    BY DEF Fsync, Awaited, Proceed, Fail, Inv, TypeOK
<1>5. QED
    BY <1>1, <1>2, <1>3, <1>4 DEF Inv

\* The file is closed: an exclusive writer is done with it.
LEMMA CloseInv ==
    ASSUME Inv, NEW w \in Writers, NEW ok \in BOOLEAN, Close(w, ok)
    PROVE  Inv'
<1>1. TypeOK'
    <2>1. EndTypes
        BY AwaitedTypes DEF Close, Inv
    <2>2. QED
        BY <2>1, WritersAssumption DEF Close, EndTypes, Inv, TypeOK
<1>2. HoldsInv(w)' /\ ProgressInv(w)'
    BY WritersAssumption DEF Close, Awaited, Proceed, Fail, Inv, TypeOK
<1>3. AskedInv(w)' /\ ReplacedInv(w)'
    BY WritersAssumption DEF Close, Awaited, Proceed, Fail, Inv, TypeOK
<1>4. CreatedInv(w)'
    BY WritersAssumption DEF Close, Awaited, Proceed, Fail, Inv, TypeOK
<1>5. ASSUME NEW v \in Writers \ {w} PROVE WriterInv(v)'
    BY WritersAssumption DEF Close, Awaited, Proceed, Fail, Inv, TypeOK
<1>6. OneOwner'
    BY WritersAssumption DEF Close, Awaited, Proceed, Fail, Inv, TypeOK
<1>7. QED
    BY <1>1, <1>2, <1>3, <1>4, <1>5, <1>6 DEF Inv

\* The replacement is handed to a thread.
LEMMA DispatchInv ==
    ASSUME Inv, NEW w \in Writers, Dispatch(w)
    PROVE  Inv'
<1>1. TypeOK'
    <2>1. EndTypes
        BY ProceedTypes DEF Dispatch, Inv
    <2>2. QED
        BY <2>1 DEF Dispatch, EndTypes, Inv, TypeOK
<1>2. WriterInv(w)'
    BY DEF Dispatch, Proceed, Inv, TypeOK
<1>3. ASSUME NEW v \in Writers \ {w} PROVE WriterInv(v)'
    BY DEF Dispatch, Proceed, Inv, TypeOK
<1>4. OneOwner'
    BY DEF Dispatch, Proceed, Inv, TypeOK
<1>5. QED
    BY <1>1, <1>2, <1>3, <1>4 DEF Inv

\* The target is replaced, or the replacement fails.
LEMMA ReplaceInv ==
    ASSUME Inv, NEW w \in Writers, NEW ok \in BOOLEAN, Replace(w, ok)
    PROVE  Inv'
<1>1. TypeOK'
    <2>1. w \in Overwriting
        BY DEF Replace, Inv
    <2>2. EndTypes
        <3>1. CASE ok
            <4>1. /\ pc' = [pc EXCEPT ![w] = "closeParent"]
                  /\ cancelled' = [cancelled EXCEPT ![w] = FALSE]
                  /\ UNCHANGED <<failure, result>>
                BY <3>1 DEF Replace
            <4>2. QED
                BY <4>1 DEF EndTypes, Inv, TypeOK
        <3>2. CASE ~ok
            BY <3>2, FailTypes DEF Replace, Inv
        <3>3. QED
            BY <3>1, <3>2
    <2>3. QED
        BY <2>1, <2>2 DEF Replace, EndTypes, Inv, TypeOK
<1>2. HoldsInv(w)' /\ ProgressInv(w)'
    BY WritersAssumption, NamesAssumption DEF Replace, Fail, Inv, TypeOK
<1>3. AskedInv(w)' /\ ReplacedInv(w)'
    BY WritersAssumption, NamesAssumption DEF Replace, Fail, Inv, TypeOK
<1>4. CreatedInv(w)'
    BY WritersAssumption, NamesAssumption DEF Replace, Fail, Inv, TypeOK
<1>5. ASSUME NEW v \in Writers \ {w} PROVE WriterInv(v)'
    BY WritersAssumption, NamesAssumption DEF Replace, Fail, Inv, TypeOK
<1>6. OneOwner'
    BY WritersAssumption, NamesAssumption DEF Replace, Fail, Inv, TypeOK
<1>7. QED
    BY <1>1, <1>2, <1>3, <1>4, <1>5, <1>6 DEF Inv

\* The finally closes the file of a failed stream.
LEMMA CloseFileInv ==
    ASSUME Inv, NEW w \in Writers, CloseFile(w)
    PROVE  Inv'
<1>1. TypeOK'
    <2>1. EndTypes
        BY FailTypes DEF CloseFile, Inv, TypeOK
    <2>2. QED
        BY <2>1 DEF CloseFile, EndTypes, Inv, TypeOK
<1>2. HoldsInv(w)' /\ ProgressInv(w)'
    BY DEF CloseFile, Fail, Inv, TypeOK
<1>3. AskedInv(w)' /\ ReplacedInv(w)'
    BY DEF CloseFile, Fail, Inv, TypeOK
<1>4. CreatedInv(w)'
    BY DEF CloseFile, Fail, Inv, TypeOK
<1>5. ASSUME NEW v \in Writers \ {w} PROVE WriterInv(v)'
    BY DEF CloseFile, Fail, Inv, TypeOK
<1>6. OneOwner'
    BY DEF CloseFile, Fail, Inv, TypeOK
<1>7. QED
    BY <1>1, <1>2, <1>3, <1>4, <1>5, <1>6 DEF Inv

\* The finally removes what a failed stream created.
LEMMA UnlinkInv ==
    ASSUME Inv, NEW w \in Writers, Unlink(w)
    PROVE  Inv'
<1>1. TypeOK'
    <2>1. EndTypes
        BY FailTypes DEF Unlink, Inv, TypeOK
    <2>2. QED
        BY <2>1, WritersAssumption, NamesAssumption
           DEF Unlink, EndTypes, Inv, TypeOK
<1>2. HoldsInv(w)' /\ ProgressInv(w)'
    BY WritersAssumption, NamesAssumption DEF Unlink, Fail, Inv, TypeOK
<1>3. AskedInv(w)' /\ ReplacedInv(w)'
    BY WritersAssumption, NamesAssumption DEF Unlink, Fail, Inv, TypeOK
<1>4. CreatedInv(w)'
    BY WritersAssumption, NamesAssumption DEF Unlink, Fail, Inv, TypeOK
<1>5. ASSUME NEW v \in Writers \ {w} PROVE WriterInv(v)'
    BY WritersAssumption, NamesAssumption DEF Unlink, Fail, Inv, TypeOK
<1>6. OneOwner'
    BY WritersAssumption, NamesAssumption DEF Unlink, Fail, Inv, TypeOK
<1>7. QED
    BY <1>1, <1>2, <1>3, <1>4, <1>5, <1>6 DEF Inv

\* The finally closes the parent directory and settles the result.
LEMMA CloseParentInv ==
    ASSUME Inv, NEW w \in Writers, CloseParent(w)
    PROVE  Inv'
<1>1. TypeOK'
    <2>1. EndTypes
        BY ReturnTypes DEF CloseParent, Inv, TypeOK
    <2>2. QED
        BY <2>1, WritersAssumption DEF CloseParent, EndTypes, Inv, TypeOK
<1>2. HoldsInv(w)' /\ ProgressInv(w)'
    BY WritersAssumption DEF CloseParent, Return, Finish, Fail, Inv, TypeOK
<1>3. AskedInv(w)' /\ ReplacedInv(w)'
    BY WritersAssumption DEF CloseParent, Return, Finish, Fail, Inv, TypeOK
<1>4. CreatedInv(w)'
    <2>1. CASE failure[w] = "none"
        <3>1. pc'[w] = "ended" /\ result'[w] \in {"ok", "cancelled"}
            BY <2>1 DEF CloseParent, Return, Finish, Fail, Inv, TypeOK
        <3>2. QED
            BY <2>1, <3>1 DEF CloseParent, Inv, TypeOK
    <2>2. CASE failure[w] # "none"
        <3>1. pc'[w] \in {"ended", "classify"} /\ result'[w] # "ok"
            BY <2>2 DEF CloseParent, Return, Finish, Fail, Inv, TypeOK
        <3>2. target # w \/ w \notin Exclusive
            BY <2>2 DEF CloseParent, Inv
        <3>3. QED
            BY <2>2, <3>1, <3>2, WritersAssumption DEF CloseParent, Inv, TypeOK
    <2>3. QED
        BY <2>1, <2>2
<1>5. ASSUME NEW v \in Writers \ {w} PROVE WriterInv(v)'
    BY WritersAssumption DEF CloseParent, Return, Finish, Fail, Inv, TypeOK
<1>6. OneOwner'
    BY WritersAssumption DEF CloseParent, Return, Finish, Fail, Inv, TypeOK
<1>7. QED
    BY <1>1, <1>2, <1>3, <1>4, <1>5, <1>6 DEF Inv

\* The refusal of an OSError is worded.
LEMMA ClassifyInv ==
    ASSUME Inv, NEW w \in Writers, Classify(w)
    PROVE  Inv'
<1>1. TypeOK'
    <2>1. EndTypes
        BY FinishTypes DEF Classify, Inv, TypeOK
    <2>2. QED
        BY <2>1 DEF Classify, EndTypes, Inv, TypeOK
<1>2. WriterInv(w)'
    BY DEF Classify, Finish, Inv, TypeOK
<1>3. ASSUME NEW v \in Writers \ {w} PROVE WriterInv(v)'
    BY DEF Classify, Finish, Inv, TypeOK
<1>4. OneOwner'
    BY DEF Classify, Finish, Inv, TypeOK
<1>5. QED
    BY <1>1, <1>2, <1>3, <1>4 DEF Inv

\* What a cancellation does to the task: it ends it, makes it raise, or is kept.
LEMMA CancelEffect ==
    ASSUME Inv, NEW w \in Writers, Cancel(w)
    PROVE  \/ pc[w] \in {"start", "classify"} /\ Finish(w, "cancelled")
           \/ pc[w] = "chunk" /\ Fail(w, "cancelled", "finalize")
           \/ pc[w] = "yield" /\ Fail(w, "cancelled", "unlink")
           \/ /\ pc[w] \notin {"start", "classify", "chunk", "yield", "ended"}
              /\ cancelled' = [cancelled EXCEPT ![w] = TRUE]
              /\ UNCHANGED <<pc, failure, result>>
BY DEF Cancel

\* A cancellation keeps Inv, wherever the task waits.
LEMMA CancelInv ==
    ASSUME Inv, NEW w \in Writers, Cancel(w)
    PROVE  Inv'
<1>1. TypeOK'
    <2>1. ASSUME cancelled' = [cancelled EXCEPT ![w] = TRUE],
                 UNCHANGED <<pc, failure, result>>
          PROVE  EndTypes
        BY <2>1 DEF EndTypes, Inv, TypeOK
    <2>2. EndTypes
        BY <2>1, CancelEffect, FinishTypes, FailTypes DEF Inv
    <2>3. cancels' \in [Writers -> 0..MaxCancels]
        BY MaxCancelsAssumption DEF Cancel, Inv, TypeOK
    <2>4. QED
        BY <2>2, <2>3 DEF Cancel, EndTypes, Inv, TypeOK
<1>2. /\ UNCHANGED <<target, temp, fds, parents, written, replaced>>
      /\ asked' = IF failure[w] = "none" /\ ~Committing(w) THEN asked \cup {w}
                                                          ELSE asked
    BY DEF Cancel
<1>3. HoldsInv(w)' /\ ProgressInv(w)'
    BY <1>2, CancelEffect DEF Finish, Fail, Inv, TypeOK
<1>4. AskedInv(w)' /\ ReplacedInv(w)'
    BY <1>2, CancelEffect DEF Finish, Fail, Inv, TypeOK
<1>5. CreatedInv(w)'
    BY <1>2, CancelEffect, WritersAssumption DEF Finish, Fail, Inv, TypeOK
<1>6. ASSUME NEW v \in Writers \ {w} PROVE WriterInv(v)'
    BY <1>2, CancelEffect DEF Finish, Fail, Inv, TypeOK
<1>7. OneOwner'
    BY <1>2, CancelEffect, WritersAssumption DEF Finish, Fail, Inv, TypeOK
<1>8. QED
    BY <1>1, <1>3, <1>4, <1>5, <1>6, <1>7 DEF Inv

\* Inv is inductive.
LEMMA NextInv == Inv /\ [Next]_vars => Inv'
<1> SUFFICES ASSUME Inv, [Next]_vars PROVE Inv'
    OBVIOUS
<1>1. ASSUME NEW w \in Writers, NEW ok \in BOOLEAN, Call(w, ok) PROVE Inv'
    BY <1>1, OpenParentInv, CreateTemporaryInv, CreateExclusiveInv, WriteInv,
       FinalizeInv, FsyncInv, CloseInv, ReplaceInv DEF Call
<1>2. ASSUME NEW w \in Writers, Step(w) PROVE Inv'
    BY <1>1, <1>2, StartInv, NextChunkInv, DispatchInv, CloseFileInv,
       UnlinkInv,
       CloseParentInv, ClassifyInv DEF Step
<1>3. CASE UNCHANGED vars
    <2>1. TypeOK' /\ OneOwner'
        BY <1>3 DEF vars, Inv, TypeOK
    <2>2. ASSUME NEW w \in Writers PROVE WriterInv(w)'
        BY <1>3 DEF vars, Inv
    <2>3. QED
        BY <2>1, <2>2 DEF Inv
<1>4. QED
    BY <1>2, <1>3, CancelInv DEF Next

-----------------------------------------------------------------------------
(* The theorems.                                                           *)

HIDE DEF OneOwner

\* The strengthened invariant holds in every reachable state.
THEOREM Invariance == Spec => []Inv
BY InitInv, NextInv, PTL DEF Spec

\* Under the target's name a reader finds only whole overwriting downloads, and
\* an exclusive download that was reported as done is not removed by the
\* cleanup of another.
THEOREM SpecTarget == Spec => []TargetInv
<1>1. Inv => TargetInv
    <2> SUFFICES ASSUME Inv PROVE TargetInv
        OBVIOUS
    <2>1. NeverTorn
        BY DEF Inv, TypeOK, NeverTorn
    <2>2. SuccessStays
        BY DEF Inv, TypeOK, SuccessStays
    <2>3. QED
        BY <2>1, <2>2 DEF Inv, TargetInv
<1>2. QED
    BY <1>1, Invariance, PTL

\* Success is reported exactly for a replaced target, and a cancellation before
\* the commit point is what the caller sees.
THEOREM SpecOutcome == Spec => []OutcomeHonest
<1>1. Inv => OutcomeHonest
    BY DEF Inv, TypeOK, OutcomeHonest, ResultHonest, CancellationNotLost
<1>2. QED
    BY <1>1, Invariance, PTL

\* A stream that is over holds no descriptor, no temporary file and no partial
\* exclusive file.
THEOREM SpecNothingLeft == Spec => []NothingLeft
<1>1. Inv => NothingLeft
    BY DEF Inv, TypeOK, NothingLeft
<1>2. QED
    BY <1>1, Invariance, PTL

\* No step takes the file that was there away, except by putting a whole
\* download in its place: what an exclusive writer unlinks by name is never it.
THEOREM SpecExistingKept == Spec => ExistingKept
<1> DEFINE Kept == target = Before /\ target' # Before
                      => target' \in Overwriting
<1>1. Inv /\ [Next]_vars => [Kept]_vars
    <2> SUFFICES ASSUME Inv, Next, target = Before, target' # Before
                 PROVE  target' \in Overwriting
        BY DEF vars
    <2>1. PICK w \in Writers : Step(w) \/ Cancel(w)
        BY DEF Next
    <2>2. CASE pc[w] = "unlink" /\ Unlink(w)
        <3>1. w \in Exclusive => target \in Overwriting \cup {w}
            BY <2>2 DEF Inv
        <3>2. QED
            BY <2>2, <3>1, NamesAssumption DEF Unlink
    <2>3. ASSUME NEW ok \in BOOLEAN, Replace(w, ok)
          PROVE  target' \in Overwriting
        BY <2>3 DEF Replace, Inv
    <2>4. ASSUME NEW ok \in BOOLEAN, CreateExclusive(w, ok) PROVE FALSE
        BY <2>4 DEF CreateExclusive
    <2>5. QED
        BY <2>1, <2>2, <2>3, <2>4
           DEF Step, Call, Start, OpenParent, CreateTemporary, NextChunk,
               Write,
               Finalize, Fsync, Close, Dispatch, CloseFile, Unlink,
               CloseParent, Classify, Cancel
<1>2. QED
    BY <1>1, Invariance, PTL DEF Spec, ExistingKept

-----------------------------------------------------------------------------
(* The tracer: the inductive invariant.                                    *)

\* The task is inside handle_request.
InCall(t) == stage[t] \in {"between", "inflight", "backoff"}

\* A task in a call works on the mapping the call bound, to which nobody but
\* the call has written; the caller's own request has marked the mapping it
\* writes to.
PlaceInv(t) ==
    /\ t \notin alive => stage[t] = "idle"
    /\ InCall(t) => /\ scope[t] \in 1 .. used
                    /\ context[t] = scope[t]
                    /\ scope[t] \notin finished
                    /\ writers[scope[t]] \subseteq {scope[t]}
                    /\ attempt[t] \in 1 .. AllowedRetries + 1
    /\ ~InCall(t) => issued[t] = 0 /\ event[t] = 0 /\ hop[t] = 0
    /\ stage[t] = "inflight" => tracing[t] = scope[t]
    /\ stage[t] = "direct" => /\ tracing[t] \in 1 .. used
                              /\ None \in writers[tracing[t]]
    /\ stage[t] = "backoff" => hop[t] = 0 /\ event[t] = 0

\* Every attempt issues at most one request more than it may follow redirects.
BudgetInv(t) ==
    InCall(t) =>
        issued[t] <= (attempt[t] - 1) * (MaxRedirects + 1) + hop[t]
                     + (IF stage[t] = "inflight" THEN 1 ELSE 0)

\* The mapping of a call in progress is up to date, but for the redirect that
\* waits for the end of the attempt.
StoryInv(t) ==
    InCall(t) =>
        /\ results[scope[t]].start = issued[t]
        /\ truth[scope[t]].last = issued[t]
        /\ results[scope[t]].exception = truth[scope[t]].raised
        /\ stage[t] = "inflight" => issued[t] > 0
        /\ event[t] = 0 => /\ hop[t] = 0
                           /\ truth[scope[t]].redirected
                                = results[scope[t]].redirect
                           /\ truth[scope[t]].followed
                                = results[scope[t]].isRedirect
        /\ event[t] # 0 => /\ hop[t] > 0
                           /\ truth[scope[t]].redirected = event[t]
                           /\ truth[scope[t]].followed = TRUE

TaskInv(t) == PlaceInv(t) /\ BudgetInv(t) /\ StoryInv(t)

\* No other task has the mapping of a call in progress.
Apart == \A t, u \in Tasks :
    InCall(t) /\ t # u => context[u] # scope[t] /\ tracing[u] # scope[t]

\* A mapping not bound yet is empty.
UnboundInv == \A s \in Scopes :
    s > used => results[s] = Empty /\ truth[s] = Untold /\ writers[s] = {}

TraceIInv == /\ TraceTypeOK
             /\ OwnEventsOnly
             /\ TraceComplete
             /\ Apart
             /\ UnboundInv
             /\ \A t \in Tasks : TaskInv(t)

Mapping == [start : Requests, exception : Requests, redirect : Requests,
            isRedirect : BOOLEAN]
Truth == [last : Requests, raised : Requests, redirected : Requests,
          followed : BOOLEAN]

-----------------------------------------------------------------------------
(* The tracer: lemmas.                                                     *)

\* The requests of a call: one more for the attempt, and the next attempt.
LEMMA RequestBudget ==
    ASSUME NEW a \in 1 .. AllowedRetries + 1, NEW h \in 0 .. MaxRedirects,
           NEW n \in Nat
    PROVE  /\ n <= (a - 1) * (MaxRedirects + 1) + h
                => n + 1 \in Requests /\ n + 1 > 0
           /\ n <= (a - 1) * (MaxRedirects + 1) + h + 1
                => n <= ((a + 1) - 1) * (MaxRedirects + 1)
<1> DEFINE k == MaxRedirects + 1
<1>1. k \in Nat /\ k > 0 /\ h + 1 <= k
  BY BoundsAssumption
<1>2. a \in Int /\ a >= 1 /\ AllowedRetries + 1 \in Int
      /\ a <= AllowedRetries + 1
  BY BoundsAssumption
<1> HIDE DEF k
<1>3. (a - 1) * k = a * k - k /\ ((a + 1) - 1) * k = a * k /\ a * k \in Int
  BY <1>1, <1>2
<1>4. a * k <= (AllowedRetries + 1) * k /\ (AllowedRetries + 1) * k \in Int
  BY <1>1, <1>2
<1>5. /\ n <= (a - 1) * k + h => n + 1 <= (AllowedRetries + 1) * k
      /\ n <= (a - 1) * k + h + 1 => n <= ((a + 1) - 1) * k
  BY <1>1, <1>3, <1>4
<1> QED
  BY <1>4, <1>5 DEF k, Requests

\* The first numbers of requests.
LEMMA FirstRequests ==
    0 \in Requests /\ 1 \in Requests /\ Requests \subseteq Nat
<1>1. 1 \in 1 .. AllowedRetries + 1 /\ 0 \in 0 .. MaxRedirects
  BY BoundsAssumption
<1>2. 0 <= (1 - 1) * (MaxRedirects + 1) + 0
  BY BoundsAssumption
<1>3. 0 + 1 \in Requests
  BY <1>1, <1>2, RequestBudget
<1>4. (AllowedRetries + 1) * (MaxRedirects + 1) \in Int
  BY BoundsAssumption
<1> QED
  BY <1>3, <1>4 DEF Requests

\* What a step leaves of a task that takes no part in it.
Kept(u) ==
    /\ stage'[u] = stage[u] /\ scope'[u] = scope[u]
    /\ context'[u] = context[u] /\ tracing'[u] = tracing[u]
    /\ event'[u] = event[u] /\ hop'[u] = hop[u]
    /\ attempt'[u] = attempt[u] /\ issued'[u] = issued[u]

\* A task that takes no part in a step, and whose mapping does not either.
LEMMA OtherTask ==
    ASSUME TraceIInv, NEW u \in Tasks, Kept(u),
           used' \in Nat, used <= used', used' <= MaxScopes,
           u \in alive => u \in alive',
           \A s \in Scopes : writers[s] \subseteq writers'[s],
           InCall(u) => /\ results'[scope[u]] = results[scope[u]]
                        /\ truth'[scope[u]] = truth[scope[u]]
                        /\ writers'[scope[u]] = writers[scope[u]]
                        /\ scope[u] \notin finished'
    PROVE  TaskInv(u)'
<1>1. TaskInv(u) /\ used \in Nat
  BY BoundsAssumption DEF TraceIInv, TraceTypeOK
<1>2. InCall(u)' <=> InCall(u)
  BY DEF Kept, InCall
<1>3. PlaceInv(u)'
  BY <1>1, <1>2, BoundsAssumption DEF TaskInv, PlaceInv, Kept, Scopes
<1>4. BudgetInv(u)'
  BY <1>1, <1>2 DEF TaskInv, BudgetInv, Kept
<1>5. StoryInv(u)'
  BY <1>1, <1>2 DEF TaskInv, StoryInv, Kept
<1> QED
  BY <1>3, <1>4, <1>5 DEF TaskInv

\* The mapping of a call that has ended: it is told already, or marked as
\* the caller's.
LEMMA FinishedMapping ==
    ASSUME TraceIInv, NEW s \in finished,
           \/ results'[s] = results[s]
           \/ None \in writers'[s],
           truth'[s] = truth[s], writers[s] \subseteq writers'[s],
           None \notin writers'[s]
    PROVE  /\ results'[s].start = truth'[s].last
           /\ results'[s].exception = truth'[s].raised
           /\ results'[s].redirect = truth'[s].redirected
           /\ results'[s].isRedirect = truth'[s].followed
  BY DEF TraceIInv, TraceComplete

\* The types, as the lemmas below use them.
LEMMA TraceTypes ==
    ASSUME TraceIInv
    PROVE  /\ used \in Nat /\ used <= MaxScopes /\ MaxScopes \in Nat
           /\ results \in [Scopes -> Mapping] /\ truth \in [Scopes -> Truth]
           /\ \A t \in Tasks :
                InCall(t) => scope[t] \in Scopes /\ scope[t] \in 1 .. used
           /\ None = 0
  BY BoundsAssumption
     DEF TraceIInv, TraceTypeOK, Mapping, Truth, TaskInv, PlaceInv, Scopes, None

\* The initial state.
LEMMA TraceInitInv == TraceInit => TraceIInv
<1> SUFFICES ASSUME TraceInit PROVE TraceIInv
  OBVIOUS
<1>1. used = 0 /\ \A t \in Tasks : stage[t] = "idle"
  BY DEF TraceInit
<1>2. Empty \in Mapping /\ Untold \in Truth
  BY FirstRequests DEF Empty, Untold, Mapping, Truth
<1>3. TraceTypeOK
  BY <1>2, FirstRequests, MainAssumption, BoundsAssumption
     DEF TraceInit, TraceTypeOK, Mapping, Truth, None
<1>4. OwnEventsOnly /\ TraceComplete /\ UnboundInv
  BY DEF TraceInit, OwnEventsOnly, TraceComplete, UnboundInv
<1>5. \A t \in Tasks : ~InCall(t)
  BY <1>1 DEF InCall
<1>6. \A t \in Tasks : TaskInv(t)
  BY <1>5 DEF TraceInit, TaskInv, PlaceInv, BudgetInv, StoryInv
<1> QED
  BY <1>3, <1>4, <1>5, <1>6 DEF TraceIInv, Apart

\* A task inherits the mapping of a task that is in no call.
LEMMA SpawnInv ==
    ASSUME TraceIInv, NEW t \in Tasks, NEW u \in Tasks, Spawn(t, u)
    PROVE  TraceIInv'
<1>1. /\ stage[t] = "idle" /\ u \notin alive
      /\ alive' = alive \cup {u}
      /\ context' = [context EXCEPT ![u] = context[t]]
      /\ results' = results /\ used' = used /\ stage' = stage
      /\ scope' = scope /\ tracing' = tracing /\ event' = event /\ hop' = hop
      /\ attempt' = attempt /\ issued' = issued /\ reported' = reported
      /\ finished' = finished /\ writers' = writers /\ truth' = truth
  BY DEF Spawn, locals
<1>2. TraceTypeOK /\ OwnEventsOnly /\ TraceComplete /\ Apart /\ UnboundInv
  BY DEF TraceIInv
<1>3. TraceTypeOK'
  BY <1>1, <1>2 DEF TraceTypeOK
<1>4. OwnEventsOnly' /\ TraceComplete' /\ UnboundInv'
  BY <1>1, <1>2 DEF OwnEventsOnly, TraceComplete, UnboundInv
<1>5. stage[u] = "idle"
  BY <1>1 DEF TraceIInv, TaskInv, PlaceInv
<1>6. \A v \in Tasks : InCall(v)' <=> InCall(v)
  BY <1>1 DEF InCall
<1>7. ~InCall(t) /\ ~InCall(u)
  BY <1>1, <1>5 DEF InCall
<1>8. Apart'
  BY <1>1, <1>2, <1>6, <1>7 DEF Apart, TraceTypeOK
<1>9. ASSUME NEW v \in Tasks
      PROVE  TaskInv(v)'
  <2>1. CASE v = u
    <3>1. TaskInv(u)
      BY DEF TraceIInv
    <3>2. PlaceInv(u)'
      BY <1>1, <1>5, <1>6, <1>7, <3>1 DEF TaskInv, PlaceInv
    <3> QED
      BY <1>6, <1>7, <2>1, <3>2 DEF TaskInv, BudgetInv, StoryInv
  <2>2. CASE v # u
    <3>1. Kept(v)
      BY <1>1, <1>2, <2>2 DEF Kept, TraceTypeOK
    <3>2. InCall(v) => scope[v] \notin finished
      BY DEF TraceIInv, TaskInv, PlaceInv
    <3> QED
      BY <1>1, <3>1, <3>2, TraceTypes, OtherTask
  <2> QED
    BY <2>1, <2>2
<1> QED
  BY <1>3, <1>4, <1>8, <1>9 DEF TraceIInv

\* A call binds a mapping nobody has.
LEMMA HandleRequestInv ==
    ASSUME TraceIInv, NEW t \in Tasks, NEW owned \in BOOLEAN,
           HandleRequest(t, owned)
    PROVE  TraceIInv'
<1> DEFINE s == used + 1
<1>1. used \in Nat /\ used < MaxScopes /\ MaxScopes \in Nat /\ s > used
  BY TraceTypes DEF HandleRequest
<1>2. /\ t \in alive /\ stage[t] = "idle"
      /\ context' = [context EXCEPT ![t] = s]
      /\ scope' = [scope EXCEPT ![t] = s]
      /\ used' = s
      /\ reported' = reported \/ reported' = reported \cup {s}
      /\ stage' = [stage EXCEPT ![t] = "between"]
      /\ attempt' = [attempt EXCEPT ![t] = 1]
      /\ alive' = alive /\ results' = results /\ tracing' = tracing
      /\ event' = event /\ hop' = hop /\ issued' = issued
      /\ finished' = finished /\ writers' = writers /\ truth' = truth
  BY <1>1 DEF HandleRequest, VarSet, ScopeFor
<1>3. TraceTypeOK /\ OwnEventsOnly /\ TraceComplete /\ Apart /\ UnboundInv
  BY DEF TraceIInv
<1>4. /\ s \in Scopes /\ s \in 1 .. used'
      /\ \A n \in 0 .. used : n \in 0 .. used' /\ n # s
  BY <1>1, <1>2 DEF Scopes
<1>5. results[s] = Empty /\ truth[s] = Untold /\ writers[s] = {}
  BY <1>1, <1>3, <1>4 DEF UnboundInv
<1>6. TraceTypeOK'
  <2>1. 1 \in 0 .. AllowedRetries + 1
    BY BoundsAssumption
  <2>2. used' \in 0 .. MaxScopes
    BY <1>1, <1>2
  <2>3. /\ context' \in [Tasks -> 0 .. used']
        /\ scope' \in [Tasks -> 0 .. used']
        /\ tracing' \in [Tasks -> 0 .. used']
        /\ writers' \in [Scopes -> SUBSET (0 .. used')]
        /\ reported' \cup finished' \subseteq 1 .. used'
    <3> HIDE DEF s
    <3>1. s \in 0 .. used' /\ 0 .. used \subseteq 0 .. used'
          /\ 1 .. used \subseteq 1 .. used'
      BY <1>1, <1>2 DEF s
    <3> QED
      BY <1>2, <1>3, <1>4, <3>1 DEF TraceTypeOK
  <2> QED
    BY <1>2, <1>3, <2>1, <2>2, <2>3 DEF TraceTypeOK
<1>7. OwnEventsOnly'
  <2>1. ASSUME NEW q \in Scopes, NEW c \in 1 .. used', c \in writers[q]
        PROVE  c = q
    <3>1. c \in 0 .. used
      BY <1>3, <2>1 DEF TraceTypeOK
    <3>2. c \in 1 .. used
      BY <1>1, <1>2, <3>1
    <3> QED
      BY <1>3, <2>1, <3>2 DEF OwnEventsOnly
  <2> QED
    BY <1>2, <2>1 DEF OwnEventsOnly
<1>8. TraceComplete' /\ UnboundInv'
  BY <1>1, <1>2, <1>3 DEF TraceComplete, UnboundInv, Scopes
<1>9. /\ InCall(t)' /\ ~InCall(t)
      /\ \A v \in Tasks \ {t} : Kept(v) /\ (InCall(v)' <=> InCall(v))
  BY <1>2, <1>3 DEF InCall, Kept, TraceTypeOK
<1>10. Apart'
  <2>1. ASSUME NEW v \in Tasks, NEW w \in Tasks, InCall(v)', v # w
        PROVE  context'[w] # scope'[v] /\ tracing'[w] # scope'[v]
    <3>1. CASE v = t
      <4>1. /\ scope'[v] = s
            /\ context'[w] = context[w] /\ tracing'[w] = tracing[w]
        BY <1>2, <1>3, <2>1, <3>1 DEF TraceTypeOK
      <4>2. context[w] \in 0 .. used /\ tracing[w] \in 0 .. used
        BY <1>3 DEF TraceTypeOK
      <4> QED
        BY <1>4, <4>1, <4>2
    <3>2. CASE v # t
      <4>1. InCall(v) /\ scope'[v] = scope[v] /\ tracing'[w] = tracing[w]
        BY <1>2, <1>3, <1>9, <2>1, <3>2 DEF TraceTypeOK
      <4>2. scope[v] # s
        BY <1>1, <4>1, TraceTypes
      <4>3. context'[w] = s \/ context'[w] = context[w]
        BY <1>2, <1>3 DEF TraceTypeOK
      <4> QED
        BY <1>3, <2>1, <4>1, <4>2, <4>3 DEF Apart
    <3> QED
      BY <3>1, <3>2
  <2> QED
    BY <2>1 DEF Apart
<1>11. TaskInv(t)'
  <2>1. TaskInv(t) /\ issued[t] = 0 /\ event[t] = 0 /\ hop[t] = 0
    BY <1>9 DEF TraceIInv, TaskInv, PlaceInv
  <2>2. /\ stage'[t] = "between" /\ scope'[t] = s /\ context'[t] = s
        /\ attempt'[t] = 1
    BY <1>2, <1>3 DEF TraceTypeOK
  <2>3. s \notin finished
    BY <1>1, <1>3 DEF TraceTypeOK
  <2>4. PlaceInv(t)'
    BY <1>2, <1>4, <1>5, <1>9, <2>1, <2>2, <2>3, BoundsAssumption DEF PlaceInv
  <2>5. BudgetInv(t)'
    <3>1. 0 <= (1 - 1) * (MaxRedirects + 1) + 0 + 0
      BY BoundsAssumption
    <3> QED
      BY <1>2, <2>1, <2>2, <3>1 DEF BudgetInv
  <2>6. StoryInv(t)'
    <3>1. /\ Empty.start = 0 /\ Empty.exception = 0 /\ Empty.redirect = 0
          /\ Untold.last = 0 /\ Untold.raised = 0 /\ Untold.redirected = 0
      BY DEF Empty, Untold
    <3>2. Empty.isRedirect = FALSE /\ Untold.followed = FALSE
      BY DEF Empty, Untold
    <3>3. /\ results'[scope'[t]] = Empty /\ truth'[scope'[t]] = Untold
          /\ issued'[t] = 0 /\ event'[t] = 0 /\ hop'[t] = 0
      BY <1>2, <1>5, <2>1, <2>2
    <3> QED
      BY <2>2, <3>1, <3>2, <3>3 DEF StoryInv
  <2> QED
    BY <2>4, <2>5, <2>6 DEF TaskInv
<1>12. ASSUME NEW v \in Tasks \ {t}
       PROVE  TaskInv(v)'
  <2>1. InCall(v) => scope[v] \notin finished
    BY DEF TraceIInv, TaskInv, PlaceInv
  <2>2. Kept(v) /\ used' \in Nat /\ used <= used' /\ used' <= MaxScopes
    BY <1>1, <1>2, <1>9
  <2> QED
    BY <1>2, <2>1, <2>2, OtherTask
<1> QED
  BY <1>6, <1>7, <1>8, <1>10, <1>11, <1>12 DEF TraceIInv

\* What the callbacks of a call in progress leave in its mapping.
LEMMA CallMapping ==
    ASSUME NEW r \in Mapping, NEW n \in Requests
    PROVE  /\ Started(r, n) \in Mapping
           /\ Started(r, n).start = n
           /\ Started(r, n).exception = r.exception
           /\ Started(r, n).redirect = r.redirect
           /\ Started(r, n).isRedirect = FALSE
           /\ Raised(r) \in Mapping
           /\ Raised(r).start = r.start
           /\ Raised(r).exception = r.start
           /\ Raised(r).redirect = r.redirect
           /\ Raised(r).isRedirect = r.isRedirect
           /\ RecordRedirect(r, n) \in Mapping
           /\ RecordRedirect(r, n).start = r.start
           /\ RecordRedirect(r, n).exception = r.exception
           /\ n = 0 => RecordRedirect(r, n) = r
           /\ n # 0 => /\ RecordRedirect(r, n).redirect = n
                       /\ RecordRedirect(r, n).isRedirect = TRUE
<1>1. /\ Started(r, n) \in Mapping
      /\ Started(r, n).start = n
      /\ Started(r, n).exception = r.exception
      /\ Started(r, n).redirect = r.redirect
      /\ Started(r, n).isRedirect = FALSE
  BY DEF Mapping, Started
<1>2. /\ Raised(r) \in Mapping
      /\ Raised(r).start = r.start
      /\ Raised(r).exception = r.start
      /\ Raised(r).redirect = r.redirect
      /\ Raised(r).isRedirect = r.isRedirect
  BY DEF Mapping, Raised
<1>3. CASE n = 0
  BY <1>1, <1>2, <1>3 DEF RecordRedirect
<1>4. CASE n # 0
  <2>1. /\ RecordRedirect(r, n) \in Mapping
        /\ RecordRedirect(r, n).start = r.start
        /\ RecordRedirect(r, n).exception = r.exception
        /\ RecordRedirect(r, n).redirect = n
        /\ RecordRedirect(r, n).isRedirect = TRUE
    BY <1>4 DEF Mapping, RecordRedirect, Measured
  <2> QED
    BY <1>1, <1>2, <1>4, <2>1
<1> QED
  BY <1>3, <1>4

\* What the history tells of a call that follows a redirect.
LEMMA FollowedTruth ==
    ASSUME NEW w \in Truth, NEW n \in Requests
    PROVE  /\ ToldFollowed(w, n) \in Truth
           /\ ToldFollowed(w, n).last = w.last
           /\ ToldFollowed(w, n).raised = w.raised
           /\ ToldFollowed(w, n).redirected = n
           /\ ToldFollowed(w, n).followed = TRUE
  BY DEF Truth, ToldFollowed

\* ... and of one that issues a request.
LEMMA IssuedTruth ==
    ASSUME NEW w \in Truth, NEW n \in Requests, NEW h \in Nat
    PROVE  /\ ToldIssued(w, n, h) \in Truth
           /\ ToldIssued(w, n, h).last = n
           /\ ToldIssued(w, n, h).raised = w.raised
           /\ ToldIssued(w, n, h).redirected = w.redirected
           /\ h = 0 => ToldIssued(w, n, h).followed = FALSE
           /\ h > 0 /\ w.followed = TRUE => ToldIssued(w, n, h).followed = TRUE
<1>1. /\ ToldIssued(w, n, h) \in Truth
      /\ ToldIssued(w, n, h).last = n
      /\ ToldIssued(w, n, h).raised = w.raised
      /\ ToldIssued(w, n, h).redirected = w.redirected
  BY DEF Truth, ToldIssued
<1>2. ToldIssued(w, n, h).followed = (w.followed /\ h > 0)
  BY DEF Truth, ToldIssued
<1>3. ASSUME h = 0
      PROVE  ToldIssued(w, n, h).followed = FALSE
  <2>1. ~(h > 0)
    BY <1>3
  <2> QED
    BY <1>2, <2>1, Zenon
<1>4. ASSUME h > 0, w.followed = TRUE
      PROVE  ToldIssued(w, n, h).followed = TRUE
  BY <1>2, <1>4, Zenon
<1> QED
  BY <1>1, <1>3, <1>4, Zenon

\* A step of a task in a call, on the mapping of that call.
LEMMA CallStep ==
    ASSUME TraceIInv, NEW t \in Tasks, InCall(t),
           alive' = alive, context' = context, used' = used,
           reported' = reported,
           \A v \in Tasks \ {t} : Kept(v),
           \A q \in Scopes \ {scope[t]} :
               /\ results'[q] = results[q] /\ truth'[q] = truth[q]
               /\ writers'[q] = writers[q],
           writers[scope[t]] \subseteq writers'[scope[t]],
           writers'[scope[t]] \subseteq {scope[t]},
           finished' \subseteq finished \cup {scope[t]},
           InCall(t)' => scope'[t] = scope[t] /\ scope[t] \notin finished',
           tracing'[t] \in {None, tracing[t], scope[t]},
           scope[t] \in finished' =>
               /\ results'[scope[t]].start = truth'[scope[t]].last
               /\ results'[scope[t]].exception = truth'[scope[t]].raised
               /\ results'[scope[t]].redirect = truth'[scope[t]].redirected
               /\ results'[scope[t]].isRedirect = truth'[scope[t]].followed,
           TraceTypeOK', TaskInv(t)'
    PROVE  TraceIInv'
<1> DEFINE s == scope[t]
<1>1. TraceTypeOK /\ OwnEventsOnly /\ TraceComplete /\ Apart /\ UnboundInv
  BY DEF TraceIInv
<1>2. s \in Scopes /\ s \in 1 .. used /\ s # None /\ context[t] = s
  BY TraceTypes DEF TraceIInv, TaskInv, PlaceInv
<1>3. OwnEventsOnly'
  BY <1>1, <1>2 DEF OwnEventsOnly
<1>4. TraceComplete'
  <2>1. ASSUME NEW q \in finished', None \notin writers'[q]
        PROVE  /\ results'[q].start = truth'[q].last
               /\ results'[q].exception = truth'[q].raised
               /\ results'[q].redirect = truth'[q].redirected
               /\ results'[q].isRedirect = truth'[q].followed
    <3>1. CASE q = s
      BY <2>1, <3>1
    <3>2. CASE q # s
      <4>1. q \in finished /\ q \in Scopes \ {s}
        BY <1>1, <2>1, <3>2, TraceTypes DEF TraceTypeOK, Scopes
      <4>2. /\ results'[q] = results[q] /\ truth'[q] = truth[q]
            /\ writers'[q] = writers[q]
        BY <4>1
      <4> QED
        BY <2>1, <4>1, <4>2, FinishedMapping
    <3> QED
      BY <3>1, <3>2
  <2> QED
    BY <2>1 DEF TraceComplete
<1>5. \A v \in Tasks \ {t} : InCall(v)' <=> InCall(v)
  BY DEF InCall, Kept
<1>6. Apart'
  <2>1. ASSUME NEW v \in Tasks, NEW w \in Tasks, InCall(v)', v # w
        PROVE  context'[w] # scope'[v] /\ tracing'[w] # scope'[v]
    <3>1. CASE v = t
      BY <1>1, <2>1, <3>1 DEF Apart, Kept
    <3>2. CASE v # t
      <4>1. InCall(v) /\ scope'[v] = scope[v] /\ scope[v] # None
        BY <1>5, <2>1, <3>2, TraceTypes DEF Kept
      <4>2. context[w] # scope[v] /\ tracing[w] # scope[v]
        BY <1>1, <2>1, <4>1 DEF Apart
      <4>3. scope[v] # s
        BY <1>1, <1>2, <3>2, <4>1 DEF Apart
      <4> QED
        BY <4>1, <4>2, <4>3 DEF Kept
    <3> QED
      BY <3>1, <3>2
  <2> QED
    BY <2>1 DEF Apart
<1>7. UnboundInv'
  BY <1>1, <1>2, TraceTypes DEF UnboundInv, Scopes
<1>8. ASSUME NEW v \in Tasks \ {t}
      PROVE  TaskInv(v)'
  <2>1. InCall(v) => scope[v] \notin finished /\ scope[v] \in Scopes
    BY TraceTypes DEF TraceIInv, TaskInv, PlaceInv
  <2>2. InCall(v) => scope[v] # s
    BY <1>1, <1>2 DEF Apart
  <2>3. \A q \in Scopes : writers[q] \subseteq writers'[q]
    BY <1>2
  <2> QED
    BY <2>1, <2>2, <2>3, TraceTypes, OtherTask
<1> QED
  BY <1>3, <1>4, <1>6, <1>7, <1>8 DEF TraceIInv

\* What is known of a task in a call.
LEMMA CallFacts ==
    ASSUME TraceIInv, NEW t \in Tasks, InCall(t)
    PROVE  /\ scope[t] \in Scopes /\ scope[t] \in 1 .. used
           /\ scope[t] # None /\ scope[t] \notin finished
           /\ context[t] = scope[t]
           /\ writers[scope[t]] \subseteq {scope[t]}
           /\ results[scope[t]] \in Mapping /\ truth[scope[t]] \in Truth
           /\ attempt[t] \in 1 .. AllowedRetries + 1
           /\ hop[t] \in 0 .. MaxRedirects /\ event[t] \in Requests
           /\ issued[t] \in Requests /\ issued[t] \in Nat
           /\ PlaceInv(t) /\ BudgetInv(t) /\ StoryInv(t)
<1>1. PlaceInv(t) /\ BudgetInv(t) /\ StoryInv(t)
  BY DEF TraceIInv, TaskInv
<1>2. scope[t] \in Scopes /\ scope[t] \in 1 .. used /\ scope[t] # None
  BY TraceTypes
<1>3. /\ scope[t] \notin finished /\ context[t] = scope[t]
      /\ writers[scope[t]] \subseteq {scope[t]}
      /\ attempt[t] \in 1 .. AllowedRetries + 1
  BY <1>1 DEF PlaceInv
<1>4. /\ hop[t] \in 0 .. MaxRedirects /\ event[t] \in Requests
      /\ issued[t] \in Requests /\ issued[t] \in Nat
  BY FirstRequests DEF TraceIInv, TraceTypeOK
<1>5. results[scope[t]] \in Mapping /\ truth[scope[t]] \in Truth
  BY <1>2, TraceTypes
<1> QED
  BY <1>1, <1>2, <1>3, <1>4, <1>5

\* A request starts: the mapping resolved for it is the one the call bound.
LEMMA IssueInv ==
    ASSUME TraceIInv, NEW t \in Tasks, Issue(t)
    PROVE  TraceIInv'
<1> DEFINE s == scope[t]
           n == issued[t] + 1
<1>1. stage[t] = "between" /\ InCall(t) /\ TraceTypeOK
  BY DEF Issue, InCall, TraceIInv
<1>2. /\ s \in Scopes /\ s \in 1 .. used /\ s # None /\ s \notin finished
      /\ context[t] = s /\ writers[s] \subseteq {s}
      /\ results[s] \in Mapping /\ truth[s] \in Truth
      /\ attempt[t] \in 1 .. AllowedRetries + 1
      /\ hop[t] \in 0 .. MaxRedirects /\ event[t] \in Requests
      /\ issued[t] \in Nat
      /\ PlaceInv(t) /\ BudgetInv(t) /\ StoryInv(t)
  BY <1>1, CallFacts
<1>3. Tracing(t) = s /\ used' = used /\ context' = context
  BY <1>2 DEF Issue, Tracing, Current, Touch
<1>4. /\ issued' = [issued EXCEPT ![t] = n]
      /\ results' = [results EXCEPT ![s] = Started(results[s], n)]
      /\ tracing' = [tracing EXCEPT ![t] = s]
      /\ writers' = [writers EXCEPT ![s] = writers[s] \cup {s}]
      /\ stage' = [stage EXCEPT ![t] = "inflight"]
      /\ alive' = alive /\ scope' = scope /\ event' = event /\ hop' = hop
      /\ attempt' = attempt /\ reported' = reported /\ finished' = finished
  BY <1>3 DEF Issue
<1>5. truth' = [truth EXCEPT ![s] = ToldIssued(truth[s], n, hop[t])]
  BY DEF Issue
<1>6. n \in Requests /\ n > 0
  <2>1. issued[t] <= (attempt[t] - 1) * (MaxRedirects + 1) + hop[t] + 0
    BY <1>1, <1>2 DEF BudgetInv
  <2>2. issued[t] <= (attempt[t] - 1) * (MaxRedirects + 1) + hop[t]
    BY <1>2, <2>1, BoundsAssumption
  <2> QED
    BY <1>2, <2>2, RequestBudget
<1> HIDE DEF n
<1>7. /\ truth'[s] = ToldIssued(truth[s], n, hop[t])
      /\ \A q \in Scopes \ {s} : truth'[q] = truth[q]
      /\ truth' \in [Scopes -> Truth]
  <2>1. ToldIssued(truth[s], n, hop[t]) \in Truth
    <3>1. hop[t] \in Nat
      BY <1>2, BoundsAssumption
    <3> QED
      BY <1>2, <1>6, <3>1, IssuedTruth
  <2> QED
    BY <1>2, <1>5, <2>1, TraceTypes
<1>8. /\ results'[s] = Started(results[s], n)
      /\ \A q \in Scopes \ {s} :
            results'[q] = results[q] /\ writers'[q] = writers[q]
      /\ results' \in [Scopes -> Mapping]
  <2>1. Started(results[s], n) \in Mapping
    BY <1>2, <1>6, CallMapping
  <2>2. writers \in [Scopes -> SUBSET (0 .. used)]
    BY <1>1 DEF TraceTypeOK
  <2> QED
    BY <1>2, <1>4, <2>1, <2>2, TraceTypes
<1>9. writers'[s] = writers[s] \cup {s} /\ stage'[t] = "inflight"
      /\ issued'[t] = n /\ tracing'[t] = s
  BY <1>1, <1>2, <1>4 DEF TraceTypeOK
<1>10. TraceTypeOK'
  <2>1. s \in 0 .. used
    BY <1>2, TraceTypes
  <2>2. writers' \in [Scopes -> SUBSET (0 .. used)]
    BY <1>1, <1>2, <1>4, <2>1 DEF TraceTypeOK
  <2>3. issued' \in [Tasks -> Requests] /\ tracing' \in [Tasks -> 0 .. used]
        /\ stage' \in [Tasks -> {"idle", "between", "inflight", "backoff",
                                 "direct"}]
    BY <1>1, <1>4, <1>6, <2>1 DEF TraceTypeOK
  <2> QED
    BY <1>1, <1>3, <1>4, <1>7, <1>8, <2>2, <2>3 DEF TraceTypeOK, Mapping, Truth
<1>11. InCall(t)' /\ \A v \in Tasks \ {t} : Kept(v)
  BY <1>1, <1>3, <1>4, <1>9 DEF InCall, Kept, TraceTypeOK
<1>12. PlaceInv(t)'
  <2>1. t \in alive /\ writers'[s] \subseteq {s}
    BY <1>1, <1>2, <1>9 DEF PlaceInv
  <2> QED
    BY <1>2, <1>3, <1>4, <1>9, <1>11, <2>1 DEF PlaceInv
<1>13. BudgetInv(t)'
  <2>1. issued[t] <= (attempt[t] - 1) * (MaxRedirects + 1) + hop[t] + 0
    BY <1>1, <1>2 DEF BudgetInv
  <2>2. (attempt[t] - 1) * (MaxRedirects + 1) \in Int
    BY <1>2, BoundsAssumption
  <2>3. n <= (attempt[t] - 1) * (MaxRedirects + 1) + hop[t] + 1
    BY <1>2, <2>1, <2>2 DEF n
  <2> QED
    BY <1>4, <1>9, <2>3 DEF BudgetInv
<1>14. StoryInv(t)'
  <2>1. /\ results'[s].start = n /\ results'[s].exception = results[s].exception
        /\ results'[s].redirect = results[s].redirect
        /\ results'[s].isRedirect = FALSE
    <3>1. /\ Started(results[s], n).start = n
          /\ Started(results[s], n).exception = results[s].exception
          /\ Started(results[s], n).redirect = results[s].redirect
          /\ Started(results[s], n).isRedirect = FALSE
      BY <1>2, <1>6, CallMapping
    <3> QED
      BY <1>8, <3>1
  <2>2. /\ truth'[s].last = n /\ truth'[s].raised = truth[s].raised
        /\ truth'[s].redirected = truth[s].redirected
        /\ hop[t] = 0 => truth'[s].followed = FALSE
        /\ hop[t] > 0 /\ truth[s].followed = TRUE
             => truth'[s].followed = TRUE
    <3>1. hop[t] \in Nat /\ truth[s] \in Truth /\ n \in Requests
      BY <1>2, <1>6, BoundsAssumption
    <3> DEFINE w == ToldIssued(truth[s], n, hop[t])
    <3>2. /\ w.last = n /\ w.raised = truth[s].raised
          /\ w.redirected = truth[s].redirected
      BY <3>1 DEF ToldIssued, Truth
    <3>3. /\ hop[t] = 0 => w.followed = FALSE
          /\ hop[t] > 0 /\ truth[s].followed = TRUE => w.followed = TRUE
      <4>1. ASSUME hop[t] = 0
            PROVE  w.followed = FALSE
        BY <3>1, <4>1, IssuedTruth
      <4>2. ASSUME hop[t] > 0, truth[s].followed = TRUE
            PROVE  w.followed = TRUE
        BY <3>1, <4>2, IssuedTruth
      <4> QED
        BY <4>1, <4>2, Zenon
    <3>4. truth'[s] = w
      BY <1>7
    <3> HIDE DEF w, s
    <3> QED
      BY <3>2, <3>3, <3>4
  <2>3. CASE event[t] = 0
    BY <1>1, <1>2, <1>4, <1>6, <1>9, <2>1, <2>2, <2>3 DEF StoryInv
  <2>4. CASE event[t] # 0
    BY <1>1, <1>2, <1>4, <1>6, <1>9, <2>1, <2>2, <2>4 DEF StoryInv
  <2> QED
    BY <2>3, <2>4
<1>15. TaskInv(t)'
  BY <1>12, <1>13, <1>14 DEF TaskInv
<1> QED
  BY <1>1, <1>2, <1>3, <1>4, <1>7, <1>8, <1>9, <1>10, <1>11, <1>15, CallStep

\* A redirect is followed, timed from the request that was answered.
LEMMA FollowInv ==
    ASSUME TraceIInv, NEW t \in Tasks, Follow(t)
    PROVE  TraceIInv'
<1> DEFINE s == scope[t]
<1>1. stage[t] = "inflight" /\ InCall(t) /\ TraceTypeOK /\ hop[t] < MaxRedirects
  BY DEF Follow, MayFollow, InCall, TraceIInv
<1>2. /\ s \in Scopes /\ s \in 1 .. used /\ s # None /\ s \notin finished
      /\ context[t] = s /\ writers[s] \subseteq {s}
      /\ results[s] \in Mapping /\ truth[s] \in Truth
      /\ attempt[t] \in 1 .. AllowedRetries + 1
      /\ hop[t] \in 0 .. MaxRedirects /\ event[t] \in Requests
      /\ issued[t] \in Requests /\ issued[t] \in Nat
      /\ PlaceInv(t) /\ BudgetInv(t) /\ StoryInv(t)
  BY <1>1, CallFacts
<1>3. results[s].start = issued[t] /\ issued[t] > 0
  BY <1>1, <1>2 DEF StoryInv
<1>4. /\ event' = [event EXCEPT ![t] = issued[t]]
      /\ hop' = [hop EXCEPT ![t] = hop[t] + 1]
      /\ stage' = [stage EXCEPT ![t] = "between"]
      /\ alive' = alive /\ context' = context /\ results' = results
      /\ used' = used /\ scope' = scope /\ tracing' = tracing
      /\ attempt' = attempt /\ issued' = issued /\ reported' = reported
      /\ finished' = finished /\ writers' = writers
  BY <1>3 DEF Follow
<1>5. truth' = [truth EXCEPT ![s] = ToldFollowed(truth[s], issued[t])]
  BY DEF Follow
<1>6. /\ truth'[s].last = truth[s].last /\ truth'[s].raised = truth[s].raised
      /\ truth'[s].redirected = issued[t] /\ truth'[s].followed = TRUE
      /\ \A q \in Scopes \ {s} : truth'[q] = truth[q]
      /\ truth' \in [Scopes -> Truth]
  <2>1. /\ ToldFollowed(truth[s], issued[t]) \in Truth
        /\ truth'[s] = ToldFollowed(truth[s], issued[t])
        /\ \A q \in Scopes \ {s} : truth'[q] = truth[q]
        /\ truth' \in [Scopes -> Truth]
    BY <1>2, <1>5, FollowedTruth, TraceTypes
  <2> QED
    <3> DEFINE w == ToldFollowed(truth[s], issued[t])
    <3>1. w.last = truth[s].last /\ w.raised = truth[s].raised
      BY <1>2, FollowedTruth
    <3>2. w.redirected = issued[t] /\ w.followed = TRUE
      BY <1>2, FollowedTruth
    <3> HIDE DEF w, s
    <3> QED
      BY <2>1, <3>1, <3>2 DEF w
<1>7. hop[t] + 1 \in 0 .. MaxRedirects /\ hop[t] + 1 > 0
  BY <1>1, <1>2, BoundsAssumption
<1>8. TraceTypeOK'
  BY <1>1, <1>2, <1>4, <1>6, <1>7 DEF TraceTypeOK, Truth
<1>9. stage'[t] = "between" /\ event'[t] = issued[t] /\ hop'[t] = hop[t] + 1
  BY <1>1, <1>4 DEF TraceTypeOK
<1>10. InCall(t)' /\ \A v \in Tasks \ {t} : Kept(v)
  BY <1>1, <1>4, <1>9 DEF InCall, Kept, TraceTypeOK
<1>11. PlaceInv(t)'
  <2>1. t \in alive
    BY <1>1, <1>2 DEF PlaceInv
  <2> QED
    BY <1>2, <1>4, <1>9, <1>10, <2>1 DEF PlaceInv
<1>12. BudgetInv(t)'
  <2>1. issued[t] <= (attempt[t] - 1) * (MaxRedirects + 1) + hop[t] + 1
    BY <1>1, <1>2 DEF BudgetInv
  <2>2. (attempt[t] - 1) * (MaxRedirects + 1) \in Int
    BY <1>2, BoundsAssumption
  <2>3. issued[t] <= (attempt[t] - 1) * (MaxRedirects + 1) + (hop[t] + 1) + 0
    BY <1>2, <2>1, <2>2
  <2> QED
    BY <1>4, <1>9, <2>3 DEF BudgetInv
<1>13. StoryInv(t)'
  BY <1>1, <1>2, <1>3, <1>4, <1>6, <1>7, <1>9 DEF StoryInv
<1>14. TaskInv(t)'
  BY <1>11, <1>12, <1>13 DEF TaskInv
<1> QED
  BY <1>1, <1>2, <1>4, <1>6, <1>8, <1>10, <1>14, CallStep

\* An attempt ends: its redirect is recorded, and the mapping tells all that
\* happened so far.
LEMMA LeaveInv ==
    ASSUME TraceIInv, NEW t \in Tasks, InCall(t),
           NEW rs \in [Scopes -> Mapping], NEW retriable,
           Leave(t, rs, retriable),
           \A q \in Scopes \ {scope[t]} :
               rs[q] = results[q] /\ truth'[q] = truth[q],
           rs[scope[t]].start = results[scope[t]].start,
           rs[scope[t]].redirect = results[scope[t]].redirect,
           rs[scope[t]].isRedirect = results[scope[t]].isRedirect,
           truth' \in [Scopes -> Truth],
           truth'[scope[t]].last = truth[scope[t]].last,
           truth'[scope[t]].raised = rs[scope[t]].exception,
           truth'[scope[t]].redirected = truth[scope[t]].redirected,
           truth'[scope[t]].followed = truth[scope[t]].followed
    PROVE  TraceIInv'
<1> DEFINE s == scope[t]
           r == RecordRedirect(rs[s], event[t])
<1>1. TraceTypeOK /\ stage[t] # "idle"
  BY DEF TraceIInv, InCall
<1>2. /\ s \in Scopes /\ s \in 1 .. used /\ s # None /\ s \notin finished
      /\ context[t] = s /\ writers[s] \subseteq {s}
      /\ attempt[t] \in 1 .. AllowedRetries + 1
      /\ hop[t] \in 0 .. MaxRedirects /\ event[t] \in Requests
      /\ issued[t] \in Requests /\ issued[t] \in Nat
      /\ PlaceInv(t) /\ BudgetInv(t) /\ StoryInv(t)
  BY CallFacts
<1>3. /\ results' = [rs EXCEPT ![s] = r]
      /\ event' = [event EXCEPT ![t] = 0]
      /\ hop' = [hop EXCEPT ![t] = 0]
      /\ tracing' = [tracing EXCEPT ![t] = None]
      /\ alive' = alive /\ context' = context /\ used' = used
      /\ reported' = reported /\ writers' = writers
  BY DEF Leave
<1>4. rs[s] \in Mapping
  BY <1>2
<1>5. r \in Mapping /\ r.start = rs[s].start /\ r.exception = rs[s].exception
  BY <1>2, <1>4, CallMapping
<1>6. r.redirect = truth[s].redirected /\ r.isRedirect = truth[s].followed
  <2>1. CASE event[t] = 0
    <3>1. r = rs[s]
      BY <2>1 DEF RecordRedirect
    <3>2. /\ truth[s].redirected = results[s].redirect
          /\ truth[s].followed = results[s].isRedirect
      BY <1>2, <2>1 DEF StoryInv
    <3> HIDE DEF r, s
    <3> QED
      BY <3>1, <3>2 DEF s
  <2>2. CASE event[t] # 0
    <3>1. r.redirect = event[t] /\ r.isRedirect = TRUE
      BY <1>2, <1>4, <2>2, CallMapping
    <3>2. truth[s].redirected = event[t] /\ truth[s].followed = TRUE
      BY <1>2, <2>2 DEF StoryInv
    <3> HIDE DEF r, s
    <3> QED
      BY <3>1, <3>2
  <2> QED
    BY <2>1, <2>2
<1>7. results[s].start = issued[t] /\ truth[s].last = issued[t]
  BY <1>2 DEF StoryInv
<1> HIDE DEF r
<1>8. /\ results'[s] = r /\ results' \in [Scopes -> Mapping]
      /\ \A q \in Scopes \ {s} : results'[q] = results[q]
  BY <1>2, <1>3, <1>5
<1>9. /\ results'[s].start = issued[t] /\ truth'[s].last = issued[t]
      /\ results'[s].exception = truth'[s].raised
      /\ results'[s].redirect = truth'[s].redirected
      /\ results'[s].isRedirect = truth'[s].followed
  BY <1>5, <1>6, <1>7, <1>8
<1>10. event'[t] = 0 /\ hop'[t] = 0 /\ tracing'[t] = None
  BY <1>1, <1>3 DEF TraceTypeOK
<1>11. /\ event' \in [Tasks -> Requests] /\ hop' \in [Tasks -> 0 .. MaxRedirects]
       /\ tracing' \in [Tasks -> 0 .. used]
  BY <1>1, <1>3, FirstRequests, BoundsAssumption, TraceTypes DEF TraceTypeOK
<1>12. t \in alive
  BY <1>1, <1>2 DEF PlaceInv
<1>13. CASE /\ attempt[t] <= AllowedRetries
            /\ attempt' = [attempt EXCEPT ![t] = attempt[t] + 1]
            /\ stage' = [stage EXCEPT ![t] = "backoff"]
            /\ scope' = scope /\ issued' = issued /\ finished' = finished
  <2>1. attempt[t] + 1 \in 1 .. AllowedRetries + 1
        /\ attempt[t] + 1 \in 0 .. AllowedRetries + 1
    BY <1>2, <1>13, BoundsAssumption
  <2>2. attempt'[t] = attempt[t] + 1 /\ stage'[t] = "backoff"
    BY <1>1, <1>13 DEF TraceTypeOK
  <2>3. attempt' \in [Tasks -> 0 .. AllowedRetries + 1]
    BY <1>1, <1>13, <2>1 DEF TraceTypeOK
  <2>4. TraceTypeOK'
    BY <1>1, <1>3, <1>8, <1>11, <1>13, <2>3 DEF TraceTypeOK, Mapping, Truth
  <2>5. InCall(t)' /\ \A v \in Tasks \ {t} : Kept(v)
    BY <1>1, <1>3, <1>13, <2>2 DEF InCall, Kept, TraceTypeOK
  <2>6. PlaceInv(t)'
    BY <1>2, <1>3, <1>10, <1>12, <1>13, <2>1, <2>2, <2>5 DEF PlaceInv
  <2>7. BudgetInv(t)'
    <3>1. issued[t] <= (attempt[t] - 1) * (MaxRedirects + 1) + hop[t]
                       + (IF stage[t] = "inflight" THEN 1 ELSE 0)
      BY <1>2 DEF BudgetInv
    <3>2. (attempt[t] - 1) * (MaxRedirects + 1) \in Int
      BY <1>2, BoundsAssumption
    <3>3. issued[t] <= (attempt[t] - 1) * (MaxRedirects + 1) + hop[t] + 1
      BY <1>2, <3>1, <3>2
    <3>4. issued[t] <= ((attempt[t] + 1) - 1) * (MaxRedirects + 1)
      BY <1>2, <3>3, RequestBudget
    <3>5. ((attempt[t] + 1) - 1) * (MaxRedirects + 1) \in Int
      BY <1>2, BoundsAssumption
    <3>6. issued[t] <= ((attempt[t] + 1) - 1) * (MaxRedirects + 1) + 0 + 0
      BY <3>4, <3>5
    <3> QED
      BY <1>10, <1>13, <2>2, <3>6 DEF BudgetInv
  <2>8. StoryInv(t)'
    BY <1>9, <1>10, <1>13, <2>2 DEF StoryInv
  <2>9. TaskInv(t)'
    BY <2>6, <2>7, <2>8 DEF TaskInv
  <2> QED
    BY <1>2, <1>3, <1>8, <1>10, <1>13, <2>4, <2>5, <2>9, CallStep
<1>14. CASE /\ stage' = [stage EXCEPT ![t] = "idle"]
            /\ scope' = [scope EXCEPT ![t] = None]
            /\ attempt' = [attempt EXCEPT ![t] = 0]
            /\ issued' = [issued EXCEPT ![t] = 0]
            /\ finished' = finished \cup {s}
  <2>1. stage'[t] = "idle" /\ issued'[t] = 0
    BY <1>1, <1>14 DEF TraceTypeOK
  <2>2. /\ stage' \in [Tasks -> {"idle", "between", "inflight", "backoff",
                                 "direct"}]
        /\ scope' \in [Tasks -> 0 .. used] /\ issued' \in [Tasks -> Requests]
        /\ attempt' \in [Tasks -> 0 .. AllowedRetries + 1]
        /\ reported' \cup finished' \subseteq 1 .. used'
    BY <1>1, <1>2, <1>3, <1>14, FirstRequests, BoundsAssumption, TraceTypes
       DEF TraceTypeOK
  <2>3. TraceTypeOK'
    BY <1>1, <1>3, <1>8, <1>11, <2>2 DEF TraceTypeOK, Mapping, Truth
  <2>4. ~InCall(t)' /\ \A v \in Tasks \ {t} : Kept(v)
    BY <1>1, <1>3, <1>14, <2>1 DEF InCall, Kept, TraceTypeOK
  <2>5. TaskInv(t)'
    BY <1>3, <1>10, <1>12, <2>1, <2>4 DEF TaskInv, PlaceInv, BudgetInv, StoryInv
  <2> QED
    BY <1>2, <1>3, <1>8, <1>9, <1>10, <1>14, <2>3, <2>4, <2>5, CallStep
<1> QED
  BY <1>13, <1>14 DEF Leave

\* The ways an attempt ends.
LEMMA EndingsInv ==
    ASSUME TraceIInv, NEW t \in Tasks,
           \/ Answered(t)
           \/ \E retriable \in BOOLEAN :
                 Raises(t, retriable) \/ Stopped(t, retriable)
    PROVE  TraceIInv'
<1>1. InCall(t)
  BY DEF Answered, Stopped, Raises, InCall
<1>2. /\ scope[t] \in Scopes /\ results[scope[t]] \in Mapping
      /\ truth[scope[t]] \in Truth /\ issued[t] \in Requests
      /\ PlaceInv(t) /\ StoryInv(t)
  BY <1>1, CallFacts
<1>3. results \in [Scopes -> Mapping] /\ truth \in [Scopes -> Truth]
  BY TraceTypes
<1>4. /\ results[scope[t]].exception = truth[scope[t]].raised
      /\ results[scope[t]].start = issued[t]
  BY <1>1, <1>2 DEF StoryInv
<1>5. CASE Answered(t) \/ \E retriable \in BOOLEAN : Stopped(t, retriable)
  <2>1. truth' = truth /\ \E retriable : Leave(t, results, retriable)
    BY <1>5 DEF Answered, Stopped
  <2> QED
    BY <1>1, <1>3, <1>4, <2>1, LeaveInv
<1>6. ASSUME NEW retriable \in BOOLEAN, Raises(t, retriable)
      PROVE  TraceIInv'
  <2> DEFINE rs == [results EXCEPT ![scope[t]] = Raised(results[scope[t]])]
  <2>1. stage[t] = "inflight" /\ tracing[t] = scope[t]
    BY <1>2, <1>6 DEF Raises, PlaceInv
  <2>2. /\ Leave(t, rs, retriable)
        /\ truth' = [truth EXCEPT ![scope[t]].raised = issued[t]]
    BY <1>6, <2>1 DEF Raises
  <2>3. /\ rs \in [Scopes -> Mapping]
        /\ rs[scope[t]] = Raised(results[scope[t]])
        /\ \A q \in Scopes \ {scope[t]} : rs[q] = results[q]
    BY <1>2, <1>3, CallMapping
  <2>4. /\ rs[scope[t]].start = results[scope[t]].start
        /\ rs[scope[t]].exception = issued[t]
        /\ rs[scope[t]].redirect = results[scope[t]].redirect
        /\ rs[scope[t]].isRedirect = results[scope[t]].isRedirect
    BY <1>2, <1>4, <2>3, CallMapping
  <2>5. /\ truth' \in [Scopes -> Truth]
        /\ \A q \in Scopes \ {scope[t]} : truth'[q] = truth[q]
        /\ truth'[scope[t]].last = truth[scope[t]].last
        /\ truth'[scope[t]].raised = issued[t]
        /\ truth'[scope[t]].redirected = truth[scope[t]].redirected
        /\ truth'[scope[t]].followed = truth[scope[t]].followed
    BY <1>2, <1>3, <2>2 DEF Truth
  <2> HIDE DEF rs
  <2> QED
    BY <1>1, <2>2, <2>3, <2>4, <2>5, LeaveInv
<1> QED
  BY <1>5, <1>6

\* The backoff ends.
LEMMA RetryInv ==
    ASSUME TraceIInv, NEW t \in Tasks, Retry(t)
    PROVE  TraceIInv'
<1>1. stage[t] = "backoff" /\ InCall(t) /\ TraceTypeOK
  BY DEF Retry, InCall, TraceIInv
<1>2. /\ scope[t] \in Scopes /\ scope[t] \notin finished
      /\ writers[scope[t]] \subseteq {scope[t]}
      /\ PlaceInv(t) /\ BudgetInv(t) /\ StoryInv(t)
  BY <1>1, CallFacts
<1>3. /\ stage' = [stage EXCEPT ![t] = "between"]
      /\ alive' = alive /\ context' = context /\ results' = results
      /\ used' = used /\ scope' = scope /\ tracing' = tracing
      /\ event' = event /\ hop' = hop /\ attempt' = attempt
      /\ issued' = issued /\ reported' = reported /\ finished' = finished
      /\ writers' = writers /\ truth' = truth
  BY DEF Retry, locals
<1>4. stage'[t] = "between"
  BY <1>1, <1>3 DEF TraceTypeOK
<1>5. InCall(t)' /\ \A v \in Tasks \ {t} : Kept(v)
  BY <1>1, <1>3, <1>4 DEF InCall, Kept, TraceTypeOK
<1>6. TraceTypeOK'
  BY <1>1, <1>3 DEF TraceTypeOK
<1>7. PlaceInv(t)'
  BY <1>1, <1>2, <1>3, <1>4, <1>5 DEF PlaceInv
<1>8. BudgetInv(t)'
  BY <1>1, <1>2, <1>3, <1>4 DEF BudgetInv
<1>9. StoryInv(t)'
  BY <1>1, <1>2, <1>3, <1>4 DEF StoryInv
<1>10. TaskInv(t)'
  BY <1>7, <1>8, <1>9 DEF TaskInv
<1> QED
  BY <1>1, <1>2, <1>3, <1>5, <1>6, <1>10, CallStep

\* A step of the caller's own request, on the mapping c of its context.
LEMMA DirectStep ==
    ASSUME TraceIInv, NEW t \in Tasks, ~InCall(t), ~InCall(t)', t \in alive,
           NEW c \in Scopes, c <= used',
           \A v \in Tasks : InCall(v) => scope[v] # c,
           used' \in Nat, used <= used', used' <= MaxScopes,
           alive' = alive, scope' = scope, event' = event, hop' = hop,
           attempt' = attempt, issued' = issued, reported' = reported,
           finished' = finished, truth' = truth,
           \A v \in Tasks \ {t} : Kept(v),
           context'[t] \in {context[t], c}, tracing'[t] \in {None, c},
           stage'[t] = "direct" => tracing'[t] = c,
           \A q \in Scopes \ {c} :
               results'[q] = results[q] /\ writers'[q] = writers[q],
           writers'[c] = writers[c] \cup {None},
           TraceTypeOK'
    PROVE  TraceIInv'
<1>1. TraceTypeOK /\ OwnEventsOnly /\ TraceComplete /\ Apart /\ UnboundInv
  BY DEF TraceIInv
<1>2. used \in Nat /\ MaxScopes \in Nat /\ None = 0 /\ c \in 1 .. used'
  BY TraceTypes DEF Scopes
<1>3. OwnEventsOnly'
  <2>1. ASSUME NEW q \in Scopes, NEW e \in 1 .. used', e \in writers'[q]
        PROVE  e = q
    <3>1. e \in writers[q]
      BY <1>2, <2>1
    <3>2. writers[q] \subseteq 0 .. used
      BY <1>1 DEF TraceTypeOK
    <3>3. e \in 1 .. used
      BY <1>2, <3>1, <3>2
    <3> QED
      BY <1>1, <3>1, <3>3 DEF OwnEventsOnly
  <2> QED
    BY <2>1 DEF OwnEventsOnly
<1>4. TraceComplete'
  <2>1. ASSUME NEW q \in finished', None \notin writers'[q]
        PROVE  /\ results'[q].start = truth'[q].last
               /\ results'[q].exception = truth'[q].raised
               /\ results'[q].redirect = truth'[q].redirected
               /\ results'[q].isRedirect = truth'[q].followed
    <3>1. q \in finished /\ q \in Scopes \ {c}
      BY <1>1, <1>2, <2>1, TraceTypes DEF TraceTypeOK, Scopes
    <3>2. /\ results'[q] = results[q] /\ truth'[q] = truth[q]
          /\ writers'[q] = writers[q]
      BY <3>1
    <3> QED
      BY <2>1, <3>1, <3>2, FinishedMapping
  <2> QED
    BY <2>1 DEF TraceComplete
<1>5. \A v \in Tasks : InCall(v)' <=> InCall(v)
  BY DEF InCall, Kept
<1>6. Apart'
  <2>1. ASSUME NEW v \in Tasks, NEW w \in Tasks, InCall(v)', v # w
        PROVE  context'[w] # scope'[v] /\ tracing'[w] # scope'[v]
    <3>1. InCall(v) /\ v # t /\ scope[v] # c /\ scope[v] # None
      BY <1>5, <2>1, TraceTypes
    <3>2. context[w] # scope[v] /\ tracing[w] # scope[v]
      BY <1>1, <2>1, <3>1 DEF Apart
    <3> QED
      BY <3>1, <3>2 DEF Kept
  <2> QED
    BY <2>1 DEF Apart
<1>7. UnboundInv'
  BY <1>1, <1>2 DEF UnboundInv, Scopes
<1>8. ASSUME NEW v \in Tasks \ {t}
      PROVE  TaskInv(v)'
  <2>1. InCall(v) => /\ scope[v] \notin finished
                     /\ scope[v] \in Scopes \ {c}
    BY TraceTypes DEF TraceIInv, TaskInv, PlaceInv
  <2>2. \A q \in Scopes : writers[q] \subseteq writers'[q]
    OBVIOUS
  <2> QED
    BY <2>1, <2>2, OtherTask
<1>9. TaskInv(t)'
  <2>1. issued[t] = 0 /\ event[t] = 0 /\ hop[t] = 0
    BY DEF TraceIInv, TaskInv, PlaceInv
  <2>2. PlaceInv(t)'
    BY <1>2, <2>1 DEF PlaceInv, InCall
  <2> QED
    BY <2>2 DEF TaskInv, BudgetInv, StoryInv
<1> QED
  BY <1>3, <1>4, <1>6, <1>7, <1>8, <1>9 DEF TraceIInv

\* The caller's own request starts, in a mapping bound to its task.
LEMMA DirectStartInv ==
    ASSUME TraceIInv, NEW t \in Tasks, DirectStart(t)
    PROVE  TraceIInv'
<1> DEFINE c == Current(t)
<1>1. TraceTypeOK /\ Apart /\ t \in alive /\ stage[t] = "idle" /\ ~InCall(t)
  BY DEF TraceIInv, DirectStart, InCall
<1>2. /\ used \in Nat /\ used <= MaxScopes /\ MaxScopes \in Nat /\ None = 0
      /\ context[t] \in 0 .. used /\ c <= MaxScopes
  BY <1>1, TraceTypes DEF TraceTypeOK, DirectStart
<1>3. /\ c \in Nat /\ c > 0 /\ c <= used' /\ used' \in Nat /\ used <= used'
      /\ used' <= MaxScopes /\ context'[t] \in {context[t], c}
      /\ context' \in [Tasks -> 0 .. used']
      /\ \A v \in Tasks \ {t} : context'[v] = context[v]
  <2>1. CASE context[t] = None
    <3>1. c = used + 1 /\ used' = c /\ context' = [context EXCEPT ![t] = c]
      BY <2>1 DEF DirectStart, Touch, Current, VarSet
    <3> HIDE DEF c
    <3>2. context \in [Tasks -> 0 .. used']
      BY <1>1, <1>2, <3>1 DEF TraceTypeOK
    <3>3. c \in 0 .. used'
      BY <1>2, <3>1
    <3> QED
      BY <1>2, <3>1, <3>2, <3>3
  <2>2. CASE context[t] # None
    <3>1. c = context[t] /\ used' = used /\ context' = context
      BY <2>2 DEF DirectStart, Touch, Current
    <3> QED
      BY <1>1, <1>2, <2>2, <3>1 DEF TraceTypeOK
  <2> QED
    BY <2>1, <2>2
<1>4. c \in Scopes /\ c \in 0 .. used'
  BY <1>2, <1>3 DEF Scopes
<1>5. /\ results' = [results EXCEPT ![c] = Started(results[c], 1)]
      /\ tracing' = [tracing EXCEPT ![t] = c]
      /\ writers' = [writers EXCEPT ![c] = writers[c] \cup {None}]
      /\ stage' = [stage EXCEPT ![t] = "direct"]
      /\ alive' = alive /\ scope' = scope /\ event' = event /\ hop' = hop
      /\ attempt' = attempt /\ issued' = issued /\ reported' = reported
      /\ finished' = finished /\ truth' = truth
  BY DEF DirectStart
<1>6. \A v \in Tasks : InCall(v) => scope[v] # c
  <2>1. ASSUME NEW v \in Tasks, InCall(v)
        PROVE  scope[v] # c
    <3>1. scope[v] # context[t] /\ scope[v] \in 1 .. used
      BY <1>1, <2>1, TraceTypes DEF Apart
    <3>2. c = used + 1 \/ c = context[t]
      BY DEF Current
    <3> QED
      BY <1>2, <3>1, <3>2
  <2> QED
    BY <2>1
<1> HIDE DEF c
<1>7. /\ results' \in [Scopes -> Mapping]
      /\ \A q \in Scopes \ {c} :
            results'[q] = results[q] /\ writers'[q] = writers[q]
      /\ writers'[c] = writers[c] \cup {None}
  <2>1. Started(results[c], 1) \in Mapping
    BY <1>4, FirstRequests, TraceTypes, CallMapping
  <2>2. writers \in [Scopes -> SUBSET (0 .. used)]
    BY <1>1 DEF TraceTypeOK
  <2> QED
    BY <1>4, <1>5, <2>1, <2>2, TraceTypes
<1>8. stage'[t] = "direct" /\ tracing'[t] = c
  BY <1>1, <1>5 DEF TraceTypeOK
<1>9. ~InCall(t)' /\ \A v \in Tasks \ {t} : Kept(v)
  BY <1>1, <1>3, <1>5, <1>8 DEF InCall, Kept, TraceTypeOK
<1>10. TraceTypeOK'
  <2>1. /\ 0 .. used \subseteq 0 .. used' /\ 1 .. used \subseteq 1 .. used'
        /\ None \in 0 .. used' /\ used' \in 0 .. MaxScopes
    BY <1>2, <1>3
  <2>2. writers' \in [Scopes -> SUBSET (0 .. used')]
    BY <1>1, <1>4, <1>5, <2>1 DEF TraceTypeOK
  <2>3. tracing' \in [Tasks -> 0 .. used'] /\ scope' \in [Tasks -> 0 .. used']
        /\ reported' \cup finished' \subseteq 1 .. used'
    BY <1>1, <1>4, <1>5, <2>1 DEF TraceTypeOK
  <2> QED
    BY <1>1, <1>3, <1>5, <1>7, <2>1, <2>2, <2>3 DEF TraceTypeOK, Mapping
<1> QED
  BY <1>1, <1>3, <1>4, <1>5, <1>6, <1>7, <1>8, <1>9, <1>10, DirectStep

\* ... and ends, in the mapping it started in.
LEMMA DirectEndInv ==
    ASSUME TraceIInv, NEW t \in Tasks, DirectEnd(t)
    PROVE  TraceIInv'
<1> DEFINE c == tracing[t]
<1>1. TraceTypeOK /\ Apart /\ stage[t] = "direct" /\ ~InCall(t)
  BY DEF TraceIInv, DirectEnd, InCall
<1>2. t \in alive /\ c \in 1 .. used /\ None \in writers[c]
  BY <1>1 DEF TraceIInv, TaskInv, PlaceInv
<1>3. used \in Nat /\ used <= MaxScopes /\ MaxScopes \in Nat /\ c \in Scopes
  BY <1>2, TraceTypes DEF Scopes
<1>4. PICK r \in {results[c], Raised(results[c])} :
        results' = [results EXCEPT ![c] = r]
  BY DEF DirectEnd
<1>5. /\ tracing' = [tracing EXCEPT ![t] = None]
      /\ stage' = [stage EXCEPT ![t] = "idle"]
      /\ alive' = alive /\ context' = context /\ used' = used
      /\ scope' = scope /\ event' = event /\ hop' = hop
      /\ attempt' = attempt /\ issued' = issued /\ reported' = reported
      /\ finished' = finished /\ writers' = writers /\ truth' = truth
  BY DEF DirectEnd
<1>6. /\ results' \in [Scopes -> Mapping]
      /\ \A q \in Scopes \ {c} : results'[q] = results[q]
  <2>1. results[c] \in Mapping
    BY <1>3, TraceTypes
  <2>2. Raised(results[c]) \in Mapping
    BY <2>1 DEF Raised, Mapping
  <2> QED
    BY <1>3, <1>4, <2>1, <2>2, TraceTypes
<1>7. stage'[t] = "idle" /\ tracing'[t] = None
  BY <1>1, <1>5 DEF TraceTypeOK
<1>8. ~InCall(t)' /\ \A v \in Tasks \ {t} : Kept(v)
  BY <1>1, <1>5, <1>7 DEF InCall, Kept, TraceTypeOK
<1>9. TraceTypeOK'
  BY <1>1, <1>3, <1>5, <1>6, TraceTypes DEF TraceTypeOK, Mapping
<1>10. \A v \in Tasks : InCall(v) => scope[v] # c
  BY <1>1 DEF Apart
<1>11. writers'[c] = writers[c] \cup {None}
  BY <1>2, <1>5
<1>12. /\ c <= used' /\ used' \in Nat /\ used <= used' /\ used' <= MaxScopes
       /\ context'[t] \in {context[t], c} /\ stage'[t] # "direct"
  BY <1>2, <1>3, <1>5, <1>7
<1> HIDE DEF c
<1> QED
  BY <1>1, <1>2, <1>3, <1>5, <1>6, <1>7, <1>8, <1>9, <1>10, <1>11, <1>12,
     DirectStep

\* A step that changes nothing.
LEMMA TraceStutterInv ==
    ASSUME TraceIInv, UNCHANGED traceVars
    PROVE  TraceIInv'
  BY DEF TraceIInv, traceVars, TraceTypeOK, OwnEventsOnly, TraceComplete, Apart,
         UnboundInv, TaskInv, PlaceInv, BudgetInv, StoryInv, InCall

\* The invariant of the tracer's contexts and mappings.
THEOREM TraceInvariance == TraceSpec => []TraceIInv
<1>1. TraceInit => TraceIInv
  BY TraceInitInv
<1>2. TraceIInv /\ [TraceNext]_traceVars => TraceIInv'
  <2> SUFFICES ASSUME TraceIInv, [TraceNext]_traceVars
               PROVE  TraceIInv'
    OBVIOUS
  <2>1. ASSUME NEW t \in Tasks, NEW u \in Tasks, Spawn(t, u)
        PROVE  TraceIInv'
    BY <2>1, SpawnInv
  <2>2. ASSUME NEW t \in Tasks, NEW owned \in BOOLEAN, HandleRequest(t, owned)
        PROVE  TraceIInv'
    BY <2>2, HandleRequestInv
  <2>3. ASSUME NEW t \in Tasks, Issue(t)
        PROVE  TraceIInv'
    BY <2>3, IssueInv
  <2>4. ASSUME NEW t \in Tasks, Follow(t)
        PROVE  TraceIInv'
    BY <2>4, FollowInv
  <2>5. ASSUME NEW t \in Tasks,
               \/ Answered(t)
               \/ \E retriable \in BOOLEAN :
                     Raises(t, retriable) \/ Stopped(t, retriable)
        PROVE  TraceIInv'
    BY <2>5, EndingsInv
  <2>6. ASSUME NEW t \in Tasks, Retry(t)
        PROVE  TraceIInv'
    BY <2>6, RetryInv
  <2>7. ASSUME NEW t \in Tasks, DirectStart(t)
        PROVE  TraceIInv'
    BY <2>7, DirectStartInv
  <2>8. ASSUME NEW t \in Tasks, DirectEnd(t)
        PROVE  TraceIInv'
    BY <2>8, DirectEndInv
  <2>9. CASE UNCHANGED traceVars
    BY <2>9, TraceStutterInv
  <2> QED
    BY <2>1, <2>2, <2>3, <2>4, <2>5, <2>6, <2>7, <2>8, <2>9 DEF TraceNext
<1> QED
  BY <1>1, <1>2, PTL DEF TraceSpec

\* However tasks inherit each other's context, a call's mapping holds that
\* call's events, all of them and no other's.
THEOREM SpecTrace == TraceSpec => []TraceInv
<1>1. TraceIInv => TraceInv
  BY DEF TraceIInv, TraceInv
<1> QED
  BY <1>1, TraceInvariance, PTL

\* The trace of an envelope stays as its call left it: only a request the
\* caller makes itself, outside the gateway, writes to it again.
THEOREM SpecEnvelopeKept == TraceSpec => EnvelopeKept
<1> DEFINE KeptStep == \A s \in reported \cap finished :
              results'[s] # results[s]
                 => \E t \in Tasks :
                       /\ s \in {tracing[t], tracing'[t]}
                       /\ "direct" \in {stage[t], stage'[t]}
<1>1. TraceIInv /\ [TraceNext]_traceVars => [KeptStep]_traceVars
  <2> SUFFICES ASSUME TraceIInv, TraceNext,
                      NEW s \in finished, results'[s] # results[s]
               PROVE  \E t \in Tasks : /\ s \in {tracing[t], tracing'[t]}
                                       /\ "direct" \in {stage[t], stage'[t]}
    OBVIOUS
  <2>1. s \in Scopes /\ TraceTypeOK
    BY TraceTypes DEF TraceIInv, TraceTypeOK, Scopes
  <2>2. ASSUME NEW t \in Tasks, InCall(t)
        PROVE  scope[t] # s /\ (stage[t] = "inflight" => tracing[t] # s)
               /\ Current(t) # s
    BY <2>2, CallFacts DEF Current, PlaceInv
  <2>3. ASSUME NEW t \in Tasks, Issue(t)
        PROVE  FALSE
    <3>1. /\ InCall(t)
          /\ results' = [results EXCEPT
                            ![Current(t)] = Started(@, issued[t] + 1)]
      BY <2>3 DEF Issue, InCall, Tracing
    <3> QED
      BY <2>1, <2>2, <3>1 DEF TraceTypeOK
  <2>4. ASSUME NEW t \in Tasks,
               \/ Answered(t)
               \/ \E retriable \in BOOLEAN :
                     Raises(t, retriable) \/ Stopped(t, retriable)
        PROVE  FALSE
    <3>1. InCall(t)
      BY <2>4 DEF Answered, Stopped, Raises, InCall
    <3>2. CASE Answered(t) \/ \E retriable \in BOOLEAN : Stopped(t, retriable)
      <4>1. results' = [results EXCEPT ![scope[t]] = RecordRedirect(@, event[t])]
        BY <3>2 DEF Answered, Stopped, Leave
      <4> QED
        BY <2>1, <2>2, <3>1, <4>1 DEF TraceTypeOK
    <3>3. CASE \E retriable \in BOOLEAN : Raises(t, retriable)
      <4>1. /\ stage[t] = "inflight"
            /\ results' = [[results EXCEPT ![tracing[t]] = Raised(@)]
                             EXCEPT ![scope[t]] = RecordRedirect(@, event[t])]
        BY <3>3 DEF Raises, Leave
      <4> QED
        BY <2>1, <2>2, <3>1, <4>1 DEF TraceTypeOK
    <3> QED
      BY <2>4, <3>2, <3>3
  <2>5. ASSUME NEW t \in Tasks, DirectStart(t)
        PROVE  tracing'[t] = s /\ stage'[t] = "direct"
    BY <2>1, <2>5 DEF DirectStart, TraceTypeOK
  <2>6. ASSUME NEW t \in Tasks, DirectEnd(t)
        PROVE  tracing[t] = s /\ stage[t] = "direct"
    BY <2>1, <2>6 DEF DirectEnd, TraceTypeOK
  <2>7. \E t \in Tasks :
           \/ Issue(t) \/ DirectStart(t) \/ DirectEnd(t)
           \/ Answered(t)
           \/ \E retriable \in BOOLEAN :
                 Raises(t, retriable) \/ Stopped(t, retriable)
    BY DEF TraceNext, Spawn, HandleRequest, Follow, Retry
  <2> QED
    BY <2>3, <2>4, <2>5, <2>6, <2>7
<1> QED
  BY <1>1, TraceInvariance, PTL DEF TraceSpec, EnvelopeKept
=============================================================================
