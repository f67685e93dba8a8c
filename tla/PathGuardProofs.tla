-------------------------- MODULE PathGuardProofs ---------------------------
(***************************************************************************)
(* Proofs about PathGuard, for every length of a body, every limit and     *)
(* every number of changes and cancellations.                              *)
(***************************************************************************)
EXTENDS PathGuard, FiniteSetTheorems, TLAPS

-----------------------------------------------------------------------------
(* The inductive invariant.                                                *)

Unopened == {"resolve", "request", "walk", "open"}
Accepted == {"truncate", "opened", "stream", "close", "discard"}
Removing == {"unlink", "classify"}
Places == Unopened \cup {"check", "ended"} \cup Accepted \cup Removing
Failures == {None, "config", "local", "network", "tooLarge", "cancelled"}
Results == Failures \cup {"ok", "containment"}

Types ==
    /\ dir \in {"directory", "link"}
    /\ leaf \in [{"in", "out"} -> Inodes \cup {None}]
    /\ data \in [Regular -> Int]
    /\ moves \in Nat
    /\ via \in {"caller", "contained"}
    /\ pc \in [Procs -> Places]
    /\ target \in [Procs -> {None, "in", "out"}]
    /\ parents \in [Procs -> {None, "in", "out"}]
    /\ file \in [Procs -> Inodes \cup {None}]
    /\ held \subseteq Procs
    /\ count \in [Procs -> 0..Blocks]
    /\ failure \in [Procs -> Failures]
    /\ gone \subseteq Procs
    /\ cancels \in [Procs -> Nat]
    /\ result \in [Procs -> Results]

\* What a call holds, and which file it works on, follows from where it is.
PlaceInv(p) ==
    /\ pc[p] # "ended" => result[p] = None
    /\ p \in held <=> pc[p] \in {"check"} \cup Accepted
    /\ parents[p] = (IF pc[p] = "open" THEN target[p] ELSE None)
    /\ pc[p] \notin {"resolve", "ended"} => target[p] # None
    /\ pc[p] \in Unopened => file[p] = None /\ count[p] = 0
    /\ pc[p] \notin Unopened \cup {"ended"} => file[p] # None
    /\ pc[p] \in Accepted \cup Removing => file[p] \in Regular
    /\ file[p] # None => target[p] # None
    /\ p = "reader" =>
         pc[p] \in (Unopened \ {"request"})
                     \cup {"check", "opened", "stream", "close", "ended"}
    /\ p = "writer" /\ pc[p] \in {"request", "close", "discard"} \cup Removing
         => via = "caller"

\* A failure belongs to the cleanup, and a cancellation that has been asked for
\* is pending or is what is being raised.
CancelInv(p) ==
    /\ pc[p] \in Unopened \cup {"check", "truncate", "opened", "stream"}
         => failure[p] = None
    /\ p = "writer" /\ pc[p] = "close" => failure[p] = None
    /\ p = "reader" => failure[p] \in {None, "config", "local", "cancelled"}
    /\ cancels[p] > 0 /\ pc[p] # "ended"
         => p \in gone \/ failure[p] = "cancelled"
    /\ p \in gone => pc[p] \notin {"resolve", "request"}
    /\ "writer" \in gone => pc["writer"] \notin {"stream", "close", "discard"}
    /\ "writer" \in gone /\ pc["writer"] \notin Removing \cup {"ended"} => left

\* A file differs from what it was only by the writer's own blocks, and those
\* are counted.
DataInv ==
    /\ \A i \in Regular :
         data[i] # Before =>
            /\ file["writer"] = i
            /\ 0 <= data[i] /\ data[i] <= Limit /\ data[i] <= Blocks
            /\ i # "new" => pc["writer"] \notin {"check", "truncate"}
    /\ file["writer"] = "new" => data["new"] # Before
    /\ pc["writer"] \in {"check", "truncate"} => count["writer"] = 0
    /\ pc["writer"] \in {"check", "truncate"} /\ file["writer"] = "new"
         => data["new"] = 0
    /\ pc["writer"] \in {"opened", "stream"}
         => data[file["writer"]] = count["writer"]
    /\ pc["writer"] = "opened" => count["writer"] = 0
    /\ pc["reader"] \in {"check", "opened"} => count["reader"] = 0
    /\ pc["reader"] = "stream" => count["reader"] <= Limit
    /\ pc["reader"] = "close" /\ failure["reader"] = None
         => count["reader"] <= Limit

\* Until the writer unlinks, "theirs" keeps its name outside, so that a name
\* inside makes two; the writer that went past the count of names on a file
\* from outside did so because the name inside had gone.
NamesInv ==
    /\ pc["writer"] \notin {"classify", "ended"} => leaf["out"] = "theirs"
    /\ pc["writer"] \in Unopened => "new" \notin {leaf["in"], leaf["out"]}
    /\ target["writer"] = "in" /\ file["writer"] = "theirs" /\ ~withdrawn
         => /\ pc["writer"] = "check" => leaf["in"] = "theirs"
            /\ pc["writer"] \notin Accepted \cup Removing

\* An exclusive writer only ever has the file it created; while nobody
\* exchanges names the resolved path leads to it.
OwnInv ==
    /\ ~overwrite => file["writer"] \in {None, "new"}
    /\ moves = 0 /\ target["writer"] # None
         => Reached(target["writer"]) = target["writer"]
    /\ ~overwrite /\ moves = 0
       /\ pc["writer"] \in {"check", "unlink"} \cup Accepted
         => leaf[target["writer"]] = "new"

\* The name is free once the writer has unlinked it, and nobody gives it back.
RemovedInv ==
    /\ pc["writer"] \in {"classify", "ended"}
    /\ pc["writer"] = "ended" => result["writer"] # "ok"
    /\ via = "caller" /\ ~left /\ ~withdrawn
    /\ file["writer"] \in Regular /\ data[file["writer"]] # Before
    => leaf[target["writer"]] # file["writer"]

Inv == /\ Types /\ DataInv /\ NamesInv /\ OwnInv /\ RemovedInv
       /\ \A p \in Procs : PlaceInv(p) /\ CancelInv(p)
       /\ OutsideUntouched /\ LimitHolds /\ CancellationSeen
-----------------------------------------------------------------------------
(* One lemma per action.                                                   *)

USE NumbersAssumption DEF Unopened, Accepted, Removing, Places, Failures,
    Results, None, Before, Procs, Regular, Inodes
USE DEF Inv, Types, Go, Raise, End, tree, options, descriptors

\* A file with both names has two links.
LEMMA TwoNames ==
    ASSUME NEW i, leaf["in"] = i, leaf["out"] = i
    PROVE  Links(i) = 2
<1>1. {d \in {"in", "out"} : leaf[d] = i} = {"in"} \cup {"out"}
  OBVIOUS
<1>2. IsFiniteSet({"in"}) /\ Cardinality({"in"}) = 1
  BY FS_Singleton
<1>3. Cardinality({"in"} \cup {"out"}) = Cardinality({"in"}) + 1
  BY <1>2, FS_AddElement
<1> QED  BY <1>1, <1>2, <1>3 DEF Links

\* The path is resolved once, before there is a file.
LEMMA ResolveInv ==
    ASSUME Inv, NEW p \in Procs, Resolve(p)
    PROVE  Inv'
<1>1. Types'
  BY DEF Resolve, Reached
<1>2. \A q \in Procs : PlaceInv(q)'
  BY DEF PlaceInv, DataInv, Resolve, Reached
<1>3. \A q \in Procs : CancelInv(q)'
  BY DEF PlaceInv, CancelInv, Resolve, Reached
<1>4. DataInv'
  BY DEF PlaceInv, CancelInv, DataInv, OwnInv, NamesInv, Resolve, Reached
<1>5. NamesInv'
  BY DEF PlaceInv, NamesInv, Resolve, Reached
<1>6. OwnInv'
  BY DEF PlaceInv, NamesInv, OwnInv, Resolve, Reached, Exclusive
<1>7. RemovedInv'
  BY DEF PlaceInv, CancelInv, DataInv, NamesInv, RemovedInv,
     OutsideUntouched, Resolve, Reached
<1>8. OutsideUntouched'
  BY DEF PlaceInv, DataInv, NamesInv, OutsideUntouched, Resolve, Reached
<1>9. LimitHolds'
  BY <1>4 DEF PlaceInv, CancelInv, DataInv, LimitHolds, Resolve, Reached
<1>10. CancellationSeen'
  BY DEF PlaceInv, CancelInv, CancellationSeen, Resolve, Reached
<1> QED  BY <1>1, <1>2, <1>3, <1>4, <1>5, <1>6, <1>7, <1>8, <1>9,
         <1>10

\* A refused answer ends the writer before it opens anything.
LEMMA RequestInv ==
    ASSUME Inv, Request
    PROVE  Inv'
<1>1. Types'
  BY DEF Request
<1>2. \A q \in Procs : PlaceInv(q)' /\ CancelInv(q)'
  BY DEF PlaceInv, CancelInv, DataInv, Request
<1>3. DataInv' /\ NamesInv' /\ OwnInv'
  BY DEF PlaceInv, CancelInv, DataInv, NamesInv, OwnInv, Reached, Request
<1>4. OutsideUntouched' /\ LimitHolds'
  BY DEF DataInv, OutsideUntouched, LimitHolds, CancelInv, Request
<1>5. RemovedInv' /\ CancellationSeen'
  BY DEF PlaceInv, CancelInv, RemovedInv, CancellationSeen, Request
<1> QED  BY <1>1, <1>2, <1>3, <1>4, <1>5

\* The walk to the parent opens the directory that was resolved.
LEMMA WalkInv ==
    ASSUME Inv, NEW p \in Procs, Walk(p)
    PROVE  Inv'
<1>1. Types'
  BY DEF Walk
<1>2. \A q \in Procs : PlaceInv(q)' /\ CancelInv(q)'
  BY DEF PlaceInv, CancelInv, DataInv, Walk, Reached
<1>3. DataInv' /\ NamesInv' /\ OwnInv'
  BY DEF PlaceInv, CancelInv, DataInv, NamesInv, OwnInv, Reached, Walk
<1>4. OutsideUntouched' /\ LimitHolds'
  BY DEF DataInv, OutsideUntouched, LimitHolds, CancelInv, Walk
<1>5. RemovedInv' /\ CancellationSeen'
  BY DEF PlaceInv, CancelInv, RemovedInv, CancellationSeen, Walk
<1> QED  BY <1>1, <1>2, <1>3, <1>4, <1>5

\* A new file is made under a free name; an old one is not yet changed.
LEMMA OpenLeafInv ==
    ASSUME Inv, NEW p \in Procs, NEW i \in Inodes \cup {None}, OpenLeaf(p, i)
    PROVE  Inv'
<1>1. Types'
  <2>1. /\ pc' \in [Procs -> Places]
        /\ failure' \in [Procs -> Failures]
        /\ result' \in [Procs -> Results]
    BY DEF OpenLeaf, Exclusive
  <2>2. /\ leaf' \in [{"in", "out"} -> Inodes \cup {None}]
        /\ data' \in [Regular -> Int]
    BY DEF OpenLeaf, Exclusive
  <2>3. parents' \in [Procs -> {None, "in", "out"}]
    BY DEF OpenLeaf
  <2>4. file' \in [Procs -> Inodes \cup {None}]
    BY DEF OpenLeaf
  <2>5. held' \subseteq Procs
    BY DEF OpenLeaf
  <2> QED  BY <2>1, <2>2, <2>3, <2>4, <2>5 DEF OpenLeaf, Exclusive
<1>2. \A q \in Procs : PlaceInv(q)'
  BY DEF PlaceInv, DataInv, OpenLeaf, Exclusive
<1>3. \A q \in Procs : CancelInv(q)'
  BY DEF PlaceInv, CancelInv, OpenLeaf, Exclusive
<1>4. DataInv'
  BY DEF PlaceInv, CancelInv, DataInv, OwnInv, NamesInv, OpenLeaf, Exclusive
<1>5. NamesInv'
  BY DEF PlaceInv, NamesInv, OpenLeaf, Exclusive
<1>6. OwnInv'
  BY DEF PlaceInv, NamesInv, OwnInv, OpenLeaf, Exclusive, Reached
<1>7. RemovedInv'
  BY DEF PlaceInv, CancelInv, DataInv, NamesInv, RemovedInv,
     OutsideUntouched, OpenLeaf, Exclusive
<1>8. OutsideUntouched'
  BY DEF PlaceInv, DataInv, NamesInv, OutsideUntouched, OpenLeaf, Exclusive
<1>9. LimitHolds'
  BY <1>4 DEF PlaceInv, CancelInv, DataInv, LimitHolds, OpenLeaf, Exclusive
<1>10. CancellationSeen'
  BY DEF PlaceInv, CancelInv, CancellationSeen, OpenLeaf, Exclusive
<1> QED  BY <1>1, <1>2, <1>3, <1>4, <1>5, <1>6, <1>7, <1>8, <1>9,
         <1>10

\* A file with a name outside has two names, so that the check refuses it
\* unless the name inside has gone since.
LEMMA CheckInv ==
    ASSUME Inv, NEW p \in Procs, Check(p)
    PROVE  Inv'
<1>1. Types'
  <2>1. /\ pc' \in [Procs -> Places]
        /\ failure' \in [Procs -> Failures]
        /\ result' \in [Procs -> Results]
    BY DEF Check
  <2>2. /\ leaf' \in [{"in", "out"} -> Inodes \cup {None}]
        /\ data' \in [Regular -> Int]
    BY DEF Check
  <2>3. /\ parents' \in [Procs -> {None, "in", "out"}]
        /\ file' \in [Procs -> Inodes \cup {None}]
        /\ held' \subseteq Procs
    BY DEF Check
  <2> QED  BY <2>1, <2>2, <2>3 DEF Check
<1>2. \A q \in Procs : PlaceInv(q)'
  BY DEF PlaceInv, DataInv, Check, Acceptable
<1>3. \A q \in Procs : CancelInv(q)'
  <2>1. left => left'
    BY DEF Check
  <2>2. /\ pc[p] = "check" /\ UNCHANGED <<gone, cancels, failure>>
        /\ \E next \in {"truncate", "opened", "ended"} :
             pc' = [pc EXCEPT ![p] = next]
    BY DEF Check
  <2> QED  BY <2>1, <2>2 DEF CancelInv
<1>4. DataInv'
  BY DEF PlaceInv, CancelInv, DataInv, OwnInv, NamesInv, Check, Acceptable
<1>5. NamesInv'
  BY TwoNames DEF PlaceInv, NamesInv, Check, Acceptable
<1>6. OwnInv'
  BY DEF PlaceInv, NamesInv, OwnInv, Check, Acceptable, Reached, Exclusive
<1>7. RemovedInv'
  BY DEF PlaceInv, CancelInv, DataInv, NamesInv, RemovedInv,
     OutsideUntouched, Check, Acceptable
<1>8. OutsideUntouched'
  BY DEF PlaceInv, DataInv, NamesInv, OutsideUntouched, Check, Acceptable
<1>9. LimitHolds'
  BY <1>4 DEF PlaceInv, CancelInv, DataInv, LimitHolds, Check, Acceptable
<1>10. CancellationSeen'
  <2>1. \/ pc'[p] # "ended" /\ UNCHANGED result
        \/ p \in gone /\ result'[p] = "cancelled"
        \/ p \notin gone
    BY DEF Check
  <2>2. \A q \in Procs \ {p} : pc'[q] = pc[q] /\ result'[q] = result[q]
    BY DEF Check
  <2>3. p \notin gone => cancels[p] = 0
    BY DEF Check, CancelInv
  <2>4. left => left'
    BY DEF Check
  <2>5. UNCHANGED <<failure, cancels>>
    BY DEF Check
  <2> QED  BY <2>1, <2>2, <2>3, <2>4, <2>5 DEF CancellationSeen
<1> QED  BY <1>1, <1>2, <1>3, <1>4, <1>5, <1>6, <1>7, <1>8, <1>9,
         <1>10

\* What is emptied has passed the check.
LEMMA TruncateInv ==
    ASSUME Inv, NEW ok \in BOOLEAN, Truncate(ok)
    PROVE  Inv'
<1>1. Types'
  <2>1. /\ pc' \in [Procs -> Places]
        /\ failure' \in [Procs -> Failures]
        /\ result' \in [Procs -> Results]
    BY DEF Truncate, Exclusive
  <2>2. /\ leaf' \in [{"in", "out"} -> Inodes \cup {None}]
        /\ data' \in [Regular -> Int]
    BY DEF Truncate, Exclusive
  <2>3. /\ parents' \in [Procs -> {None, "in", "out"}]
        /\ file' \in [Procs -> Inodes \cup {None}]
        /\ held' \subseteq Procs
    BY DEF Truncate, Exclusive
  <2> QED  BY <2>1, <2>2, <2>3 DEF Truncate, Exclusive
<1>2. \A q \in Procs : PlaceInv(q)'
  BY DEF PlaceInv, DataInv, Truncate, Exclusive
<1>3. \A q \in Procs : CancelInv(q)'
  BY DEF PlaceInv, CancelInv, Truncate, Exclusive
<1>4. DataInv'
  BY DEF PlaceInv, CancelInv, DataInv, OwnInv, NamesInv, Truncate, Exclusive
<1>5. NamesInv'
  BY DEF PlaceInv, NamesInv, Truncate, Exclusive
<1>6. OwnInv'
  BY DEF PlaceInv, NamesInv, OwnInv, Truncate, Exclusive, Reached
<1>7. RemovedInv'
  BY DEF PlaceInv, CancelInv, DataInv, NamesInv, RemovedInv,
     OutsideUntouched, Truncate, Exclusive
<1>8. OutsideUntouched'
  BY DEF PlaceInv, DataInv, NamesInv, OutsideUntouched, Truncate, Exclusive
<1>9. LimitHolds'
  BY <1>4 DEF PlaceInv, CancelInv, DataInv, LimitHolds, Truncate, Exclusive
<1>10. CancellationSeen'
  BY DEF PlaceInv, CancelInv, CancellationSeen, Truncate, Exclusive
<1> QED  BY <1>1, <1>2, <1>3, <1>4, <1>5, <1>6, <1>7, <1>8, <1>9,
         <1>10

\* A descriptor that nobody will use is closed.
LEMMA OpenedInv ==
    ASSUME Inv, NEW p \in Procs, Opened(p)
    PROVE  Inv'
<1>1. Types'
  <2>1. /\ pc' \in [Procs -> Places]
        /\ failure' \in [Procs -> Failures]
        /\ result' \in [Procs -> Results]
    BY DEF Opened
  <2>2. /\ leaf' \in [{"in", "out"} -> Inodes \cup {None}]
        /\ data' \in [Regular -> Int]
    BY DEF Opened
  <2>3. /\ parents' \in [Procs -> {None, "in", "out"}]
        /\ file' \in [Procs -> Inodes \cup {None}]
        /\ held' \subseteq Procs
    BY DEF Opened
  <2> QED  BY <2>1, <2>2, <2>3 DEF Opened
<1>2. \A q \in Procs : PlaceInv(q)' /\ CancelInv(q)'
  BY DEF PlaceInv, CancelInv, DataInv, Opened
<1>3. DataInv' /\ NamesInv' /\ OwnInv'
  BY DEF PlaceInv, CancelInv, DataInv, NamesInv, OwnInv, Reached, Opened
<1>4. OutsideUntouched' /\ LimitHolds'
  BY DEF DataInv, OutsideUntouched, LimitHolds, CancelInv, Opened
<1>5. RemovedInv' /\ CancellationSeen'
  BY DEF PlaceInv, CancelInv, RemovedInv, CancellationSeen, Opened
<1> QED  BY <1>1, <1>2, <1>3, <1>4, <1>5

\* The transfer owns its file from here on.
LEMMA HandOverInv ==
    ASSUME Inv, HandOver
    PROVE  Inv'
<1>1. Types'
  BY DEF HandOver
<1>2. \A q \in Procs : PlaceInv(q)' /\ CancelInv(q)'
  BY DEF PlaceInv, CancelInv, DataInv, HandOver
<1>3. DataInv' /\ NamesInv' /\ OwnInv'
  BY DEF PlaceInv, CancelInv, DataInv, NamesInv, OwnInv, Reached, HandOver
<1>4. OutsideUntouched' /\ LimitHolds'
  BY DEF DataInv, OutsideUntouched, LimitHolds, CancelInv, HandOver
<1>5. RemovedInv' /\ CancellationSeen'
  BY DEF PlaceInv, CancelInv, RemovedInv, CancellationSeen, HandOver
<1> QED  BY <1>1, <1>2, <1>3, <1>4, <1>5

\* A block is counted before it is written.
LEMMA WriteBlockInv ==
    ASSUME Inv, NEW ok \in BOOLEAN, WriteBlock(ok)
    PROVE  Inv'
<1>1. Types'
  BY DEF WriteBlock, Capped
<1>2. \A q \in Procs : PlaceInv(q)'
  BY DEF PlaceInv, DataInv, WriteBlock, Capped
<1>3. \A q \in Procs : CancelInv(q)'
  BY DEF PlaceInv, CancelInv, WriteBlock, Capped
<1>4. DataInv'
  BY DEF PlaceInv, CancelInv, DataInv, OwnInv, NamesInv, WriteBlock, Capped
<1>5. NamesInv'
  BY DEF PlaceInv, NamesInv, WriteBlock, Capped
<1>6. OwnInv'
  BY DEF PlaceInv, NamesInv, OwnInv, WriteBlock, Capped, Reached, Exclusive
<1>7. RemovedInv'
  BY DEF PlaceInv, CancelInv, DataInv, NamesInv, RemovedInv,
     OutsideUntouched, WriteBlock, Capped
<1>8. OutsideUntouched'
  BY DEF PlaceInv, DataInv, NamesInv, OutsideUntouched, WriteBlock, Capped
<1>9. LimitHolds'
  BY <1>4 DEF PlaceInv, CancelInv, DataInv, LimitHolds, WriteBlock, Capped
<1>10. CancellationSeen'
  BY DEF PlaceInv, CancelInv, CancellationSeen, WriteBlock, Capped
<1> QED  BY <1>1, <1>2, <1>3, <1>4, <1>5, <1>6, <1>7, <1>8, <1>9,
         <1>10

\* The end of the body, or its failure.
LEMMA BodyEndsInv ==
    ASSUME Inv, BodyEnds
    PROVE  Inv'
<1>1. Types'
  BY DEF BodyEnds
<1>2. \A q \in Procs : PlaceInv(q)' /\ CancelInv(q)'
  BY DEF PlaceInv, CancelInv, DataInv, BodyEnds
<1>3. DataInv' /\ NamesInv' /\ OwnInv'
  BY DEF PlaceInv, CancelInv, DataInv, NamesInv, OwnInv, Reached, BodyEnds
<1>4. OutsideUntouched' /\ LimitHolds'
  BY DEF DataInv, OutsideUntouched, LimitHolds, CancelInv, BodyEnds
<1>5. RemovedInv' /\ CancellationSeen'
  BY DEF PlaceInv, CancelInv, RemovedInv, CancellationSeen, BodyEnds
<1> QED  BY <1>1, <1>2, <1>3, <1>4, <1>5

\* The close after the body.
LEMMA CloseInv ==
    ASSUME Inv, NEW ok \in BOOLEAN, Close(ok)
    PROVE  Inv'
<1>1. Types'
  BY DEF Close
<1>2. \A q \in Procs : PlaceInv(q)' /\ CancelInv(q)'
  BY DEF PlaceInv, CancelInv, DataInv, Close
<1>3. DataInv' /\ NamesInv' /\ OwnInv'
  BY DEF PlaceInv, CancelInv, DataInv, NamesInv, OwnInv, Reached, Close
<1>4. OutsideUntouched' /\ LimitHolds'
  BY DEF DataInv, OutsideUntouched, LimitHolds, CancelInv, Close
<1>5. RemovedInv' /\ CancellationSeen'
  BY DEF PlaceInv, CancelInv, RemovedInv, CancellationSeen, Close
<1> QED  BY <1>1, <1>2, <1>3, <1>4, <1>5

\* The close before the unlink.
LEMMA DiscardInv ==
    ASSUME Inv, Discard
    PROVE  Inv'
<1>1. Types'
  BY DEF Discard
<1>2. \A q \in Procs : PlaceInv(q)' /\ CancelInv(q)'
  BY DEF PlaceInv, CancelInv, DataInv, Discard
<1>3. DataInv' /\ NamesInv' /\ OwnInv'
  BY DEF PlaceInv, CancelInv, DataInv, NamesInv, OwnInv, Reached, Discard
<1>4. OutsideUntouched' /\ LimitHolds'
  BY DEF DataInv, OutsideUntouched, LimitHolds, CancelInv, Discard
<1>5. RemovedInv' /\ CancellationSeen'
  BY DEF PlaceInv, CancelInv, RemovedInv, CancellationSeen, Discard
<1> QED  BY <1>1, <1>2, <1>3, <1>4, <1>5

\* The unlink by name frees the name, unless the directory was exchanged.
LEMMA UnlinkInv ==
    ASSUME Inv, NEW ok \in BOOLEAN, Unlink(ok)
    PROVE  Inv'
<1>1. Types'
  BY DEF Unlink, Reached
<1>2. \A q \in Procs : PlaceInv(q)'
  BY DEF PlaceInv, DataInv, Unlink, Reached
<1>3. \A q \in Procs : CancelInv(q)'
  BY DEF PlaceInv, CancelInv, Unlink, Reached
<1>4. DataInv'
  BY DEF PlaceInv, CancelInv, DataInv, OwnInv, NamesInv, Unlink, Reached
<1>5. NamesInv'
  BY DEF PlaceInv, NamesInv, Unlink, Reached
<1>6. OwnInv'
  BY DEF PlaceInv, NamesInv, OwnInv, Unlink, Reached, Exclusive
<1>7. RemovedInv'
  BY DEF PlaceInv, CancelInv, DataInv, NamesInv, RemovedInv,
     OutsideUntouched, Unlink, Reached
<1>8. OutsideUntouched'
  BY DEF PlaceInv, DataInv, NamesInv, OutsideUntouched, Unlink, Reached
<1>9. LimitHolds'
  BY <1>4 DEF PlaceInv, CancelInv, DataInv, LimitHolds, Unlink, Reached
<1>10. CancellationSeen'
  BY DEF PlaceInv, CancelInv, CancellationSeen, Unlink, Reached
<1> QED  BY <1>1, <1>2, <1>3, <1>4, <1>5, <1>6, <1>7, <1>8, <1>9,
         <1>10

\* What was raised is reported.
LEMMA ClassifyInv ==
    ASSUME Inv, Classify
    PROVE  Inv'
<1>1. Types'
  BY DEF Classify
<1>2. \A q \in Procs : PlaceInv(q)' /\ CancelInv(q)'
  BY DEF PlaceInv, CancelInv, DataInv, Classify
<1>3. DataInv' /\ NamesInv' /\ OwnInv'
  BY DEF PlaceInv, CancelInv, DataInv, NamesInv, OwnInv, Reached, Classify
<1>4. OutsideUntouched' /\ LimitHolds'
  BY DEF DataInv, OutsideUntouched, LimitHolds, CancelInv, Classify
<1>5. RemovedInv' /\ CancellationSeen'
  BY DEF PlaceInv, CancelInv, RemovedInv, CancellationSeen, Classify
<1> QED  BY <1>1, <1>2, <1>3, <1>4, <1>5

\* A block is counted before it is returned.
LEMMA ReadBlockInv ==
    ASSUME Inv, NEW ok \in BOOLEAN, ReadBlock(ok)
    PROVE  Inv'
<1>1. Types'
  BY DEF ReadBlock, Capped
<1>2. \A q \in Procs : PlaceInv(q)'
  BY DEF PlaceInv, DataInv, ReadBlock, Capped
<1>3. \A q \in Procs : CancelInv(q)'
  BY DEF PlaceInv, CancelInv, ReadBlock, Capped
<1>4. DataInv'
  BY DEF PlaceInv, CancelInv, DataInv, OwnInv, NamesInv, ReadBlock, Capped
<1>5. NamesInv'
  BY DEF PlaceInv, NamesInv, ReadBlock, Capped
<1>6. OwnInv'
  BY DEF PlaceInv, NamesInv, OwnInv, ReadBlock, Capped, Reached, Exclusive
<1>7. RemovedInv'
  BY DEF PlaceInv, CancelInv, DataInv, NamesInv, RemovedInv,
     OutsideUntouched, ReadBlock, Capped
<1>8. OutsideUntouched'
  BY DEF PlaceInv, DataInv, NamesInv, OutsideUntouched, ReadBlock, Capped
<1>9. LimitHolds'
  <2>1. UNCHANGED <<data, result>>
    BY DEF ReadBlock
  <2>2. result["reader"] # "ok" \/ UNCHANGED count
    BY DEF ReadBlock, PlaceInv
  <2> QED  BY <2>1, <2>2 DEF LimitHolds
<1>10. CancellationSeen'
  BY DEF PlaceInv, CancelInv, CancellationSeen, ReadBlock, Capped
<1> QED  BY <1>1, <1>2, <1>3, <1>4, <1>5, <1>6, <1>7, <1>8, <1>9,
         <1>10

\* The reader closes its descriptor on every path.
LEMMA CloseReaderInv ==
    ASSUME Inv, NEW ok \in BOOLEAN, CloseReader(ok)
    PROVE  Inv'
<1>1. Types'
  BY DEF CloseReader
<1>2. \A q \in Procs : PlaceInv(q)' /\ CancelInv(q)'
  BY DEF PlaceInv, CancelInv, DataInv, CloseReader
<1>3. DataInv' /\ NamesInv' /\ OwnInv'
  BY DEF PlaceInv, CancelInv, DataInv, NamesInv, OwnInv, Reached, CloseReader
<1>4. OutsideUntouched' /\ LimitHolds'
  BY DEF DataInv, OutsideUntouched, LimitHolds, CancelInv, CloseReader
<1>5. RemovedInv' /\ CancellationSeen'
  BY DEF PlaceInv, CancelInv, RemovedInv, CancellationSeen, CloseReader
<1> QED  BY <1>1, <1>2, <1>3, <1>4, <1>5

\* Another process changes a name: only the count of names can be deceived.
LEMMA OthersInv ==
    ASSUME Inv, Others
    PROVE  Inv'
<1> USE DEF Others
<1>1. CASE SwapDir
  <2>1. Types'
    BY <1>1 DEF SwapDir
  <2>2. \A q \in Procs : PlaceInv(q)' /\ CancelInv(q)'
    BY <1>1 DEF SwapDir, PlaceInv, CancelInv
  <2>3. DataInv' /\ NamesInv' /\ OwnInv'
    BY <1>1 DEF SwapDir, DataInv, NamesInv, OwnInv
  <2>4. RemovedInv' /\ OutsideUntouched' /\ LimitHolds' /\ CancellationSeen'
    BY <1>1 DEF SwapDir, RemovedInv, OutsideUntouched, LimitHolds,
       CancellationSeen
  <2> QED  BY <2>1, <2>2, <2>3, <2>4
<1>2. ASSUME NEW i \in (Inodes \ {"new"}) \cup {None}, PutLeaf(i)
      PROVE  Inv'
  <2>1. Types'
    BY <1>2 DEF PutLeaf
  <2>2. \A q \in Procs : PlaceInv(q)' /\ CancelInv(q)'
    BY <1>2 DEF PutLeaf, PlaceInv, CancelInv
  <2>3. DataInv' /\ OwnInv'
    BY <1>2 DEF PutLeaf, DataInv, OwnInv
  <2>4. withdrawn => withdrawn'
    BY <1>2 DEF PutLeaf
  <2>5. NamesInv'
    <3>1. /\ pc["writer"] = "check" /\ leaf["in"] = "theirs"
          /\ file["writer"] = "theirs" /\ i # "theirs"
          => withdrawn'
      BY <1>2 DEF PutLeaf
    <3> QED  BY <1>2, <2>4, <3>1 DEF PutLeaf, NamesInv
  <2>6. OutsideUntouched' /\ LimitHolds' /\ CancellationSeen'
    BY <2>4 DEF OutsideUntouched, LimitHolds, CancellationSeen
  <2>7. RemovedInv'
    BY <1>2, <2>4 DEF PutLeaf, RemovedInv, PlaceInv, OutsideUntouched
  <2> QED  BY <2>1, <2>2, <2>3, <2>5, <2>6, <2>7
<1> QED  BY <1>1, <1>2

\* The thread goes on, and the cancellation is remembered.
LEMMA CancelThreadInv ==
    ASSUME Inv, NEW p \in Procs, cancels[p] < MaxCancels,
           CancelThread(p),
           cancels' = [cancels EXCEPT ![p] = @ + 1],
           UNCHANGED <<tree, options, target, parents, file, count>>
    PROVE  Inv'
<1>1. Types'
  BY DEF CancelThread
<1>2. \A q \in Procs : PlaceInv(q)' /\ CancelInv(q)'
  <2>1. \A q \in Procs : PlaceInv(q)'
    BY DEF PlaceInv, CancelThread
  <2>2. \A q \in Procs : CancelInv(q)'
    BY DEF PlaceInv, CancelInv, CancelThread
  <2> QED  BY <2>1, <2>2
<1>3. DataInv' /\ NamesInv' /\ OwnInv'
  BY DEF PlaceInv, CancelInv, DataInv, NamesInv, OwnInv, Reached, CancelThread
<1>4. OutsideUntouched' /\ LimitHolds'
  BY DEF DataInv, OutsideUntouched, LimitHolds, CancelInv, CancelThread
<1>5. RemovedInv' /\ CancellationSeen'
  BY DEF PlaceInv, CancelInv, RemovedInv, CancellationSeen, CancelThread
<1> QED  BY <1>1, <1>2, <1>3, <1>4, <1>5

\* There is nothing to clean up yet.
LEMMA CancelEarlyInv ==
    ASSUME Inv, NEW p \in Procs, cancels[p] < MaxCancels,
           CancelEarly(p),
           cancels' = [cancels EXCEPT ![p] = @ + 1],
           UNCHANGED <<tree, options, target, parents, file, count>>
    PROVE  Inv'
<1>1. Types'
  BY DEF CancelEarly
<1>2. \A q \in Procs : PlaceInv(q)' /\ CancelInv(q)'
  BY DEF PlaceInv, CancelInv, DataInv, CancelEarly
<1>3. DataInv' /\ NamesInv' /\ OwnInv'
  BY DEF PlaceInv, CancelInv, DataInv, NamesInv, OwnInv, Reached, CancelEarly
<1>4. OutsideUntouched' /\ LimitHolds'
  BY DEF DataInv, OutsideUntouched, LimitHolds, CancelInv, CancelEarly
<1>5. RemovedInv' /\ CancellationSeen'
  BY DEF PlaceInv, CancelInv, RemovedInv, CancellationSeen, CancelEarly
<1> QED  BY <1>1, <1>2, <1>3, <1>4, <1>5

\* The cancellation takes the way of a failed body.
LEMMA CancelBodyInv ==
    ASSUME Inv, CancelBody,
           cancels' = [cancels EXCEPT !["writer"] = @ + 1],
           UNCHANGED <<tree, options, target, parents, file, count>>
    PROVE  Inv'
<1>1. Types'
  BY DEF CancelBody, Capped
<1>2. \A q \in Procs : PlaceInv(q)'
  BY DEF PlaceInv, DataInv, CancelBody, Capped
<1>3. \A q \in Procs : CancelInv(q)'
  BY DEF PlaceInv, CancelInv, CancelBody, Capped
<1>4. DataInv'
  BY DEF PlaceInv, CancelInv, DataInv, OwnInv, NamesInv, CancelBody, Capped
<1>5. NamesInv'
  BY DEF PlaceInv, NamesInv, CancelBody, Capped
<1>6. OwnInv'
  BY DEF PlaceInv, NamesInv, OwnInv, CancelBody, Capped, Reached, Exclusive
<1>7. RemovedInv'
  BY DEF PlaceInv, CancelInv, DataInv, NamesInv, RemovedInv,
     OutsideUntouched, CancelBody, Capped
<1>8. OutsideUntouched'
  BY DEF PlaceInv, DataInv, NamesInv, OutsideUntouched, CancelBody, Capped
<1>9. LimitHolds'
  BY <1>4 DEF PlaceInv, CancelInv, DataInv, LimitHolds, CancelBody, Capped
<1>10. CancellationSeen'
  BY DEF PlaceInv, CancelInv, CancellationSeen, CancelBody, Capped
<1> QED  BY <1>1, <1>2, <1>3, <1>4, <1>5, <1>6, <1>7, <1>8, <1>9,
         <1>10

\* The cancelled close skips the unlink, and says so.
LEMMA CancelCloseInv ==
    ASSUME Inv, CancelClose,
           cancels' = [cancels EXCEPT !["writer"] = @ + 1],
           UNCHANGED <<tree, options, target, parents, file, count>>
    PROVE  Inv'
<1>1. Types'
  BY DEF CancelClose
<1>2. \A q \in Procs : PlaceInv(q)' /\ CancelInv(q)'
  BY DEF PlaceInv, CancelInv, DataInv, CancelClose
<1>3. DataInv' /\ NamesInv' /\ OwnInv'
  BY DEF PlaceInv, CancelInv, DataInv, NamesInv, OwnInv, Reached, CancelClose
<1>4. OutsideUntouched' /\ LimitHolds'
  BY DEF DataInv, OutsideUntouched, LimitHolds, CancelInv, CancelClose
<1>5. RemovedInv' /\ CancellationSeen'
  BY DEF PlaceInv, CancelInv, RemovedInv, CancellationSeen, CancelClose
<1> QED  BY <1>1, <1>2, <1>3, <1>4, <1>5

-----------------------------------------------------------------------------
(* The specification.                                                      *)

\* Every file is as it was, and nobody holds anything.
LEMMA InitInv == Init => Inv
<1> SUFFICES ASSUME Init PROVE Inv
  OBVIOUS
<1>1. Types
  BY DEF Init
<1>2. DataInv /\ NamesInv /\ OwnInv /\ RemovedInv
  BY DEF Init, DataInv, NamesInv, OwnInv, RemovedInv
<1>3. \A p \in Procs : PlaceInv(p) /\ CancelInv(p)
  BY DEF Init, PlaceInv, CancelInv
<1>4. OutsideUntouched /\ LimitHolds /\ CancellationSeen
  BY DEF Init, OutsideUntouched, LimitHolds, CancellationSeen
<1> QED  BY <1>1, <1>2, <1>3, <1>4

\* A cancellation, wherever it arrives.
LEMMA CancelStepInv ==
    ASSUME Inv, NEW p \in Procs, Cancel(p)
    PROVE  Inv'
<1>1. CASE CancelThread(p)
  BY <1>1, CancelThreadInv DEF Cancel
<1>2. CASE CancelEarly(p)
  BY <1>2, CancelEarlyInv DEF Cancel
<1>3. CASE p = "writer" /\ CancelBody
  BY <1>3, CancelBodyInv DEF Cancel
<1>4. CASE p = "writer" /\ CancelClose
  BY <1>4, CancelCloseInv DEF Cancel
<1> QED  BY <1>1, <1>2, <1>3, <1>4 DEF Cancel

HIDE DEF Inv, Types

\* Opening a file, whoever does it.
LEMMA OpeningInv ==
    ASSUME Inv, NEW p \in Procs, Opening(p)
    PROVE  Inv'
<1>1. CASE Resolve(p)
  BY <1>1, ResolveInv
<1>2. CASE Walk(p)
  BY <1>2, WalkInv
<1>3. CASE \E i \in Inodes \cup {None} : OpenLeaf(p, i)
  BY <1>3, OpenLeafInv
<1>4. CASE Check(p)
  BY <1>4, CheckInv
<1>5. CASE Opened(p)
  BY <1>5, OpenedInv
<1> QED  BY <1>1, <1>2, <1>3, <1>4, <1>5 DEF Opening

\* Every step preserves the invariant.
LEMMA NextInv ==
    ASSUME Inv, [Next]_vars
    PROVE  Inv'
<1>1. CASE Writer
  <2>1. CASE \E ok \in BOOLEAN :
               Truncate(ok) \/ WriteBlock(ok) \/ Close(ok) \/ Unlink(ok)
    BY <2>1, TruncateInv, WriteBlockInv, CloseInv, UnlinkInv
  <2>2. CASE Request \/ HandOver \/ BodyEnds \/ Discard \/ Classify
    BY <2>2, RequestInv, HandOverInv, BodyEndsInv, DiscardInv, ClassifyInv
  <2> QED  BY <1>1, <2>1, <2>2, OpeningInv DEF Writer
<1>2. CASE Reader
  BY <1>2, OpeningInv, ReadBlockInv, CloseReaderInv DEF Reader
<1>3. CASE Others
  BY <1>3, OthersInv
<1>4. CASE \E p \in Procs : Cancel(p)
  BY <1>4, CancelStepInv
<1>5. CASE UNCHANGED vars
  BY <1>5 DEF vars, Inv, Types, PlaceInv, CancelInv, DataInv, NamesInv, OwnInv,
     RemovedInv, OutsideUntouched, LimitHolds, CancellationSeen, Reached
<1> QED  BY <1>1, <1>2, <1>3, <1>4, <1>5 DEF Next, Terminated

\* The invariant holds of every behaviour.
THEOREM Invariance == Spec => []Inv
BY InitInv, NextInv, PTL DEF Spec

\* A resolved path leads to no file outside and not beyond the limit, whatever
\* other processes do between the system calls (resolve_within, open_within,
\* _reject_irregular, iter_capped).
THEOREM SpecGuard == Spec => []GuardInv
<1>1. Inv => GuardInv
  BY DEF Inv, Types, DataInv, PlaceInv, GuardInv, TypeOK, LimitHolds
<1> QED  BY <1>1, Invariance, PTL

\* A call leaves no descriptor behind, a failed write no partial file, and a
\* cancellation is reported (safe_writer, read_guarded_file and
\* _await_open_descriptor).
THEOREM SpecCleanup == Spec => []CleanupInv
<1>1. Inv => CleanupInv
  BY DEF Inv, PlaceInv, RemovedInv, CleanupInv, NothingLeaks, NoPartialFile
<1> QED  BY <1>1, Invariance, PTL

\* What a step may not do to a file that was there.
Kept ==
    ~overwrite =>
        /\ data'["mine"] = data["mine"] /\ data'["theirs"] = data["theirs"]
        /\ \A d \in {"in", "out"} :
             moves' = 0 /\ leaf[d] \in {"mine", "theirs"} => leaf'[d] = leaf[d]

\* Without overwrite a file that was there is neither changed nor, while no
\* other process exchanges names, removed (guarded_opener's O_EXCL, and
\* safe_unlink, which goes by the name).
THEOREM SpecExistingKept == Spec => ExistingKept
<1>1. ASSUME Inv, [Next]_vars
      PROVE  Kept \/ UNCHANGED vars
  <2> USE DEF Inv, Types
  <2>1. UNCHANGED <<data, leaf>> => Kept
    BY DEF Kept
  <2>2. ASSUME NEW p \in Procs, NEW i \in Inodes \cup {None}, OpenLeaf(p, i)
        PROVE  Kept
    BY <1>1, <2>2 DEF Kept, OpenLeaf, PlaceInv
  <2>3. ASSUME NEW ok \in BOOLEAN, Truncate(ok)
        PROVE  Kept
    BY <2>3 DEF Kept, Truncate, Exclusive
  <2>4. ASSUME NEW ok \in BOOLEAN, WriteBlock(ok)
        PROVE  Kept
    BY <1>1, <2>4 DEF Kept, WriteBlock, OwnInv
  <2>5. ASSUME NEW ok \in BOOLEAN, Unlink(ok)
        PROVE  Kept
    BY <1>1, <2>5 DEF Kept, Unlink, OwnInv, PlaceInv
  <2>6. CASE Others
    <3>1. moves' # 0 /\ UNCHANGED data
      BY <1>1, <2>6 DEF Others
    <3> QED  BY <3>1 DEF Kept
  <2>7. ASSUME NEW p \in Procs, Cancel(p)
        PROVE  Kept
    BY <1>1, <2>7 DEF Kept, Cancel, CancelThread, CancelEarly, CancelBody,
       CancelClose, OwnInv
  <2>8. ASSUME NEW p \in Procs, Resolve(p) \/ Walk(p) \/ Check(p) \/ Opened(p)
        PROVE  UNCHANGED <<data, leaf>>
    BY <2>8 DEF Resolve, Walk, Check, Opened
  <2>9. ASSUME Request \/ HandOver \/ BodyEnds \/ Discard \/ Classify
        PROVE  UNCHANGED <<data, leaf>>
    BY <2>9 DEF Request, HandOver, BodyEnds, Discard, Classify
  <2>10. ASSUME NEW ok \in BOOLEAN,
                Close(ok) \/ ReadBlock(ok) \/ CloseReader(ok)
         PROVE  UNCHANGED <<data, leaf>>
    BY <2>10 DEF Close, ReadBlock, CloseReader
  <2> HIDE DEF Inv, Types
  <2>11. ASSUME NEW p \in Procs, Opening(p)
         PROVE  Kept
    <3>1. CASE \E i \in Inodes \cup {None} : OpenLeaf(p, i)
      BY <2>2, <3>1
    <3>2. CASE Resolve(p) \/ Walk(p) \/ Check(p) \/ Opened(p)
      BY <2>1, <2>8, <3>2
    <3> QED  BY <2>11, <3>1, <3>2 DEF Opening
  <2>12. CASE Writer
    BY <2>1, <2>3, <2>4, <2>5, <2>9, <2>10, <2>11, <2>12 DEF Writer
  <2>13. CASE Reader
    BY <2>1, <2>10, <2>11, <2>13 DEF Reader
  <2> QED  BY <1>1, <2>6, <2>7, <2>12, <2>13 DEF Next, Terminated
<1> QED  BY <1>1, Invariance, PTL DEF Spec, ExistingKept, Kept

=============================================================================
