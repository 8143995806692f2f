------------------------- MODULE ProductProjection -------------------------
(***************************************************************************)
(* The copies of one product row: the one inventory-service keeps in Redis *)
(* for five minutes, and the document search-service keeps in its index.   *)
(*                                                                         *)
(* Who changes the row drops the copy and publishes product.updated. The   *)
(* indexer takes the event off its queue, fetches the product through the  *)
(* copy and overwrites the document. Reads of the row are eventually       *)
(* consistent; the queue delivers at least once and dead-letters after     *)
(* MaxReceives deliveries. A backfill reads the row past the copy and      *)
(* overwrites the document too. Nothing carries a version.                 *)
(*                                                                         *)
(* The row's content is the number of changes it has seen.                 *)
(***************************************************************************)
EXTENDS Naturals

CONSTANTS
    Changes,        \* stock writes, edits, imports
    Clients,        \* calls of inventory-service that read the product
    Indexers,       \* instances of search-service
    Backfill,
    NoCopy,
    NoMessage,
    MaxReceives,    \* maxReceiveCount of the search-index queue
    MaxFaults       \* bound: failed requests, changes that die, overlong handlings

ASSUME CopyAssumption == NoCopy \notin Nat
ASSUME ReadersAssumption ==
    Backfill \notin Clients \cup Indexers /\ Clients \cap Indexers = {} /\ NoMessage \notin Changes
ASSUME LimitsAssumption == MaxReceives \in Nat \ {0} /\ MaxFaults \in Nat

VARIABLES
    row,        \* the product row
    replica,    \* the oldest row that a read may still return
    cache,      \* the copy in Redis
    change,     \* how far each change is
    message,    \* its event on the queue
    receives,
    reader,     \* what each reader is doing
    doc,        \* the document in the index
    faults,
    copyOld,    \* history: the copy was read before an eviction it outlived, or from the replica
    docOld,     \* history: the document was written from such a copy, or overtook another
    missed      \* history: an event was lost since the document was last written

product == <<row, replica, cache, copyOld>>
queue == <<message, receives>>
index == <<doc, docOld, missed>>
vars == <<product, change, queue, reader, index, faults>>

\* seen: the product as fetched; old: as copyOld; about: the message in hand.
Doing(at, seen, old, about) == [at |-> at, seen |-> seen, old |-> old, about |-> about]
Resting == Doing("idle", 0, FALSE, NoMessage)
Asking == Doing("get", 0, FALSE, NoMessage)
Readers == Clients \cup Indexers \cup {Backfill}

Init ==
    /\ row = 0 /\ replica = 0 /\ doc = 0
    /\ cache = 0
    /\ change = [c \in Changes |-> "new"]
    /\ message = [c \in Changes |-> "none"]
    /\ receives = [c \in Changes |-> 0]
    /\ reader = [r \in Readers |-> IF r \in Clients THEN Asking ELSE Resting]
    /\ faults = 0
    /\ copyOld = FALSE /\ docOld = FALSE /\ missed = FALSE

At(r, step) == reader[r].at = step
Becomes(r, to) == reader' = [reader EXCEPT ![r] = to]
Goes(r, step) == Becomes(r, Doing(step, reader[r].seen, reader[r].old, reader[r].about))
Fault == faults < MaxFaults /\ faults' = faults + 1

\* What readers have in hand is overtaken by something they did not see.
Overtaken(steps) ==
    [r \in Readers |-> Doing(reader[r].at, reader[r].seen,
                             reader[r].old \/ reader[r].at \in steps, reader[r].about)]

---------------------------------------------------------------------------
(* A change: the conditional write, the eviction, the event. *)

\* A mutant: the event leaves before the copy is dropped.
PublishesFirst == [new |-> "publish", publish |-> "evict", evict |-> "done"]

\* The eviction comes first, "so the indexer's re-fetch reads the new onHand".
Following == [new |-> "evict", evict |-> "publish", publish |-> "done"]

Proceeds(c) == change' = [change EXCEPT ![c] = Following[@]]

Commit(c) ==
    /\ change[c] = "new"
    /\ row' = row + 1
    /\ Proceeds(c)
    /\ UNCHANGED <<replica, cache, copyOld, queue, reader, index, faults>>

\* A mutant: a copy is overwritten in time, not dropped.
LeavesCopy == cache

Dropped == NoCopy

Evict(c) ==
    /\ change[c] = "evict"
    /\ Proceeds(c)
    /\ cache' = Dropped
    /\ copyOld' = FALSE
    /\ reader' = Overtaken({"set"})
    /\ UNCHANGED <<row, replica, queue, index, faults>>

\* Redis does not answer: the change goes on.
EvictFails(c) ==
    /\ change[c] = "evict"
    /\ Fault
    /\ Proceeds(c)
    /\ copyOld' = (cache # NoCopy)
    /\ reader' = Overtaken({"set"})
    /\ UNCHANGED <<row, replica, cache, queue, index>>

Publish(c) ==
    /\ change[c] = "publish"
    /\ Proceeds(c)
    /\ message' = [message EXCEPT ![c] = "queued"]
    /\ UNCHANGED <<product, receives, reader, index, faults>>

Missed ==
    /\ missed' = TRUE
    /\ reader' = Overtaken({"set", "index"})
    /\ UNCHANGED <<doc, docOld>>

\* An import and a photo publish nothing.
NothingPublished(c) ==
    /\ change[c] = "publish"
    /\ Proceeds(c)
    /\ Missed
    /\ UNCHANGED <<product, queue, faults>>

\* A publication that fails is only logged.
PublishFails(c) ==
    /\ change[c] = "publish"
    /\ Fault
    /\ Proceeds(c)
    /\ Missed
    /\ UNCHANGED <<product, queue>>

\* The process dies after the write.
ChangeDies(c) ==
    /\ change[c] \in {"evict", "publish"}
    /\ Fault
    /\ change' = [change EXCEPT ![c] = "done"]
    /\ copyOld' = (copyOld \/ (change[c] = "evict" /\ cache # NoCopy))
    /\ Missed
    /\ UNCHANGED <<row, replica, cache, queue>>

Write(c) ==
    \/ Commit(c) \/ Evict(c) \/ EvictFails(c)
    \/ Publish(c) \/ NothingPublished(c) \/ PublishFails(c)

---------------------------------------------------------------------------
(* findById, for a call of inventory-service or a fetch of the indexer. *)

Answered(r, seen, old) ==
    Becomes(r, IF r \in Clients THEN Asking ELSE Doing("index", seen, old, reader[r].about))

Hit(r) ==
    /\ At(r, "get")
    /\ cache # NoCopy
    /\ Answered(r, cache, copyOld)
    /\ UNCHANGED <<product, change, queue, index, faults>>

\* There is no copy, or Redis does not answer.
Miss(r) ==
    /\ At(r, "get")
    /\ IF cache = NoCopy THEN UNCHANGED faults ELSE Fault
    /\ Goes(r, "read")
    /\ UNCHANGED <<product, change, queue, index>>

Read(r, to) ==
    \E v \in {row, replica} :
        Becomes(r, Doing(to, v, v # row, reader[r].about))

ReadRow(r) ==
    /\ At(r, "read")
    /\ Read(r, "set")
    /\ UNCHANGED <<product, change, queue, index, faults>>

Set(r) ==
    /\ At(r, "set")
    /\ cache' = reader[r].seen /\ copyOld' = reader[r].old
    /\ Answered(r, reader[r].seen, reader[r].old)
    /\ UNCHANGED <<row, replica, change, queue, index, faults>>

SetFails(r) ==
    /\ At(r, "set")
    /\ Fault
    /\ Answered(r, reader[r].seen, reader[r].old)
    /\ UNCHANGED <<product, change, queue, index>>

Expire ==
    /\ cache # NoCopy
    /\ cache' = NoCopy /\ copyOld' = FALSE
    /\ UNCHANGED <<row, replica, change, queue, reader, index, faults>>

Replicate ==
    /\ replica # row
    /\ replica' = row
    /\ UNCHANGED <<row, cache, copyOld, change, queue, reader, index, faults>>

---------------------------------------------------------------------------
(* The indexer: an event is received, the product fetched, the document    *)
(* written, the message deleted. A handling that throws leaves it there.   *)

Receive(r, c) ==
    /\ r \in Indexers /\ At(r, "idle")
    /\ message[c] = "queued"
    /\ message' = [message EXCEPT ![c] = "in flight"]
    /\ receives' = [receives EXCEPT ![c] = @ + 1]
    /\ Becomes(r, Doing("get", 0, FALSE, c))
    /\ UNCHANGED <<product, change, index, faults>>

\* The document is what r fetched; what another has fetched is overtaken.
Overwrites(r, next) ==
    /\ doc' = reader[r].seen
    /\ docOld' = reader[r].old
    /\ missed' = (missed /\ reader[r].old)
    /\ reader' = [Overtaken({"index"}) EXCEPT ![r] = next]

IndexEntity(r) ==
    /\ r \in Indexers /\ At(r, "index")
    /\ Overwrites(r, Doing("delete", 0, FALSE, reader[r].about))
    /\ UNCHANGED <<product, change, queue, faults>>

Gone(c, how) ==
    /\ message' = [message EXCEPT ![c] = how]
    /\ receives' = [receives EXCEPT ![c] = 0]

\* The receipt of an earlier delivery may or may not delete the message.
DeleteMessage(r) ==
    /\ At(r, "delete")
    /\ LET c == reader[r].about IN
       \/ Gone(c, IF message[c] = "dead" THEN "dead" ELSE "deleted")
       \/ /\ message[c] = "queued" \/ \E s \in Indexers \ {r} : reader[s].about = c
          /\ UNCHANGED queue
    /\ Becomes(r, Resting)
    /\ UNCHANGED <<product, change, index, faults>>

HandlingFails(r) ==
    /\ r \in Indexers /\ ~At(r, "idle")
    /\ Becomes(r, Resting)
    /\ UNCHANGED <<product, change, queue, index, faults>>

BeingHandled(c) == \E r \in Indexers : reader[r].about = c

\* A mutant: there is no dead-letter queue.
NeverDead(c) == receives[c] = 0

Exhausted(c) == receives[c] = MaxReceives

\* The visibility of a delivery ends, with or without its handler.
Reappear(c) ==
    /\ message[c] = "in flight"
    /\ IF BeingHandled(c) THEN Fault ELSE UNCHANGED faults
    /\ IF Exhausted(c)
       THEN Gone(c, "dead") /\ Missed
       ELSE message' = [message EXCEPT ![c] = "queued"] /\ UNCHANGED <<receives, index, reader>>
    /\ UNCHANGED <<product, change>>

---------------------------------------------------------------------------
(* The backfill: a page of rows is read, and written to the index at once. *)

BackfillPage ==
    /\ At(Backfill, "idle")
    /\ Read(Backfill, "index")
    /\ UNCHANGED <<product, change, queue, index, faults>>

BulkIndex ==
    /\ At(Backfill, "index")
    /\ Overwrites(Backfill, Resting)
    /\ UNCHANGED <<product, change, queue, faults>>

BulkIndexFails ==
    /\ At(Backfill, "index")
    /\ Fault
    /\ Becomes(Backfill, Resting)
    /\ UNCHANGED <<product, change, queue, index>>

---------------------------------------------------------------------------

Handle(r) ==
    \/ Hit(r) \/ Miss(r) \/ ReadRow(r) \/ Set(r) \/ SetFails(r)
    \/ IndexEntity(r) \/ DeleteMessage(r)

Next ==
    \/ \E c \in Changes : Write(c) \/ ChangeDies(c) \/ Reappear(c)
    \/ \E r \in Readers : Handle(r) \/ HandlingFails(r)
    \/ \E r \in Indexers, c \in Changes : Receive(r, c)
    \/ Expire \/ Replicate
    \/ BackfillPage \/ BulkIndex \/ BulkIndexFails

Spec == Init /\ [][Next]_vars

---------------------------------------------------------------------------
(* Properties. *)

Versions == 0 .. row
Doings == [at : {"idle", "get", "read", "set", "index", "delete"},
           seen : Versions, old : BOOLEAN, about : Changes \cup {NoMessage}]

CopiesTypeOK ==
    /\ row \in Nat
    /\ replica \in Versions /\ doc \in Versions /\ cache \in Versions \cup {NoCopy}

QueueTypeOK ==
    /\ change \in [Changes -> {"new", "evict", "publish", "done"}]
    /\ message \in [Changes -> {"none", "queued", "in flight", "deleted", "dead"}]
    /\ receives \in [Changes -> 0 .. MaxReceives]

\* Every variable has its type; nothing is newer than the row; a message is
\* delivered MaxReceives times at most.
ProjectionTypeOK ==
    /\ CopiesTypeOK
    /\ QueueTypeOK
    /\ reader \in [Readers -> Doings]
    /\ copyOld \in BOOLEAN /\ docOld \in BOOLEAN /\ missed \in BOOLEAN
    /\ faults \in 0 .. MaxFaults

\* When no eviction is due, the copy is the row, unless it was read from a
\* replica or before an eviction that came while it was on its way, or an
\* eviction failed.
CopyIsFresh ==
    cache # NoCopy /\ ~copyOld /\ (\A c \in Changes : change[c] # "evict") => cache = row

Quiet ==
    /\ \A c \in Changes : change[c] \in {"new", "done"} /\ message[c] \notin {"queued", "in flight"}
    /\ \A r \in Indexers \cup {Backfill} : At(r, "idle")

\* "Replays and out-of-order events converge": when nothing is under way, the
\* document is the row, whatever order evictions, events, deliveries and fetches
\* came in. Left out are documents fetched from an old copy or written after
\* another handling had fetched, and events that were lost or never sent; the
\* next handling or backfill ends all of these.
DocumentSettles ==
    Quiet /\ ~docOld /\ ~missed => doc = row
=============================================================================
