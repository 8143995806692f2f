---------------------- MODULE ProductProjectionProofs ----------------------
(***************************************************************************)
(* What ProductProjection keeps, for any number of changes, readers,       *)
(* deliveries and faults. CopyIsFresh is not inductive: Set stores what a  *)
(* reader read some steps ago, so the same must hold of every reader about *)
(* to store (ReadingsAreFresh). DocumentSettles speaks of a time when      *)
(* nothing is due; SettledInv follows the latest event until then.         *)
(***************************************************************************)
EXTENDS ProductProjection, TLAPS

\* An eviction is due.
Undropped == \E c \in Changes : change[c] = "evict"

\* What a reader is about to store is the row, on the terms of the copy itself.
ReadingsAreFresh ==
    \A r \in Readers : At(r, "set") /\ ~reader[r].old /\ ~Undropped => reader[r].seen = row

\* A message is of a change that is through, and counts its deliveries.
QueueInv ==
    \A c \in Changes :
        /\ change[c] # "done" => message[c] = "none"
        /\ message[c] \notin {"queued", "in flight"} => receives[c] = 0
        /\ message[c] = "queued" => receives[c] < MaxReceives

\* What a reader has in hand has been published.
HandledIsSent ==
    \A r \in Readers, c \in Changes : reader[r].about = c => change[c] = "done"

ReadersTypeOK == reader \in [Readers -> Doings]

OthersTypeOK ==
    /\ copyOld \in BOOLEAN /\ docOld \in BOOLEAN /\ missed \in BOOLEAN
    /\ faults \in 0 .. MaxFaults

IInv ==
    /\ CopiesTypeOK /\ QueueTypeOK /\ ReadersTypeOK /\ OthersTypeOK
    /\ CopyIsFresh /\ ReadingsAreFresh /\ QueueInv /\ HandledIsSent

USE CopyAssumption, ReadersAssumption, LimitsAssumption

---------------------------------------------------------------------------
(* Readers. *)

\* What a reader can be doing, part by part.
LEMMA DoingType ==
    ASSUME NEW at \in {"idle", "get", "read", "set", "index", "delete"}, NEW seen \in Versions,
           NEW old \in BOOLEAN, NEW about \in Changes \cup {NoMessage}
    PROVE  Doing(at, seen, old, about) \in Doings
  BY DEF Doing, Doings

LEMMA DoingFields ==
    ASSUME NEW at, NEW seen, NEW old, NEW about
    PROVE  LET d == Doing(at, seen, old, about)
           IN  d.at = at /\ d.seen = seen /\ d.old = old /\ d.about = about
  BY DEF Doing

LEMMA FieldTypes ==
    ASSUME ReadersTypeOK, NEW r \in Readers
    PROVE  /\ reader[r].at \in {"idle", "get", "read", "set", "index", "delete"}
           /\ reader[r].seen \in Versions /\ reader[r].old \in BOOLEAN
           /\ reader[r].about \in Changes \cup {NoMessage}
  BY DEF ReadersTypeOK, Doings

LEMMA RestingTypes ==
    ASSUME CopiesTypeOK
    PROVE  /\ Resting \in Doings /\ Asking \in Doings
           /\ \A c \in Changes : Doing("get", 0, FALSE, c) \in Doings
<1>1. 0 \in Versions
  BY DEF CopiesTypeOK, Versions
<1> QED BY <1>1, DoingType DEF Resting, Asking

\* What the readers are doing is overtaken, and otherwise as it was.
LEMMA OvertakenFields ==
    ASSUME NEW steps, NEW r \in Readers
    PROVE  /\ Overtaken(steps)[r].at = reader[r].at
           /\ Overtaken(steps)[r].seen = reader[r].seen
           /\ Overtaken(steps)[r].about = reader[r].about
           /\ Overtaken(steps)[r].old = (reader[r].old \/ reader[r].at \in steps)
  BY DEF Overtaken, Doing

LEMMA OvertakenType ==
    ASSUME ReadersTypeOK, NEW steps
    PROVE  Overtaken(steps) \in [Readers -> Doings]
<1>1. ASSUME NEW r \in Readers
      PROVE  Doing(reader[r].at, reader[r].seen, reader[r].old \/ reader[r].at \in steps,
                   reader[r].about) \in Doings
  <2>1. (reader[r].old \/ reader[r].at \in steps) \in BOOLEAN
    OBVIOUS
  <2> QED BY <2>1, FieldTypes, DoingType
<1> QED BY <1>1 DEF Overtaken

\* The types of the readers depend on the row alone.
LEMMA SameTypes ==
    ASSUME row' = row PROVE Doings' = Doings /\ Versions' = Versions
  BY DEF Doings, Versions

\* A step of one reader.
LEMMA ReaderSteps ==
    ASSUME IInv, NEW r \in Readers, NEW to \in Doings, Becomes(r, to), UNCHANGED <<row, change>>,
           to.at = "set" /\ ~to.old => to.seen = row,
           \A c \in Changes : to.about = c => change[c] = "done"
    PROVE  ReadersTypeOK' /\ ReadingsAreFresh' /\ HandledIsSent'
<1>1. reader'[r] = to /\ \A s \in Readers \ {r} : reader'[s] = reader[s]
  BY DEF IInv, ReadersTypeOK, Becomes
<1>2. ReadersTypeOK'
  BY SameTypes DEF IInv, ReadersTypeOK, Becomes
<1>3. ReadingsAreFresh'
  BY <1>1 DEF IInv, ReadingsAreFresh, At, Undropped
<1>4. HandledIsSent'
  BY <1>1 DEF IInv, HandledIsSent
<1> QED BY <1>2, <1>3, <1>4

\* A step that overtakes those about to store.
LEMMA OvertakingSteps ==
    ASSUME IInv, NEW steps, "set" \in steps, reader' = Overtaken(steps), row' = row,
           \A c \in Changes : change[c] = "done" => change'[c] = "done"
    PROVE  ReadersTypeOK' /\ ReadingsAreFresh' /\ HandledIsSent'
<1>1. ReadersTypeOK'
  BY OvertakenType, SameTypes DEF IInv, ReadersTypeOK
<1>2. ReadingsAreFresh'
  <2> SUFFICES ASSUME NEW s \in Readers, (At(s, "set") /\ ~reader[s].old)' PROVE FALSE
    BY DEF ReadingsAreFresh
  <2>1. reader'[s].at = reader[s].at /\ reader'[s].old = (reader[s].old \/ reader[s].at \in steps)
    BY OvertakenFields
  <2> QED BY <2>1 DEF At
<1>3. HandledIsSent'
  BY OvertakenFields DEF IInv, HandledIsSent
<1> QED BY <1>1, <1>2, <1>3

\* A step that writes the document and overtakes those about to write it.
LEMMA OverwritesSteps ==
    ASSUME IInv, NEW r \in Readers, NEW next \in Doings, Overwrites(r, next), UNCHANGED <<row, change>>,
           next.at # "set",
           \A c \in Changes : next.about = c => change[c] = "done"
    PROVE  ReadersTypeOK' /\ ReadingsAreFresh' /\ HandledIsSent'
<1> DEFINE steps == {"index"}
<1>1. Overtaken(steps) \in [Readers -> Doings]
  BY OvertakenType DEF IInv
<1>2. reader' = [Overtaken(steps) EXCEPT ![r] = next]
  BY DEF Overwrites
<1> HIDE DEF steps
<1>3. reader'[r] = next /\ \A s \in Readers \ {r} : reader'[s] = Overtaken(steps)[s]
  BY <1>1, <1>2
<1>4. ReadersTypeOK'
  BY <1>1, <1>2, SameTypes DEF ReadersTypeOK
<1>5. ReadingsAreFresh'
  <2> SUFFICES ASSUME NEW s \in Readers, (At(s, "set") /\ ~reader[s].old /\ ~Undropped)'
               PROVE  (reader[s].seen = row)'
    BY DEF ReadingsAreFresh
  <2>1. s # r
    BY <1>3 DEF At
  <2>2. ~reader[s].old
    BY <2>1, <1>3, OvertakenFields, FieldTypes DEF IInv
  <2>3. At(s, "set") /\ reader'[s].seen = reader[s].seen
    BY <2>1, <1>3, OvertakenFields DEF At
  <2>4. ~Undropped
    BY DEF Undropped
  <2> QED BY <2>2, <2>3, <2>4 DEF IInv, ReadingsAreFresh
<1>6. HandledIsSent'
  BY <1>3, OvertakenFields DEF IInv, HandledIsSent
<1> QED BY <1>4, <1>5, <1>6

---------------------------------------------------------------------------
(* Changes. *)

LEMMA FollowingFacts ==
    Following["new"] = "evict" /\ Following["evict"] = "publish" /\ Following["publish"] = "done"
  BY DEF Following

\* The next step of a change, and that of no other.
LEMMA ProceedsFacts ==
    ASSUME QueueTypeOK, NEW c \in Changes, change[c] # "done", Proceeds(c)
    PROVE  /\ change' \in [Changes -> {"new", "evict", "publish", "done"}]
           /\ \A d \in Changes \ {c} : change'[d] = change[d]
           /\ change[c] = "new" => change'[c] = "evict"
           /\ change[c] = "evict" => change'[c] = "publish"
           /\ change[c] = "publish" => change'[c] = "done"
  BY FollowingFacts DEF QueueTypeOK, Proceeds

LEMMA Limits ==
    /\ 0 \in 0 .. MaxReceives /\ 0 < MaxReceives
    /\ \A n \in 0 .. MaxReceives : n # MaxReceives => n < MaxReceives
    /\ \A n \in 0 .. MaxReceives : n < MaxReceives => n + 1 \in 0 .. MaxReceives
    /\ \A n \in 0 .. MaxFaults : n < MaxFaults => n + 1 \in 0 .. MaxFaults
  OBVIOUS

\* A step of one message.
LEMMA QueueSteps ==
    ASSUME QueueTypeOK, QueueInv, NEW c \in Changes, NEW m, NEW n \in 0 .. MaxReceives,
           m \in {"queued", "in flight", "deleted", "dead"},
           message' = [message EXCEPT ![c] = m], receives' = [receives EXCEPT ![c] = n],
           change' \in [Changes -> {"new", "evict", "publish", "done"}],
           change'[c] = "done", \A d \in Changes \ {c} : change'[d] = change[d],
           m \notin {"queued", "in flight"} => n = 0,
           m = "queued" => n < MaxReceives
    PROVE  QueueTypeOK' /\ QueueInv'
<1>1. QueueTypeOK'
  BY DEF QueueTypeOK
<1>2. message'[c] = m /\ receives'[c] = n
  BY DEF QueueTypeOK
<1>3. \A d \in Changes \ {c} : message'[d] = message[d] /\ receives'[d] = receives[d]
  BY DEF QueueTypeOK
<1>4. QueueInv'
  <2> SUFFICES ASSUME NEW d \in Changes
               PROVE  (/\ change[d] # "done" => message[d] = "none"
                       /\ message[d] \notin {"queued", "in flight"} => receives[d] = 0
                       /\ message[d] = "queued" => receives[d] < MaxReceives)'
    BY DEF QueueInv
  <2>1. CASE d = c
    BY <2>1, <1>2
  <2>2. CASE d # c
    BY <2>2, <1>3 DEF QueueInv
  <2> QED BY <2>1, <2>2
<1> QED BY <1>1, <1>4

LEMMA BackfillReads == Backfill \in Readers
  BY DEF Readers

---------------------------------------------------------------------------

(* The invariant. *)

LEMMA InitInvariant == Init => IInv
<1> SUFFICES ASSUME Init PROVE IInv
  OBVIOUS
<1>1. \A r \in Readers : reader[r].at \in {"idle", "get"} /\ reader[r].about = NoMessage
  BY DEF Init, Resting, Asking, Doing
<1>2. CopiesTypeOK /\ QueueTypeOK /\ OthersTypeOK
  <2>1. CopiesTypeOK
    BY DEF Init, CopiesTypeOK, Versions
  <2>2. QueueTypeOK
    BY DEF Init, QueueTypeOK
  <2>3. OthersTypeOK
    <3>1. faults \in 0 .. MaxFaults
      BY DEF Init
    <3> QED BY <3>1 DEF Init, OthersTypeOK
  <2> QED BY <2>1, <2>2, <2>3
<1>3. ReadersTypeOK
  <2>1. Resting \in Doings /\ Asking \in Doings
    BY DEF Init, Resting, Asking, Doing, Doings, Versions
  <2> QED BY <2>1 DEF Init, ReadersTypeOK
<1>4. CopyIsFresh /\ ReadingsAreFresh
  BY <1>1 DEF Init, CopyIsFresh, ReadingsAreFresh, At
<1>5. QueueInv /\ HandledIsSent
  BY <1>1 DEF Init, QueueInv, HandledIsSent
<1> QED
  BY <1>2, <1>3, <1>4, <1>5 DEF IInv

---------------------------------------------------------------------------

LEMMA NextInvariant ==
    ASSUME IInv, Next PROVE IInv'
<1> USE DEF IInv, Fault, product, queue, index
<1>1. ASSUME NEW c \in Changes, Commit(c) PROVE IInv'
  <2> USE <1>1 DEF Commit
  <2>1. CopiesTypeOK' /\ CopyIsFresh'
    <3>1. change'[c] = "evict"
      BY ProceedsFacts
    <3>2. CopyIsFresh'
      BY <3>1 DEF CopyIsFresh
    <3>3. CopiesTypeOK'
      BY DEF CopiesTypeOK, Versions
    <3> QED BY <3>2, <3>3
  <2>2. QueueTypeOK' /\ QueueInv'
    <3>1. change[c] # "done" /\ message[c] = "none"
      BY DEF QueueInv
    <3> QED BY <3>1, ProceedsFacts DEF QueueTypeOK, QueueInv
  <2>3. ReadersTypeOK' /\ ReadingsAreFresh' /\ HandledIsSent'
    <3>1. change'[c] = "evict" /\ \A d \in Changes : change[d] = "done" => change'[d] = "done"
      BY ProceedsFacts
    <3>2. ReadersTypeOK'
      BY DEF ReadersTypeOK, Doings, CopiesTypeOK, Versions
    <3>3. ReadingsAreFresh'
      BY <3>1 DEF ReadingsAreFresh, Undropped
    <3>4. HandledIsSent'
      BY <3>1 DEF HandledIsSent
    <3> QED BY <3>2, <3>3, <3>4
  <2>4. OthersTypeOK'
    BY DEF OthersTypeOK
  <2> QED BY <2>1, <2>2, <2>3, <2>4
<1>2. ASSUME NEW c \in Changes, Evict(c) PROVE IInv'
  <2> USE <1>2 DEF Evict, Dropped
  <2>1. CopiesTypeOK' /\ CopyIsFresh'
    BY DEF CopiesTypeOK, CopyIsFresh, Versions
  <2>2. QueueTypeOK' /\ QueueInv'
    <3>1. change[c] # "done" /\ message[c] = "none"
      BY DEF QueueInv
    <3> QED BY <3>1, ProceedsFacts DEF QueueTypeOK, QueueInv
  <2>3. ReadersTypeOK' /\ ReadingsAreFresh' /\ HandledIsSent'
    <3>1. \A d \in Changes : change[d] = "done" => change'[d] = "done"
      BY ProceedsFacts
    <3> QED BY <3>1, OvertakingSteps
  <2>4. OthersTypeOK'
    BY DEF OthersTypeOK
  <2> QED BY <2>1, <2>2, <2>3, <2>4
<1>3. ASSUME NEW c \in Changes, EvictFails(c) PROVE IInv'
  <2> USE <1>3 DEF EvictFails
  <2>1. CopiesTypeOK' /\ CopyIsFresh'
    BY DEF CopiesTypeOK, CopyIsFresh, Versions
  <2>2. QueueTypeOK' /\ QueueInv'
    <3>1. change[c] # "done" /\ message[c] = "none"
      BY DEF QueueInv
    <3> QED BY <3>1, ProceedsFacts DEF QueueTypeOK, QueueInv
  <2>3. ReadersTypeOK' /\ ReadingsAreFresh' /\ HandledIsSent'
    <3>1. \A d \in Changes : change[d] = "done" => change'[d] = "done"
      BY ProceedsFacts
    <3> QED BY <3>1, OvertakingSteps
  <2>4. OthersTypeOK'
    BY DEF OthersTypeOK
  <2> QED BY <2>1, <2>2, <2>3, <2>4
<1>4. ASSUME NEW c \in Changes, Publish(c) PROVE IInv'
  <2> USE <1>4 DEF Publish
  <2>1. CopiesTypeOK' /\ CopyIsFresh'
    <3>1. Undropped => Undropped'
      BY ProceedsFacts DEF Undropped
    <3> QED BY <3>1 DEF CopiesTypeOK, CopyIsFresh, Versions, Undropped
  <2>2. QueueTypeOK' /\ QueueInv'
    <3>1. receives[c] = 0
      BY DEF QueueInv
    <3>2. receives' = [receives EXCEPT ![c] = 0]
      BY <3>1 DEF QueueTypeOK
    <3>3. /\ change'[c] = "done" /\ \A d \in Changes \ {c} : change'[d] = change[d]
          /\ change' \in [Changes -> {"new", "evict", "publish", "done"}]
      BY ProceedsFacts
    <3>4. 0 \in 0 .. MaxReceives /\ 0 < MaxReceives
      BY Limits
    <3> QED BY <3>2, <3>3, <3>4, QueueSteps
  <2>3. ReadersTypeOK' /\ ReadingsAreFresh' /\ HandledIsSent'
    <3>1. \A d \in Changes : change[d] = "done" => change'[d] = "done"
      BY ProceedsFacts
    <3>2. Undropped => Undropped'
      BY ProceedsFacts DEF Undropped
    <3>3. ReadersTypeOK'
      BY SameTypes DEF ReadersTypeOK
    <3>4. ReadingsAreFresh'
      BY <3>2 DEF ReadingsAreFresh, At
    <3>5. HandledIsSent'
      BY <3>1 DEF HandledIsSent
    <3> QED BY <3>3, <3>4, <3>5
  <2>4. OthersTypeOK'
    BY DEF OthersTypeOK
  <2> QED BY <2>1, <2>2, <2>3, <2>4
<1>5. ASSUME NEW c \in Changes, NothingPublished(c) PROVE IInv'
  <2> USE <1>5 DEF NothingPublished, Missed
  <2>1. CopiesTypeOK' /\ CopyIsFresh'
    <3>1. Undropped => Undropped'
      BY ProceedsFacts DEF Undropped
    <3> QED BY <3>1 DEF CopiesTypeOK, CopyIsFresh, Versions, Undropped
  <2>2. QueueTypeOK' /\ QueueInv'
    <3>1. change[c] # "done" /\ message[c] = "none"
      BY DEF QueueInv
    <3> QED BY <3>1, ProceedsFacts DEF QueueTypeOK, QueueInv
  <2>3. ReadersTypeOK' /\ ReadingsAreFresh' /\ HandledIsSent'
    <3>1. \A d \in Changes : change[d] = "done" => change'[d] = "done"
      BY ProceedsFacts
    <3> QED BY <3>1, OvertakingSteps
  <2>4. OthersTypeOK'
    BY DEF OthersTypeOK
  <2> QED BY <2>1, <2>2, <2>3, <2>4
<1>6. ASSUME NEW c \in Changes, PublishFails(c) PROVE IInv'
  <2> USE <1>6 DEF PublishFails, Missed
  <2>1. CopiesTypeOK' /\ CopyIsFresh'
    <3>1. Undropped => Undropped'
      BY ProceedsFacts DEF Undropped
    <3> QED BY <3>1 DEF CopiesTypeOK, CopyIsFresh, Versions, Undropped
  <2>2. QueueTypeOK' /\ QueueInv'
    <3>1. change[c] # "done" /\ message[c] = "none"
      BY DEF QueueInv
    <3> QED BY <3>1, ProceedsFacts DEF QueueTypeOK, QueueInv
  <2>3. ReadersTypeOK' /\ ReadingsAreFresh' /\ HandledIsSent'
    <3>1. \A d \in Changes : change[d] = "done" => change'[d] = "done"
      BY ProceedsFacts
    <3> QED BY <3>1, OvertakingSteps
  <2>4. OthersTypeOK'
    BY DEF OthersTypeOK
  <2> QED BY <2>1, <2>2, <2>3, <2>4
<1>7. ASSUME NEW c \in Changes, ChangeDies(c) PROVE IInv'
  <2> USE <1>7 DEF ChangeDies, Missed
  <2>1. CopiesTypeOK' /\ CopyIsFresh'
    <3>1. \A d \in Changes \ {c} : change'[d] = change[d]
      BY DEF QueueTypeOK
    <3>2. CASE change[c] = "evict"
      BY <3>1, <3>2 DEF CopiesTypeOK, CopyIsFresh, Versions
    <3>3. CASE change[c] = "publish"
      BY <3>1, <3>3 DEF CopiesTypeOK, CopyIsFresh, Versions
    <3> QED BY <3>2, <3>3
  <2>2. QueueTypeOK' /\ QueueInv'
    BY DEF QueueTypeOK, QueueInv
  <2>3. ReadersTypeOK' /\ ReadingsAreFresh' /\ HandledIsSent'
    <3>1. \A d \in Changes : change[d] = "done" => change'[d] = "done"
      BY DEF QueueTypeOK
    <3> QED BY <3>1, OvertakingSteps
  <2>4. OthersTypeOK'
    BY DEF OthersTypeOK
  <2> QED BY <2>1, <2>2, <2>3, <2>4
<1>8. ASSUME NEW c \in Changes, Reappear(c) PROVE IInv'
  <2> USE <1>8 DEF Reappear, Gone, Exhausted
  <2>1. CopiesTypeOK' /\ CopyIsFresh'
    BY DEF Missed, CopiesTypeOK, CopyIsFresh, Versions
  <2>2. QueueTypeOK' /\ QueueInv'
    <3>1. change[c] = "done" /\ change' = change
      BY DEF QueueInv
    <3>2. change' \in [Changes -> {"new", "evict", "publish", "done"}]
      BY <3>1 DEF QueueTypeOK
    <3>3. receives[c] \in 0 .. MaxReceives
      BY DEF QueueTypeOK
    <3>4. CASE receives[c] = MaxReceives
      <4>1. 0 \in 0 .. MaxReceives
        BY Limits
      <4> QED BY <3>1, <3>2, <3>4, <4>1, QueueSteps
    <3>5. CASE receives[c] # MaxReceives
      <4>1. receives[c] < MaxReceives
        BY <3>3, <3>5, Limits
      <4>2. receives' = [receives EXCEPT ![c] = receives[c]]
        BY <3>5 DEF QueueTypeOK
      <4>3. message' = [message EXCEPT ![c] = "queued"]
        BY <3>5
      <4> QED BY <3>1, <3>2, <3>3, <4>1, <4>2, <4>3, QueueSteps
    <3> QED BY <3>4, <3>5
  <2>3. ReadersTypeOK' /\ ReadingsAreFresh' /\ HandledIsSent'
    <3>1. CASE reader' = reader
      BY <3>1, SameTypes DEF ReadersTypeOK, ReadingsAreFresh, HandledIsSent, At, Undropped
    <3>2. CASE Missed
      BY <3>2, OvertakingSteps DEF Missed
    <3> QED BY <3>1, <3>2
  <2>4. OthersTypeOK'
    <3>1. faults' \in 0 .. MaxFaults
      <4>1. faults \in 0 .. MaxFaults
        BY DEF OthersTypeOK
      <4>2. CASE faults' = faults
        BY <4>1, <4>2
      <4>3. CASE faults < MaxFaults /\ faults' = faults + 1
        BY <4>1, <4>3, Limits
      <4> QED BY <4>2, <4>3
    <3>2. copyOld' \in BOOLEAN
      BY DEF OthersTypeOK
    <3>3. docOld' \in BOOLEAN /\ missed' \in BOOLEAN
      <4>1. CASE Missed
        BY <4>1 DEF Missed, OthersTypeOK
      <4>2. CASE UNCHANGED index
        BY <4>2 DEF OthersTypeOK
      <4> QED BY <4>1, <4>2
    <3> QED BY <3>1, <3>2, <3>3 DEF OthersTypeOK
  <2> QED BY <2>1, <2>2, <2>3, <2>4
<1>9. ASSUME NEW r \in Readers, Hit(r) PROVE IInv'
  <2> USE <1>9 DEF Hit, At, Answered
  <2>1. CopiesTypeOK' /\ CopyIsFresh'
    BY DEF CopiesTypeOK, CopyIsFresh, Versions
  <2>2. QueueTypeOK' /\ QueueInv'
    BY DEF QueueTypeOK, QueueInv
  <2>3. ReadersTypeOK' /\ ReadingsAreFresh' /\ HandledIsSent'
    <3> DEFINE to == IF r \in Clients THEN Asking ELSE Doing("index", cache, copyOld, reader[r].about)
    <3>1. cache \in Versions /\ copyOld \in BOOLEAN /\ reader[r].about \in Changes \cup {NoMessage}
      BY FieldTypes DEF CopiesTypeOK, OthersTypeOK
    <3>2. to \in Doings /\ to.at # "set" /\ (to.about = NoMessage \/ to.about = reader[r].about)
      BY <3>1, DoingType, RestingTypes DEF Asking, Doing
    <3>3. Becomes(r, to)
      OBVIOUS
    <3> HIDE DEF to
    <3> QED BY <3>2, <3>3, ReaderSteps DEF HandledIsSent
  <2>4. OthersTypeOK'
    BY DEF OthersTypeOK
  <2> QED BY <2>1, <2>2, <2>3, <2>4
<1>10. ASSUME NEW r \in Readers, Miss(r) PROVE IInv'
  <2> USE <1>10 DEF Miss, At, Goes
  <2>1. CopiesTypeOK' /\ CopyIsFresh'
    BY DEF CopiesTypeOK, CopyIsFresh, Versions
  <2>2. QueueTypeOK' /\ QueueInv'
    BY DEF QueueTypeOK, QueueInv
  <2>3. ReadersTypeOK' /\ ReadingsAreFresh' /\ HandledIsSent'
    <3> DEFINE to == Doing("read", reader[r].seen, reader[r].old, reader[r].about)
    <3>1. to \in Doings /\ to.at # "set" /\ to.about = reader[r].about
      BY FieldTypes, DoingType DEF Doing
    <3>2. Becomes(r, to)
      OBVIOUS
    <3> HIDE DEF to
    <3> QED BY <3>1, <3>2, ReaderSteps DEF HandledIsSent
  <2>4. OthersTypeOK'
    BY DEF OthersTypeOK
  <2> QED BY <2>1, <2>2, <2>3, <2>4
<1>11. ASSUME NEW r \in Readers, ReadRow(r) PROVE IInv'
  <2> USE <1>11 DEF ReadRow, At, Read
  <2>1. CopiesTypeOK' /\ CopyIsFresh'
    BY DEF CopiesTypeOK, CopyIsFresh, Versions
  <2>2. QueueTypeOK' /\ QueueInv'
    BY DEF QueueTypeOK, QueueInv
  <2>3. ReadersTypeOK' /\ ReadingsAreFresh' /\ HandledIsSent'
    <3>1. PICK v \in {row, replica} : Becomes(r, Doing("set", v, v # row, reader[r].about))
      BY BackfillReads
    <3> DEFINE to == Doing("set", v, v # row, reader[r].about)
    <3>2. v \in Versions /\ (v # row) \in BOOLEAN
      BY DEF CopiesTypeOK, Versions
    <3>3. to \in Doings
      BY <3>2, FieldTypes, DoingType, BackfillReads
    <3>4. to.seen = v /\ to.old = (v # row) /\ to.about = reader[r].about
      BY DEF Doing
    <3> HIDE DEF to
    <3> QED BY <3>1, <3>3, <3>4, BackfillReads, ReaderSteps DEF HandledIsSent, to
  <2>4. OthersTypeOK'
    BY DEF OthersTypeOK
  <2> QED BY <2>1, <2>2, <2>3, <2>4
<1>12. ASSUME NEW r \in Readers, Set(r) PROVE IInv'
  <2> USE <1>12 DEF Set, At, Answered
  <2>1. CopiesTypeOK' /\ CopyIsFresh'
    <3>1. reader[r].seen \in Versions
      BY FieldTypes
    <3>2. CopiesTypeOK'
      BY <3>1 DEF CopiesTypeOK, Versions
    <3>3. CopyIsFresh'
      BY DEF CopyIsFresh, ReadingsAreFresh, Undropped
    <3> QED BY <3>2, <3>3
  <2>2. QueueTypeOK' /\ QueueInv'
    BY DEF QueueTypeOK, QueueInv
  <2>3. ReadersTypeOK' /\ ReadingsAreFresh' /\ HandledIsSent'
    <3> DEFINE to == IF r \in Clients THEN Asking ELSE Doing("index", reader[r].seen, reader[r].old, reader[r].about)
    <3>1. reader[r].seen \in Versions /\ reader[r].old \in BOOLEAN /\ reader[r].about \in Changes \cup {NoMessage}
      BY FieldTypes DEF CopiesTypeOK, OthersTypeOK
    <3>2. to \in Doings /\ to.at # "set" /\ (to.about = NoMessage \/ to.about = reader[r].about)
      BY <3>1, DoingType, RestingTypes DEF Asking, Doing
    <3>3. Becomes(r, to)
      OBVIOUS
    <3> HIDE DEF to
    <3> QED BY <3>2, <3>3, ReaderSteps DEF HandledIsSent
  <2>4. OthersTypeOK'
    BY FieldTypes DEF OthersTypeOK
  <2> QED BY <2>1, <2>2, <2>3, <2>4
<1>13. ASSUME NEW r \in Readers, SetFails(r) PROVE IInv'
  <2> USE <1>13 DEF SetFails, At, Answered
  <2>1. CopiesTypeOK' /\ CopyIsFresh'
    BY DEF CopiesTypeOK, CopyIsFresh, Versions
  <2>2. QueueTypeOK' /\ QueueInv'
    BY DEF QueueTypeOK, QueueInv
  <2>3. ReadersTypeOK' /\ ReadingsAreFresh' /\ HandledIsSent'
    <3> DEFINE to == IF r \in Clients THEN Asking ELSE Doing("index", reader[r].seen, reader[r].old, reader[r].about)
    <3>1. reader[r].seen \in Versions /\ reader[r].old \in BOOLEAN /\ reader[r].about \in Changes \cup {NoMessage}
      BY FieldTypes DEF CopiesTypeOK, OthersTypeOK
    <3>2. to \in Doings /\ to.at # "set" /\ (to.about = NoMessage \/ to.about = reader[r].about)
      BY <3>1, DoingType, RestingTypes DEF Asking, Doing
    <3>3. Becomes(r, to)
      OBVIOUS
    <3> HIDE DEF to
    <3> QED BY <3>2, <3>3, ReaderSteps DEF HandledIsSent
  <2>4. OthersTypeOK'
    BY DEF OthersTypeOK
  <2> QED BY <2>1, <2>2, <2>3, <2>4
<1>14. ASSUME NEW r \in Readers, IndexEntity(r) PROVE IInv'
  <2> USE <1>14 DEF IndexEntity, At
  <2>1. CopiesTypeOK' /\ CopyIsFresh'
    <3>1. doc' \in Versions
      BY FieldTypes, BackfillReads DEF Overwrites
    <3> QED BY <3>1 DEF CopiesTypeOK, CopyIsFresh, Versions
  <2>2. QueueTypeOK' /\ QueueInv'
    BY DEF QueueTypeOK, QueueInv
  <2>3. ReadersTypeOK' /\ ReadingsAreFresh' /\ HandledIsSent'
    <3> DEFINE next == Doing("delete", 0, FALSE, reader[r].about)
    <3>1. /\ next \in Doings
          /\ next.at # "set" /\ next.about = reader[r].about
      <4>1. 0 \in Versions
        BY DEF CopiesTypeOK, Versions
      <4>2. reader[r].about \in Changes \cup {NoMessage}
        BY FieldTypes
      <4>3. FALSE \in BOOLEAN /\ "delete" \in {"idle", "get", "read", "set", "index", "delete"}
        OBVIOUS
      <4>4. next \in Doings
        BY <4>1, <4>2, <4>3, DoingType
      <4>5. next.at = "delete" /\ next.about = reader[r].about
        BY DEF Doing
      <4> QED BY <4>4, <4>5
    <3>2. Overwrites(r, next)
      OBVIOUS
    <3> HIDE DEF next
    <3> QED BY <3>1, <3>2, OverwritesSteps, BackfillReads DEF HandledIsSent
  <2>4. OthersTypeOK'
    BY FieldTypes, BackfillReads DEF OthersTypeOK, Overwrites
  <2> QED BY <2>1, <2>2, <2>3, <2>4
<1>15. ASSUME NEW r \in Readers, DeleteMessage(r) PROVE IInv'
  <2> USE <1>15 DEF DeleteMessage, At, Gone
  <2>1. CopiesTypeOK' /\ CopyIsFresh'
    BY DEF CopiesTypeOK, CopyIsFresh, Versions
  <2>2. QueueTypeOK' /\ QueueInv'
    <3> DEFINE c == reader[r].about
    <3>1. \/ UNCHANGED queue
          \/ \E how \in {"deleted", "dead"} : Gone(c, how)
      OBVIOUS
    <3>2. CASE UNCHANGED queue
      BY <3>2 DEF QueueTypeOK, QueueInv
    <3>3. ASSUME NEW how \in {"deleted", "dead"}, Gone(c, how)
          PROVE  QueueTypeOK' /\ QueueInv'
      <4>1. change' = change
        OBVIOUS
      <4>2. c \in Changes => change[c] = "done"
        BY DEF HandledIsSent
      <4> HIDE DEF c
      <4>3. CASE c \in Changes
        <5>1. 0 \in 0 .. MaxReceives
          BY Limits
        <5>2. change' \in [Changes -> {"new", "evict", "publish", "done"}]
          BY <4>1 DEF QueueTypeOK
        <5> QED BY <3>3, <4>1, <4>2, <4>3, <5>1, <5>2, QueueSteps DEF Gone
      <4>4. CASE c \notin Changes
        <5>1. message' = [message EXCEPT ![c] = how] /\ receives' = [receives EXCEPT ![c] = 0]
          BY <3>3 DEF Gone
        <5>2. message \in [Changes -> {"none", "queued", "in flight", "deleted", "dead"}]
          BY DEF QueueTypeOK
        <5>3. receives \in [Changes -> 0 .. MaxReceives]
          BY DEF QueueTypeOK
        <5>4. message' = message
          BY <4>4, <5>1, <5>2
        <5>5. receives' = receives
          BY <4>4, <5>1, <5>3
        <5> QED BY <4>1, <5>4, <5>5 DEF QueueTypeOK, QueueInv
      <4> QED BY <4>3, <4>4
    <3> QED BY <3>1, <3>2, <3>3
  <2>3. ReadersTypeOK' /\ ReadingsAreFresh' /\ HandledIsSent'
    <3>1. Resting \in Doings /\ Resting.at # "set" /\ Resting.about = NoMessage
      BY RestingTypes DEF Resting, Doing
    <3> QED BY <3>1, ReaderSteps
  <2>4. OthersTypeOK'
    BY DEF OthersTypeOK
  <2> QED BY <2>1, <2>2, <2>3, <2>4
<1>16. ASSUME NEW r \in Readers, HandlingFails(r) PROVE IInv'
  <2> USE <1>16 DEF HandlingFails, At
  <2>1. CopiesTypeOK' /\ CopyIsFresh'
    BY DEF CopiesTypeOK, CopyIsFresh, Versions
  <2>2. QueueTypeOK' /\ QueueInv'
    BY DEF QueueTypeOK, QueueInv
  <2>3. ReadersTypeOK' /\ ReadingsAreFresh' /\ HandledIsSent'
    <3>1. Resting \in Doings /\ Resting.at # "set" /\ Resting.about = NoMessage
      BY RestingTypes DEF Resting, Doing
    <3> QED BY <3>1, ReaderSteps
  <2>4. OthersTypeOK'
    BY DEF OthersTypeOK
  <2> QED BY <2>1, <2>2, <2>3, <2>4
<1>17. ASSUME NEW r \in Readers, NEW c \in Changes, Receive(r, c) PROVE IInv'
  <2> USE <1>17 DEF Receive, At
  <2>1. CopiesTypeOK' /\ CopyIsFresh'
    BY DEF CopiesTypeOK, CopyIsFresh, Versions
  <2>2. QueueTypeOK' /\ QueueInv'
    <3>1. change[c] = "done" /\ receives[c] < MaxReceives
      BY DEF QueueInv
    <3>2. receives[c] \in 0 .. MaxReceives
      BY DEF QueueTypeOK
    <3>3. receives[c] + 1 \in 0 .. MaxReceives
      BY <3>1, <3>2, Limits
    <3>4. message' = [message EXCEPT ![c] = "in flight"] /\ receives' = [receives EXCEPT ![c] = receives[c] + 1]
      OBVIOUS
    <3>5. change' \in [Changes -> {"new", "evict", "publish", "done"}] /\ change' = change
      BY DEF QueueTypeOK
    <3> QED BY <3>1, <3>3, <3>4, <3>5, QueueSteps
  <2>3. ReadersTypeOK' /\ ReadingsAreFresh' /\ HandledIsSent'
    <3> DEFINE to == Doing("get", 0, FALSE, c)
    <3>1. to \in Doings /\ to.at # "set" /\ to.about = c
      BY RestingTypes DEF Doing
    <3>2. change[c] = "done"
      BY DEF QueueInv
    <3>3. Becomes(r, to)
      OBVIOUS
    <3> HIDE DEF to
    <3> QED BY <3>1, <3>2, <3>3, ReaderSteps
  <2>4. OthersTypeOK'
    BY DEF OthersTypeOK
  <2> QED BY <2>1, <2>2, <2>3, <2>4
<1>18. ASSUME Expire PROVE IInv'
  <2> USE <1>18 DEF Expire
  <2>1. CopiesTypeOK' /\ CopyIsFresh'
    BY DEF CopiesTypeOK, CopyIsFresh, Versions
  <2>2. QueueTypeOK' /\ QueueInv'
    BY DEF QueueTypeOK, QueueInv
  <2>3. ReadersTypeOK' /\ ReadingsAreFresh' /\ HandledIsSent'
    BY SameTypes DEF ReadersTypeOK, ReadingsAreFresh, HandledIsSent, At, Undropped
  <2>4. OthersTypeOK'
    BY DEF OthersTypeOK
  <2> QED BY <2>1, <2>2, <2>3, <2>4
<1>19. ASSUME Replicate PROVE IInv'
  <2> USE <1>19 DEF Replicate
  <2>1. CopiesTypeOK' /\ CopyIsFresh'
    BY DEF CopiesTypeOK, CopyIsFresh, Versions
  <2>2. QueueTypeOK' /\ QueueInv'
    BY DEF QueueTypeOK, QueueInv
  <2>3. ReadersTypeOK' /\ ReadingsAreFresh' /\ HandledIsSent'
    BY SameTypes DEF ReadersTypeOK, ReadingsAreFresh, HandledIsSent, At, Undropped
  <2>4. OthersTypeOK'
    BY DEF OthersTypeOK
  <2> QED BY <2>1, <2>2, <2>3, <2>4
<1>20. ASSUME BackfillPage PROVE IInv'
  <2> USE <1>20 DEF BackfillPage, At, Read
  <2>1. CopiesTypeOK' /\ CopyIsFresh'
    BY DEF CopiesTypeOK, CopyIsFresh, Versions
  <2>2. QueueTypeOK' /\ QueueInv'
    BY DEF QueueTypeOK, QueueInv
  <2>3. ReadersTypeOK' /\ ReadingsAreFresh' /\ HandledIsSent'
    <3>1. PICK v \in {row, replica} : Becomes(Backfill, Doing("index", v, v # row, reader[Backfill].about))
      BY BackfillReads
    <3> DEFINE to == Doing("index", v, v # row, reader[Backfill].about)
    <3>2. v \in Versions /\ (v # row) \in BOOLEAN
      BY DEF CopiesTypeOK, Versions
    <3>3. to \in Doings
      BY <3>2, FieldTypes, DoingType, BackfillReads
    <3>4. to.seen = v /\ to.old = (v # row) /\ to.about = reader[Backfill].about
      BY DEF Doing
    <3> HIDE DEF to
    <3> QED BY <3>1, <3>3, <3>4, BackfillReads, ReaderSteps DEF HandledIsSent, to
  <2>4. OthersTypeOK'
    BY DEF OthersTypeOK
  <2> QED BY <2>1, <2>2, <2>3, <2>4
<1>21. ASSUME BulkIndex PROVE IInv'
  <2> USE <1>21 DEF BulkIndex, At
  <2>1. CopiesTypeOK' /\ CopyIsFresh'
    <3>1. doc' \in Versions
      BY FieldTypes, BackfillReads DEF Overwrites
    <3> QED BY <3>1 DEF CopiesTypeOK, CopyIsFresh, Versions
  <2>2. QueueTypeOK' /\ QueueInv'
    BY DEF QueueTypeOK, QueueInv
  <2>3. ReadersTypeOK' /\ ReadingsAreFresh' /\ HandledIsSent'
    <3> DEFINE next == Resting
    <3>1. next \in Doings /\ next.at # "set" /\ (next.about = NoMessage \/ next.about = reader[Backfill].about)
      BY FieldTypes, DoingType, RestingTypes, BackfillReads DEF Doing, Resting
    <3>2. Overwrites(Backfill, next)
      OBVIOUS
    <3> HIDE DEF next
    <3> QED BY <3>1, <3>2, OverwritesSteps, BackfillReads DEF HandledIsSent
  <2>4. OthersTypeOK'
    BY FieldTypes, BackfillReads DEF OthersTypeOK, Overwrites
  <2> QED BY <2>1, <2>2, <2>3, <2>4
<1>22. ASSUME BulkIndexFails PROVE IInv'
  <2> USE <1>22 DEF BulkIndexFails, At
  <2>1. CopiesTypeOK' /\ CopyIsFresh'
    BY DEF CopiesTypeOK, CopyIsFresh, Versions
  <2>2. QueueTypeOK' /\ QueueInv'
    BY DEF QueueTypeOK, QueueInv
  <2>3. ReadersTypeOK' /\ ReadingsAreFresh' /\ HandledIsSent'
    <3>1. Resting \in Doings /\ Resting.at # "set" /\ Resting.about = NoMessage
      BY RestingTypes DEF Resting, Doing
    <3> QED BY <3>1, ReaderSteps, BackfillReads
  <2>4. OthersTypeOK'
    BY DEF OthersTypeOK
  <2> QED BY <2>1, <2>2, <2>3, <2>4
<1>23. ASSUME NEW c \in Changes, Write(c) PROVE IInv'
  BY <1>23, <1>1, <1>2, <1>3, <1>4, <1>5, <1>6 DEF Write
<1>24. ASSUME NEW r \in Readers, Handle(r) PROVE IInv'
  BY <1>24, <1>9, <1>10, <1>11, <1>12, <1>13, <1>14, <1>15 DEF Handle
<1>25. \A r \in Indexers : r \in Readers
  BY DEF Readers
<1> HIDE DEF IInv, Fault, product, queue, index
<1> QED
  BY <1>7, <1>8, <1>16, <1>17, <1>18, <1>19, <1>20, <1>21, <1>22, <1>23, <1>24, <1>25 DEF Next

LEMMA InvariantHolds == Spec => []IInv
<1>1. IInv /\ UNCHANGED vars => IInv'
  <2> SUFFICES ASSUME IInv, UNCHANGED vars PROVE IInv'
    OBVIOUS
  <2> USE DEF IInv, vars, product, queue, index
  <2>1. CopiesTypeOK' /\ CopyIsFresh'
    BY DEF CopiesTypeOK, CopyIsFresh, Versions
  <2>2. QueueTypeOK' /\ QueueInv'
    BY DEF QueueTypeOK, QueueInv
  <2>3. ReadersTypeOK' /\ ReadingsAreFresh' /\ HandledIsSent'
    BY SameTypes DEF ReadersTypeOK, ReadingsAreFresh, HandledIsSent, At, Undropped
  <2>4. OthersTypeOK'
    BY DEF OthersTypeOK
  <2> QED BY <2>1, <2>2, <2>3, <2>4
<1>2. IInv /\ [Next]_vars => IInv'
  BY <1>1, NextInvariant
<1> QED BY InitInvariant, <1>2, PTL DEF Spec

---------------------------------------------------------------------------
(* The document. *)

\* Some handling is still to fetch the product because of this change.
Due(c) ==
    \/ change[c] \in {"evict", "publish"}
    \/ /\ message[c] \in {"queued", "in flight"}
       /\ \A r \in Readers : ~(At(r, "delete") /\ reader[r].about = c)

DocumentIsRow == ~docOld /\ ~missed /\ (\A c \in Changes : ~Due(c)) => doc = row

\* DocumentIsRow is not inductive: what is written next was fetched before. The
\* change that a handling is about is the one that it sees to itself.
FetchedIsRow ==
    \A r \in Readers :
        At(r, "index") /\ ~reader[r].old /\ (\A c \in Changes : c # reader[r].about => ~Due(c))
            => reader[r].seen = row

SettledInv == DocumentIsRow /\ FetchedIsRow

LEMMA InitSettled == Init => SettledInv
<1> SUFFICES ASSUME Init PROVE SettledInv
  OBVIOUS
<1>1. \A r \in Readers : reader[r].at \in {"idle", "get"}
  BY DEF Init, Resting, Asking, Doing
<1> QED BY <1>1 DEF Init, SettledInv, DocumentIsRow, FetchedIsRow, At

\* A step that sees to no change, and after which those about to write the document
\* have fetched the row.
LEMMA KeepsSettled ==
    ASSUME SettledInv, row' = row, UNCHANGED index,
           \A c \in Changes : Due(c) => Due(c)',
           \A s \in Readers :
               \/ reader'[s] = reader[s]
               \/ reader'[s].at = "index" /\ ~reader'[s].old
                     /\ (\A c \in Changes : c # reader'[s].about => ~Due(c))
                         => reader'[s].seen = row
    PROVE  SettledInv'
<1>1. DocumentIsRow'
  BY DEF SettledInv, DocumentIsRow, index
<1>2. FetchedIsRow'
  <2> SUFFICES ASSUME NEW s \in Readers, At(s, "index")', ~reader'[s].old,
                      \A c \in Changes : c # reader'[s].about => ~Due(c)'
               PROVE  reader'[s].seen = row
    BY DEF FetchedIsRow
  <2>1. \A c \in Changes : c # reader'[s].about => ~Due(c)
    OBVIOUS
  <2> QED BY <2>1 DEF SettledInv, FetchedIsRow, At
<1> QED BY <1>1, <1>2 DEF SettledInv

\* A reader that goes elsewhere than to "delete" sees to no change.
LEMMA ReaderSettled ==
    ASSUME IInv, SettledInv, NEW r \in Readers, NEW to, Becomes(r, to), to.at # "delete",
           UNCHANGED <<row, change, queue, index>>,
           to.at = "index" /\ ~to.old /\ (\A c \in Changes : c # to.about => ~Due(c))
               => to.seen = row
    PROVE  SettledInv'
<1>1. reader'[r] = to /\ \A s \in Readers \ {r} : reader'[s] = reader[s]
  BY DEF IInv, ReadersTypeOK, Becomes
<1>2. ASSUME NEW c \in Changes, Due(c) PROVE Due(c)'
  BY <1>1, <1>2 DEF Due, At, queue
<1>3. UNCHANGED index
  OBVIOUS
<1> QED BY <1>1, <1>2, <1>3, KeepsSettled

\* What is lost is remembered until a document is written from what was fetched since.
LEMMA MissedSettled ==
    ASSUME Missed PROVE SettledInv'
<1>1. missed' = TRUE /\ reader' = Overtaken({"set", "index"})
  BY DEF Missed
<1>2. DocumentIsRow'
  BY <1>1 DEF DocumentIsRow
<1>3. FetchedIsRow'
  <2> SUFFICES ASSUME NEW s \in Readers, At(s, "index")', ~reader'[s].old PROVE FALSE
    BY DEF FetchedIsRow
  <2> DEFINE steps == {"set", "index"}
  <2>1. reader' = Overtaken(steps) /\ "index" \in steps
    BY <1>1
  <2> HIDE DEF steps
  <2>2. reader'[s].at = reader[s].at /\ reader'[s].old = (reader[s].old \/ reader[s].at \in steps)
    BY <2>1, OvertakenFields
  <2> QED BY <2>1, <2>2 DEF At
<1> QED BY <1>2, <1>3 DEF SettledInv

\* Steps of a change before its event: those at "set" may be overtaken.
LEMMA ChangeSettled ==
    ASSUME IInv, SettledInv, NEW c \in Changes, Due(c)', change[c] # "done",
           UNCHANGED <<queue, index>>,
           \A d \in Changes \ {c} : change'[d] = change[d],
           \/ reader' = reader
           \/ reader' = Overtaken({"set"})
    PROVE  SettledInv'
<1>1. DocumentIsRow'
  BY DEF DocumentIsRow
<1>2. FetchedIsRow'
  <2> SUFFICES ASSUME NEW s \in Readers, \A d \in Changes : d # reader'[s].about => ~Due(d)'
               PROVE  FALSE
    BY DEF FetchedIsRow
  <2>1. reader'[s].about = reader[s].about
    BY OvertakenFields
  <2>2. reader[s].about # c
    BY DEF IInv, HandledIsSent
  <2> QED BY <2>1, <2>2
<1> QED BY <1>1, <1>2 DEF SettledInv

\* What a handling fetches is the row when no other change is to be seen to: its own is
\* through, so no eviction is due.
LEMMA NoneUndropped ==
    ASSUME IInv, NEW r \in Readers, \A c \in Changes : c # reader[r].about => ~Due(c)
    PROVE  ~Undropped
  BY DEF IInv, HandledIsSent, Undropped, Due

\* The document is written from what r fetched.
LEMMA OverwritesSettled ==
    ASSUME IInv, SettledInv, NEW r \in Readers, NEW next, Overwrites(r, next), At(r, "index"),
           next.at # "index", row' = row, UNCHANGED <<change, queue>>,
           next.at = "delete" => next.about = reader[r].about
    PROVE  SettledInv'
<1> DEFINE steps == {"index"}
<1>1. reader' = [Overtaken(steps) EXCEPT ![r] = next]
  BY DEF Overwrites
<1>2. Overtaken(steps) \in [Readers -> Doings]
  BY OvertakenType DEF IInv
<1>3. ASSUME NEW s \in Readers, Overtaken(steps)[s].at = "index" PROVE Overtaken(steps)[s].old
  <2>1. reader[s].at \in steps
    BY <1>3, OvertakenFields
  <2> HIDE DEF steps
  <2> QED BY <2>1, OvertakenFields
<1>4. \A s \in Readers : /\ Overtaken(steps)[s].at = reader[s].at
                         /\ Overtaken(steps)[s].about = reader[s].about
  BY OvertakenFields
<1> HIDE DEF steps
<1>5. reader'[r] = next /\ \A s \in Readers \ {r} : reader'[s] = Overtaken(steps)[s]
  BY <1>1, <1>2
<1>6. ASSUME NEW c \in Changes, c # reader[r].about, Due(c) PROVE Due(c)'
  <2>1. change' = change /\ message' = message
    BY DEF queue
  <2>2. ASSUME NEW s \in Readers, At(s, "delete")', reader'[s].about = c
        PROVE  At(s, "delete") /\ reader[s].about = c
    <3>1. CASE s = r
      BY <1>5, <1>6, <2>2, <3>1 DEF At
    <3>2. CASE s # r
      BY <1>4, <1>5, <2>2, <3>2 DEF At
    <3> QED BY <3>1, <3>2
  <2> QED BY <1>6, <2>1, <2>2 DEF Due
<1>7. DocumentIsRow'
  <2> SUFFICES ASSUME ~docOld', \A c \in Changes : ~Due(c)' PROVE doc' = row
    BY DEF DocumentIsRow
  <2>1. doc' = reader[r].seen /\ ~reader[r].old
    BY DEF Overwrites
  <2>2. \A c \in Changes : c # reader[r].about => ~Due(c)
    BY <1>6
  <2> QED BY <2>1, <2>2 DEF SettledInv, FetchedIsRow
<1>8. FetchedIsRow'
  BY <1>3, <1>5 DEF FetchedIsRow, At
<1> QED BY <1>7, <1>8 DEF SettledInv

LEMMA NextSettled ==
    ASSUME IInv, SettledInv, Next PROVE SettledInv'
<1> USE DEF product
<1>1. ASSUME NEW c \in Changes, Commit(c) PROVE SettledInv'
  <2>1. change'[c] = "evict" /\ \A d \in Changes \ {c} : change'[d] = change[d]
    BY <1>1, ProceedsFacts DEF Commit, IInv
  <2> QED BY <1>1, <2>1, ChangeSettled DEF Commit, Due
<1>2. ASSUME NEW c \in Changes, Evict(c) \/ EvictFails(c) PROVE SettledInv'
  <2>1. change'[c] = "publish" /\ \A d \in Changes \ {c} : change'[d] = change[d]
    BY <1>2, ProceedsFacts DEF Evict, EvictFails, IInv
  <2> QED BY <1>2, <2>1, ChangeSettled DEF Evict, EvictFails, Due
<1>3. ASSUME NEW c \in Changes, Publish(c) PROVE SettledInv'
  <2>1. change[c] = "publish" /\ \A d \in Changes \ {c} : change'[d] = change[d]
    BY <1>3, ProceedsFacts DEF Publish, IInv
  <2>2. message'[c] = "queued" /\ \A d \in Changes \ {c} : message'[d] = message[d]
    BY <1>3 DEF Publish, IInv, QueueTypeOK
  <2>3. UNCHANGED <<row, reader, index>>
    BY <1>3 DEF Publish
  <2>4. \A r \in Readers : reader[r].about # c
    BY <2>1 DEF IInv, HandledIsSent
  <2>5. ASSUME NEW d \in Changes, Due(d) PROVE Due(d)'
    BY <2>1, <2>2, <2>3, <2>4, <2>5 DEF Due, At
  <2> QED BY <2>3, <2>5, KeepsSettled
<1>4. ASSUME NEW c \in Changes, NothingPublished(c) \/ PublishFails(c) \/ ChangeDies(c)
      PROVE  SettledInv'
  BY <1>4, MissedSettled DEF NothingPublished, PublishFails, ChangeDies
<1>5. ASSUME NEW c \in Changes, Reappear(c) PROVE SettledInv'
  <2>1. CASE Missed
    BY <2>1, MissedSettled
  <2>2. CASE ~Missed
    <3>1. message[c] = "in flight" /\ message' = [message EXCEPT ![c] = "queued"]
      BY <1>5, <2>2 DEF Reappear
    <3>2. UNCHANGED <<row, change, reader>> /\ UNCHANGED index
      BY <1>5, <2>2 DEF Reappear
    <3>3. message'[c] = "queued" /\ \A d \in Changes \ {c} : message'[d] = message[d]
      BY <3>1 DEF IInv, QueueTypeOK
    <3>4. ASSUME NEW d \in Changes, Due(d) PROVE Due(d)'
      BY <3>2, <3>3, <3>4 DEF Due, At
    <3> QED BY <3>2, <3>4, KeepsSettled
  <2> QED BY <2>1, <2>2
<1>6. ASSUME NEW r \in Readers, Hit(r) PROVE SettledInv'
  <2> DEFINE to == IF r \in Clients THEN Asking ELSE Doing("index", cache, copyOld, reader[r].about)
  <2>1. Becomes(r, to) /\ UNCHANGED <<row, change, queue, index>>
    BY <1>6 DEF Hit, Answered
  <2>2. to.at # "delete"
    BY DEF Asking, Doing
  <2>3. to.at = "index" => to.seen = cache /\ to.old = copyOld /\ to.about = reader[r].about
    BY DEF Asking, Doing
  <2> HIDE DEF to
  <2>4. ASSUME to.at = "index", ~to.old, \A c \in Changes : c # to.about => ~Due(c)
        PROVE  to.seen = row
    <3>1. ~Undropped
      BY <2>3, <2>4, NoneUndropped
    <3> QED BY <1>6, <2>3, <2>4, <3>1 DEF Hit, IInv, CopyIsFresh, Undropped
  <2> QED BY <2>1, <2>2, <2>4, ReaderSettled
<1>7. ASSUME NEW r \in Readers, Miss(r) PROVE SettledInv'
  <2> DEFINE to == Doing("read", reader[r].seen, reader[r].old, reader[r].about)
  <2>1. Becomes(r, to) /\ UNCHANGED <<row, change, queue, index>>
    BY <1>7 DEF Miss, Goes
  <2>2. to.at = "read"
    BY DEF Doing
  <2> HIDE DEF to
  <2> QED BY <2>1, <2>2, ReaderSettled
<1>8. ASSUME NEW r \in Readers, ReadRow(r) PROVE SettledInv'
  <2>1. PICK v : Becomes(r, Doing("set", v, v # row, reader[r].about))
    BY <1>8 DEF ReadRow, Read
  <2> DEFINE to == Doing("set", v, v # row, reader[r].about)
  <2>2. Becomes(r, to) /\ UNCHANGED <<row, change, queue, index>>
    BY <1>8, <2>1 DEF ReadRow
  <2>3. to.at = "set"
    BY DEF Doing
  <2> HIDE DEF to
  <2> QED BY <2>2, <2>3, ReaderSettled
<1>9. ASSUME NEW r \in Readers, Set(r) \/ SetFails(r) PROVE SettledInv'
  <2> DEFINE to == IF r \in Clients THEN Asking
                   ELSE Doing("index", reader[r].seen, reader[r].old, reader[r].about)
  <2>1. Becomes(r, to) /\ UNCHANGED <<row, change, queue, index>> /\ At(r, "set")
    BY <1>9 DEF Set, SetFails, Answered
  <2>2. to.at # "delete"
    BY DEF Asking, Doing
  <2>3. to.at = "index" => /\ to.seen = reader[r].seen /\ to.old = reader[r].old
                           /\ to.about = reader[r].about
    BY DEF Asking, Doing
  <2> HIDE DEF to
  <2>4. ASSUME to.at = "index", ~to.old, \A c \in Changes : c # to.about => ~Due(c)
        PROVE  to.seen = row
    <3>1. ~Undropped
      BY <2>3, <2>4, NoneUndropped
    <3> QED BY <2>1, <2>3, <2>4, <3>1 DEF IInv, ReadingsAreFresh
  <2> QED BY <2>1, <2>2, <2>4, ReaderSettled
<1>10. ASSUME NEW r \in Readers, IndexEntity(r) PROVE SettledInv'
  <2> DEFINE next == Doing("delete", 0, FALSE, reader[r].about)
  <2>1. next.at = "delete" /\ next.about = reader[r].about
    BY DEF Doing
  <2>2. Overwrites(r, next) /\ At(r, "index") /\ row' = row /\ UNCHANGED <<change, queue>>
    BY <1>10 DEF IndexEntity
  <2> HIDE DEF next
  <2> QED BY <2>1, <2>2, OverwritesSettled
<1>11. ASSUME NEW r \in Readers, DeleteMessage(r) PROVE SettledInv'
  <2>1. Becomes(r, Resting) /\ At(r, "delete") /\ UNCHANGED <<row, change, index>>
    BY <1>11 DEF DeleteMessage
  <2>2. Resting.at = "idle"
    BY DEF Resting, Doing
  <2>3. reader'[r] = Resting /\ \A s \in Readers \ {r} : reader'[s] = reader[s]
    BY <2>1 DEF IInv, ReadersTypeOK, Becomes
  <2>4. \A d \in Changes : d # reader[r].about => message'[d] = message[d]
    BY <1>11 DEF DeleteMessage, Gone, queue, IInv, QueueTypeOK
  <2>5. ASSUME NEW d \in Changes, Due(d) PROVE Due(d)'
    <3>1. CASE change[d] \in {"evict", "publish"}
      BY <2>1, <3>1 DEF Due
    <3>2. CASE change[d] \notin {"evict", "publish"}
      <4>1. reader[r].about # d
        BY <2>1, <2>5, <3>2 DEF Due
      <4> QED BY <2>2, <2>3, <2>4, <2>5, <3>2, <4>1 DEF Due, At
    <3> QED BY <3>1, <3>2
  <2> QED BY <2>1, <2>2, <2>3, <2>5, KeepsSettled
<1>12. ASSUME NEW r \in Readers, HandlingFails(r) PROVE SettledInv'
  <2>1. Becomes(r, Resting) /\ UNCHANGED <<row, change, queue, index>>
    BY <1>12 DEF HandlingFails
  <2>2. Resting.at = "idle"
    BY DEF Resting, Doing
  <2> QED BY <2>1, <2>2, ReaderSettled
<1>13. ASSUME NEW r \in Readers, NEW c \in Changes, Receive(r, c) PROVE SettledInv'
  <2> DEFINE to == Doing("get", 0, FALSE, c)
  <2>1. to.at = "get"
    BY DEF Doing
  <2>2. Becomes(r, to) /\ message[c] = "queued" /\ UNCHANGED <<row, change, index>>
    BY <1>13 DEF Receive
  <2> HIDE DEF to
  <2>3. reader'[r] = to /\ \A s \in Readers \ {r} : reader'[s] = reader[s]
    BY <2>2 DEF IInv, ReadersTypeOK, Becomes
  <2>4. message'[c] = "in flight" /\ \A d \in Changes \ {c} : message'[d] = message[d]
    BY <1>13 DEF Receive, IInv, QueueTypeOK
  <2>5. ASSUME NEW d \in Changes, Due(d) PROVE Due(d)'
    BY <2>1, <2>2, <2>3, <2>4, <2>5 DEF Due, At
  <2> QED BY <2>1, <2>2, <2>3, <2>5, KeepsSettled
<1>14. ASSUME Expire \/ Replicate PROVE SettledInv'
  <2>1. UNCHANGED <<row, change, queue, reader>> /\ UNCHANGED index
    BY <1>14 DEF Expire, Replicate
  <2>2. \A d \in Changes : Due(d) => Due(d)'
    BY <2>1 DEF Due, At, queue
  <2> QED BY <2>1, <2>2, KeepsSettled
<1>15. ASSUME BackfillPage PROVE SettledInv'
  <2>1. PICK v : Becomes(Backfill, Doing("index", v, v # row, reader[Backfill].about))
    BY <1>15 DEF BackfillPage, Read
  <2> DEFINE to == Doing("index", v, v # row, reader[Backfill].about)
  <2>2. Becomes(Backfill, to) /\ UNCHANGED <<row, change, queue, index>>
    BY <1>15, <2>1 DEF BackfillPage
  <2>3. to.at = "index" /\ to.old = (v # row) /\ to.seen = v
    BY DEF Doing
  <2>4. to.at # "delete" /\ (~to.old => to.seen = row)
    BY <2>3
  <2> HIDE DEF to
  <2> QED BY <2>2, <2>4, BackfillReads, ReaderSettled
<1>16. ASSUME BulkIndex PROVE SettledInv'
  <2> DEFINE next == Resting
  <2>1. next.at = "idle"
    BY DEF Resting, Doing
  <2>2. /\ Overwrites(Backfill, next) /\ At(Backfill, "index") /\ row' = row
        /\ UNCHANGED <<change, queue>>
    BY <1>16 DEF BulkIndex
  <2> HIDE DEF next
  <2> QED BY <2>1, <2>2, BackfillReads, OverwritesSettled
<1>17. ASSUME BulkIndexFails PROVE SettledInv'
  <2>1. Becomes(Backfill, Resting) /\ UNCHANGED <<row, change, queue, index>>
    BY <1>17 DEF BulkIndexFails
  <2>2. Resting.at = "idle"
    BY DEF Resting, Doing
  <2> QED BY <2>1, <2>2, BackfillReads, ReaderSettled
<1>18. \A r \in Indexers : r \in Readers
  BY DEF Readers
<1> QED
  BY <1>1, <1>2, <1>3, <1>4, <1>5, <1>6, <1>7, <1>8, <1>9, <1>10, <1>11, <1>12, <1>13, <1>14,
     <1>15, <1>16, <1>17, <1>18
  DEF Next, Write, Handle

LEMMA SettledHolds == Spec => []SettledInv
<1>1. SettledInv /\ UNCHANGED vars => SettledInv'
  <2> SUFFICES ASSUME SettledInv, UNCHANGED vars PROVE SettledInv'
    OBVIOUS
  <2>1. row' = row /\ UNCHANGED index /\ reader' = reader
    BY DEF vars, product
  <2>2. \A c \in Changes : Due(c) => Due(c)'
    BY DEF Due, At, vars, queue
  <2> QED BY <2>1, <2>2, KeepsSettled
<1>2. IInv /\ SettledInv /\ [Next]_vars => SettledInv'
  BY <1>1, NextSettled
<1> QED BY InitSettled, InvariantHolds, <1>2, PTL DEF Spec

---------------------------------------------------------------------------

\* Every variable keeps its type, no copy is newer than the row, and a message is
\* delivered MaxReceives times at most (the queue of product events).
THEOREM ProjectionTypeCorrect == Spec => []ProjectionTypeOK
<1>1. IInv => ProjectionTypeOK
  BY DEF IInv, ProjectionTypeOK, ReadersTypeOK, OthersTypeOK
<1> QED BY <1>1, InvariantHolds, PTL

\* The copy in Redis is the row, outside the windows that CopyIsFresh names
\* (findById and the eviction after a stock write).
THEOREM CopyStaysFresh == Spec => []CopyIsFresh
<1>1. IInv => CopyIsFresh
  BY DEF IInv
<1> QED BY <1>1, InvariantHolds, PTL
\* When nothing is under way, the document in the index is the row, in whatever order
\* evictions, events, deliveries, fetches and deletions came, outside the windows that
\* DocumentSettles names (index-entity.handler, the queue and the backfill).
THEOREM DocumentConverges == Spec => []DocumentSettles
<1>1. SettledInv => DocumentSettles
  BY DEF SettledInv, DocumentIsRow, DocumentSettles, Quiet, Due
<1> QED BY <1>1, SettledHolds, PTL
=============================================================================
