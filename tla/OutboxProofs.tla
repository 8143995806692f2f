---------------------------- MODULE OutboxProofs ----------------------------
(***************************************************************************)
(* What the outbox keeps, for any number of actions, jobs and technicians, *)
(* and any number of kills, sign-outs, retries and store failures.         *)
(***************************************************************************)
EXTENDS Outbox, TLAPS

---------------------------------------------------------------------------
(* The invariant. *)

\* Actions are queued in the order of their ids.
QueuedInOrder == \A q, r \in Rows : q < r /\ Queued(r) => Queued(q)

\* Only a drain handles rows, and only rows of the table: the one that runs, and
\* those that were cut short before it.
OnlyDrainsSend ==
    \A r \in Rows, d \in Drains : fiber[r][d].at # "none" =>
        Queued(r) /\ (d < broken \/ (d = broken /\ draining))

OkHasLanded ==
    \A r \in Rows, d \in Drains :
        fiber[r][d].at = "answered" /\ fiber[r][d].answer = "ok" => r \in landed

\* An interrupted action that is not idempotent is parked, or was thrown away.
OrphansWait ==
    \A r \in Rows : orphaned[r] =>
        Queued(r) /\ Idle(r) /\ rows[r].state \in {"unknown", "removed"}

\* Until a drain is cut short, a row is in `sending` only while a drain has it in hand.
SendingIsInHand ==
    broken = 0 =>
        \A r \in Rows : Queued(r) /\ rows[r].state = "sending"
            => fiber[r][0].at \in {"wire", "answered"}

\* Only a failed attempt has a row wait.
WaitsAfterTrying == \A r \in Rows : Queued(r) /\ ~rows[r].due => rows[r].attempts > 0

\* Until then, while an action is handled, the older ones of its job are not being sent, and
\* those still to be sent were tried before.
OlderWereTried ==
    retries = 0 /\ broken = 0 =>
        \A q, r \in Rows :
            /\ q < r /\ fiber[r][0].at # "none" /\ Stored(q)
            /\ rows[q].job = rows[r].job /\ rows[q].user = rows[r].user
            => rows[q].state # "sending" /\ (rows[q].state = "pending" => rows[q].attempts > 0)

HistoryTypeOK ==
    /\ retries \in Nat /\ storeFailures \in Nat /\ broken <= storeFailures
    /\ discarded \in [Rows -> BOOLEAN] /\ orphaned \in [Rows -> BOOLEAN]

IInv ==
    /\ OutboxTypeOK /\ HistoryTypeOK
    /\ QueuedInOrder /\ OnlyDrainsSend /\ OneInFlightPerJob
    /\ OkHasLanded /\ NothingDisappears
    /\ OrphansWait /\ SendingIsInHand
    /\ WaitsAfterTrying /\ OlderWereTried

USE RowsAssumption, NobodyAssumption, NoRowAssumption

LEMMA DrainsAreNumbers == /\ Drains \subseteq Nat /\ 0 \in Drains
                          /\ \A n \in Nat : n < MaxStoreFailures => n + 1 \in Drains
  BY MaxStoreFailuresAssumption DEF Drains

---------------------------------------------------------------------------
(* Rows. *)

\* The technician, the job and the kind of a row never change.
SameAction(a, b) == a.user = b.user /\ a.job = b.job /\ a.kind = b.kind

\* Row r alone changes, to state s, a attempts, and due or not.
Turns(r, s, a, d) ==
    /\ rows' \in [Rows -> Actions \cup {NoRow}]
    /\ \A q \in Rows \ {r} : rows'[q] = rows[q]
    /\ rows'[r] \in Actions /\ rows'[r] # NoRow
    /\ SameAction(rows'[r], rows[r])
    /\ rows'[r].state = s /\ rows'[r].attempts = a /\ rows'[r].due = d

LEMMA ActionFields ==
    ASSUME NEW a \in Actions
    PROVE  /\ a.user \in Technicians /\ a.job \in Jobs /\ a.kind \in Kinds /\ a.state \in States
           /\ a.attempts \in 0 .. MaxAttempts /\ a.due \in BOOLEAN /\ a.old \in BOOLEAN
           /\ a # NoRow
  BY DEF Actions

LEMMA QueuedIsAction ==
    ASSUME rows \in [Rows -> Actions \cup {NoRow}], NEW r \in Rows
    PROVE  Queued(r) <=> rows[r] \in Actions
  BY DEF Queued

LEMMA StateTurns ==
    ASSUME rows \in [Rows -> Actions \cup {NoRow}], NEW r \in Rows, Stored(r), NEW s \in States,
           rows' = Patched(r, [state |-> s])
    PROVE  Turns(r, s, rows[r].attempts, rows[r].due)
<1>1. rows[r] \in Actions
  BY DEF Stored, Queued
<1> DEFINE new == [field \in DOMAIN rows[r] |-> IF field \in DOMAIN [state |-> s] THEN [state |-> s][field]
                                               ELSE rows[r][field]]
<1>2. rows' = [rows EXCEPT ![r] = new]
  BY DEF Patched
<1>3. /\ new \in Actions /\ SameAction(new, rows[r])
      /\ new.state = s /\ new.attempts = rows[r].attempts /\ new.due = rows[r].due
  BY <1>1 DEF Actions, SameAction
<1> HIDE DEF new
<1> QED BY <1>2, <1>3 DEF Turns

LEMMA StateAndAttemptsTurn ==
    ASSUME rows \in [Rows -> Actions \cup {NoRow}], NEW r \in Rows, Stored(r), NEW s \in States,
           NEW a \in 0 .. MaxAttempts, rows' = Patched(r, [state |-> s, attempts |-> a])
    PROVE  Turns(r, s, a, rows[r].due)
<1>1. rows[r] \in Actions
  BY DEF Stored, Queued
<1> DEFINE patch == [state |-> s, attempts |-> a]
           new == [field \in DOMAIN rows[r] |-> IF field \in DOMAIN patch THEN patch[field]
                                               ELSE rows[r][field]]
<1>2. rows' = [rows EXCEPT ![r] = new]
  BY DEF Patched
<1>3. /\ new \in Actions /\ SameAction(new, rows[r])
      /\ new.state = s /\ new.attempts = a /\ new.due = rows[r].due
  BY <1>1 DEF Actions, SameAction
<1> HIDE DEF new
<1> QED BY <1>2, <1>3 DEF Turns

LEMMA AllTurn ==
    ASSUME rows \in [Rows -> Actions \cup {NoRow}], NEW r \in Rows, Stored(r), NEW s \in States,
           NEW a \in 0 .. MaxAttempts, NEW d \in BOOLEAN,
           rows' = Patched(r, [state |-> s, attempts |-> a, due |-> d])
    PROVE  Turns(r, s, a, d)
<1>1. rows[r] \in Actions
  BY DEF Stored, Queued
<1> DEFINE patch == [state |-> s, attempts |-> a, due |-> d]
           new == [field \in DOMAIN rows[r] |-> IF field \in DOMAIN patch THEN patch[field]
                                               ELSE rows[r][field]]
<1>2. rows' = [rows EXCEPT ![r] = new]
  BY DEF Patched
<1>3. /\ new \in Actions /\ SameAction(new, rows[r])
      /\ new.state = s /\ new.attempts = a /\ new.due = d
  BY <1>1 DEF Actions, SameAction
<1> HIDE DEF new
<1> QED BY <1>2, <1>3 DEF Turns

LEMMA ShowsType ==
    ASSUME NEW table \in [Rows -> Actions \cup {NoRow}], NEW u
    PROVE  Shows(table, u) \in [Rows -> (States \ {"removed"}) \cup {"hidden"}]
  BY ActionFields DEF Shows

LEMMA DeletedFacts ==
    ASSUME NEW a \in Actions
    PROVE  /\ Deleted(a) \in Actions /\ Deleted(a) # NoRow /\ SameAction(Deleted(a), a)
           /\ Deleted(a).state = "removed" /\ Deleted(a).attempts = 0 /\ Deleted(a).due = TRUE
<1>1. 0 \in 0 .. MaxAttempts /\ "removed" \in States
  BY MaxAttemptsAssumption DEF States
<1>2. Deleted(a) \in Actions
  BY <1>1 DEF Deleted, Actions
<1> QED BY <1>2 DEF Deleted, Actions, SameAction

LEMMA RecoveredFacts ==
    ASSUME NEW a \in Actions
    PROVE  /\ Recovered(a) \in Actions /\ SameAction(Recovered(a), a)
           /\ Recovered(a).attempts = a.attempts /\ Recovered(a).due = a.due
           /\ Recovered(a).state # "sending"
           /\ a.state # "sending" => Recovered(a) = a
           /\ a.state = "sending" => Recovered(a).state \in {"pending", "unknown"}
           /\ a.state = "sending" /\ ~Idempotent(a.kind) => Recovered(a).state = "unknown"
  BY DEF Recovered, Actions, SameAction, States

---------------------------------------------------------------------------
(* Steps that queue, pick and recover nothing. *)

InHand == {"wire", "answered"}
Over == {"done", "removed"}

\* What such a step may do to a row and its handling.
RowSteady(q) ==
    /\ Queued(q)' <=> Queued(q)
    /\ Queued(q) => SameAction(rows'[q], rows[q])
    /\ \A d \in Drains :
         /\ fiber'[q][d].at # "none" => fiber[q][d].at # "none"
         /\ fiber'[q][d].at = "answered" /\ fiber'[q][d].answer = "ok" => q \in landed'
    /\ discarded[q] => discarded'[q]
    /\ Queued(q) /\ rows'[q].state \in Over => rows[q].state \in Over \/ q \in landed' \/ discarded'[q]
    /\ orphaned'[q] => /\ orphaned[q]
                       /\ rows[q].state \in {"unknown", "removed"} => rows'[q].state \in {"unknown", "removed"}
    /\ broken' = 0 /\ Queued(q) /\ rows'[q].state = "sending"
           => fiber'[q][0].at \in InHand \/ (rows[q].state = "sending" /\ fiber[q][0].at \notin InHand)
    /\ Queued(q) /\ ~rows'[q].due
           => rows'[q].attempts > 0 \/ (~rows[q].due /\ rows'[q].attempts = rows[q].attempts)
    /\ retries' = 0 /\ broken' = 0 /\ Queued(q) /\ rows'[q].state # "removed"
           => /\ rows[q].state # "removed"
              /\ \/ fiber[q][0].at # "none"
                 \/ /\ rows'[q].state = "sending" => rows[q].state = "sending"
                    /\ rows'[q].state = "pending" =>
                           \/ rows[q].state = "sending"
                           \/ rows[q].state = "pending" /\ rows'[q].attempts = rows[q].attempts

\* What it may do to the drains: nothing, end one that has no row in hand, or cut
\* one short.
DrainsGoOn ==
    \/ broken' = broken /\ (draining' = draining \/ \A q \in Rows : fiber'[q][broken].at = "none")
    \/ broken' = broken + 1

Steady ==
    /\ \A q \in Rows : RowSteady(q)
    /\ landed \subseteq landed'
    /\ DrainsGoOn
    /\ retries' = 0 => retries = 0

LEMMA RowUntouched ==
    ASSUME IInv, NEW q \in Rows, rows'[q] = rows[q],
           fiber'[q] = fiber[q],
           landed \subseteq landed', discarded[q] => discarded'[q], orphaned'[q] => orphaned[q]
    PROVE  RowSteady(q)
  BY DEF RowSteady, IInv, OkHasLanded, Queued, SameAction

LEMMA SteadyKeeps ==
    ASSUME IInv, Steady, OutboxTypeOK', HistoryTypeOK'
    PROVE  IInv'
<1>1. \A q \in Rows : RowSteady(q)
  BY DEF Steady
<1>2. QueuedInOrder'
  BY <1>1 DEF IInv, QueuedInOrder, RowSteady
<1>3. broken' \in Nat /\ broken \in Nat /\ (broken' = 0 => broken = 0)
  BY DrainsAreNumbers DEF IInv, OutboxTypeOK, Steady, DrainsGoOn
<1>4. OnlyDrainsSend'
  <2> SUFFICES ASSUME NEW q \in Rows, NEW d \in Drains, fiber'[q][d].at # "none"
               PROVE  Queued(q)' /\ (d < broken' \/ (d = broken' /\ draining'))
    BY DEF OnlyDrainsSend
  <2>1. Queued(q)' /\ (d < broken \/ (d = broken /\ draining)) /\ d \in Nat
    BY <1>1, DrainsAreNumbers DEF RowSteady, IInv, OnlyDrainsSend
  <2>2. CASE broken' = broken /\ draining' = draining
    BY <2>1, <2>2
  <2>3. CASE broken' = broken /\ \A p \in Rows : fiber'[p][broken].at = "none"
    <3>1. d # broken
      BY <2>3
    <3> QED BY <2>1, <2>3, <3>1
  <2>4. CASE broken' = broken + 1
    BY <1>3, <2>1, <2>4
  <2> QED BY <2>2, <2>3, <2>4 DEF Steady, DrainsGoOn
<1>5. OneInFlightPerJob'
  <2> SUFFICES ASSUME NEW q \in Rows, NEW r \in Rows, NEW c \in Drains, NEW d \in Drains,
                      q # r, c = d \/ broken' = 0, fiber'[q][c].at # "none", fiber'[r][d].at # "none"
               PROVE  rows'[q].job # rows'[r].job
    BY DEF OneInFlightPerJob
  <2>1. fiber[q][c].at # "none" /\ fiber[r][d].at # "none" /\ (c = d \/ broken = 0)
    BY <1>1, <1>3 DEF RowSteady
  <2>2. Queued(q) /\ Queued(r) /\ rows[q].job # rows[r].job
    BY <2>1 DEF IInv, OnlyDrainsSend, OneInFlightPerJob
  <2> QED BY <1>1, <2>2 DEF RowSteady, SameAction
<1>6. OkHasLanded'
  BY <1>1 DEF OkHasLanded, RowSteady
<1>7. NothingDisappears'
  BY <1>1 DEF IInv, NothingDisappears, RowSteady, Steady, Over
<1>8. OrphansWait'
  BY <1>1 DEF IInv, OrphansWait, RowSteady, Idle
<1>9. SendingIsInHand'
  BY <1>1, <1>3 DEF IInv, SendingIsInHand, RowSteady, InHand
<1>10. WaitsAfterTrying'
  BY <1>1 DEF IInv, WaitsAfterTrying, RowSteady
<1>11. OlderWereTried'
  <2> SUFFICES ASSUME retries' = 0, broken' = 0, NEW q \in Rows, NEW r \in Rows, q < r,
                      fiber'[r][0].at # "none", Stored(q)',
                      rows'[q].job = rows'[r].job, rows'[q].user = rows'[r].user
               PROVE  rows'[q].state # "sending" /\ (rows'[q].state = "pending" => rows'[q].attempts > 0)
    BY DEF OlderWereTried
  <2>1. retries = 0 /\ broken = 0 /\ fiber[r][0].at # "none" /\ Queued(q) /\ Queued(r)
    BY <1>1, <1>3, DrainsAreNumbers DEF Steady, RowSteady, Stored, IInv, OnlyDrainsSend
  <2>2. rows[q].job = rows[r].job /\ rows[q].user = rows[r].user
    BY <1>1, <2>1 DEF RowSteady, SameAction
  <2>3. q # r
    BY RowsAssumption
  <2>4. fiber[q][0].at = "none"
    BY <2>1, <2>2, <2>3, DrainsAreNumbers DEF IInv, OneInFlightPerJob
  <2>5. /\ Stored(q)
        /\ rows'[q].state = "sending" => rows[q].state = "sending"
        /\ rows'[q].state = "pending" =>
               \/ rows[q].state = "sending"
               \/ rows[q].state = "pending" /\ rows'[q].attempts = rows[q].attempts
    BY <1>1, <2>1, <2>4 DEF RowSteady, Stored
  <2>6. rows[q].state # "sending" /\ (rows[q].state = "pending" => rows[q].attempts > 0)
    BY <2>1, <2>2, <2>5 DEF IInv, OlderWereTried
  <2> QED BY <2>5, <2>6
<1> QED BY <1>2, <1>4, <1>5, <1>6, <1>7, <1>8, <1>9, <1>10, <1>11 DEF IInv

\* A parked action waits for its owner, in one step.
ParkedWaits ==
    \A r \in Rows :
        /\ Queued(r) /\ rows[r].state \in {"failed", "unknown"} /\ Idle(r)
        /\ rows'[r].state # rows[r].state
        => session = rows[r].user

\* A step that leaves the rows alone, or all but r.
LEMMA OneRowSteady ==
    ASSUME IInv, NEW r \in Rows, RowSteady(r),
           \A q \in Rows \ {r} : /\ rows'[q] = rows[q] /\ fiber'[q] = fiber[q]
                                 /\ discarded'[q] = discarded[q] /\ orphaned'[q] = orphaned[q],
           landed \subseteq landed',
           DrainsGoOn, retries' = 0 => retries = 0
    PROVE  Steady
  BY RowUntouched DEF Steady

---------------------------------------------------------------------------
(* Sessions and taps. *)

LEMMA NoRowsStep ==
    ASSUME IInv, UNCHANGED <<rows, broken, fiber, landed, retries, storeFailures, discarded, orphaned>>,
           draining' = draining \/ \A q \in Rows : fiber'[q][broken].at = "none",
           session' \in Technicians \cup {Nobody}, recovering' \in BOOLEAN, draining' \in BOOLEAN,
           drainer' \in Technicians \cup {Nobody}, draining' <=> drainer' # Nobody,
           view' \in [Rows -> (States \ {"removed"}) \cup {"hidden"}]
    PROVE  IInv' /\ ParkedWaits
<1>1. Steady
  BY RowUntouched DEF Steady, DrainsGoOn
<1>2. OutboxTypeOK' /\ HistoryTypeOK'
  BY DEF IInv, OutboxTypeOK, HistoryTypeOK
<1> QED BY <1>1, <1>2, SteadyKeeps DEF ParkedWaits

LEMMA SessionSteps ==
    ASSUME IInv, (\E u \in Technicians : SignIn(u)) \/ SignOut \/ EndDrain
    PROVE  IInv' /\ ParkedWaits
<1>1. ASSUME NEW u \in Technicians, SignIn(u) PROVE IInv' /\ ParkedWaits
  BY <1>1, NoRowsStep DEF SignIn, IInv, OutboxTypeOK, bounds, history
<1>2. ASSUME SignOut PROVE IInv' /\ ParkedWaits
  BY <1>2, NoRowsStep DEF SignOut, SignedOut, IInv, OutboxTypeOK, history
<1>3. ASSUME EndDrain PROVE IInv' /\ ParkedWaits
  <2>1. view' \in [Rows -> (States \ {"removed"}) \cup {"hidden"}]
    BY <1>3, ShowsType DEF EndDrain, IInv, OutboxTypeOK
  <2> QED BY <1>3, <2>1, NoRowsStep DEF EndDrain, IInv, OutboxTypeOK, bounds, history
<1> QED BY <1>1, <1>2, <1>3

LEMMA RetryStep ==
    ASSUME IInv, NEW r \in Rows, Retry(r) PROVE IInv' /\ ParkedWaits
<1> USE DEF Retry
<1>1. /\ retries' # 0 /\ retries' \in Nat
      /\ UNCHANGED <<session, recovering, draining, drainer, broken, fiber, landed, storeFailures, discarded>>
  BY DEF IInv, HistoryTypeOK
<1>2. /\ orphaned' \in [Rows -> BOOLEAN] /\ orphaned'[r] = FALSE
      /\ \A q \in Rows \ {r} : orphaned'[q] = orphaned[q]
  BY DEF IInv, HistoryTypeOK
<1>3. CASE r \in RowsOf(session)
  <2>1. Stored(r) /\ rows[r].user = session
    BY <1>3 DEF RowsOf
  <2>2. Turns(r, "pending", 0, TRUE)
    <3>1. /\ rows' = Patched(r, [state |-> "pending", attempts |-> 0, due |-> TRUE])
          /\ rows \in [Rows -> Actions \cup {NoRow}]
      BY <1>3 DEF IInv, OutboxTypeOK
    <3>2. "pending" \in States /\ 0 \in 0 .. MaxAttempts /\ TRUE \in BOOLEAN
      BY MaxAttemptsAssumption DEF States
    <3> QED BY <2>1, <3>1, <3>2, AllTurn
  <2>3. RowSteady(r)
    <3> HIDE DEF Retry
    <3>1. \A d \in Drains : fiber'[r][d].at = "answered" /\ fiber'[r][d].answer = "ok" => r \in landed'
      BY <1>1 DEF IInv, OkHasLanded
    <3> QED BY <1>1, <1>2, <2>1, <2>2, <3>1 DEF RowSteady, Turns, Stored, Queued, Over
  <2>4. Steady
    BY <1>1, <1>2, <2>2, <2>3, OneRowSteady DEF Turns, DrainsGoOn
  <2>5. view' \in [Rows -> (States \ {"removed"}) \cup {"hidden"}]
    BY <2>2, ShowsType DEF Turns
  <2>6. OutboxTypeOK' /\ HistoryTypeOK'
    BY <1>1, <1>2, <2>2, <2>5 DEF IInv, OutboxTypeOK, HistoryTypeOK, Turns
  <2>7. ParkedWaits
    BY <2>1, <2>2 DEF ParkedWaits, Turns
  <2> QED BY <2>4, <2>6, <2>7, SteadyKeeps
<1>4. CASE r \notin RowsOf(session)
  <2>1. rows' = rows
    BY <1>4
  <2>2. Steady
    BY <1>1, <1>2, <2>1, RowUntouched DEF Steady, DrainsGoOn
  <2>3. view' \in [Rows -> (States \ {"removed"}) \cup {"hidden"}]
    BY <2>1, ShowsType DEF IInv, OutboxTypeOK
  <2>4. OutboxTypeOK' /\ HistoryTypeOK'
    BY <1>1, <1>2, <2>1, <2>3 DEF IInv, OutboxTypeOK, HistoryTypeOK
  <2> QED BY <2>1, <2>2, <2>4, SteadyKeeps DEF ParkedWaits
<1> QED BY <1>3, <1>4

LEMMA DiscardStep ==
    ASSUME IInv, NEW r \in Rows, Discard(r) PROVE IInv' /\ ParkedWaits
<1>1. UNCHANGED <<session, recovering, draining, drainer, broken, fiber, landed, retries, storeFailures, orphaned>>
  BY DEF Discard, bounds
<1>2. /\ discarded' \in [Rows -> BOOLEAN] /\ discarded'[r] = TRUE
      /\ \A q \in Rows \ {r} : discarded'[q] = discarded[q]
  BY DEF Discard, IInv, HistoryTypeOK
<1>3. view' = Shows(rows', session)
  BY DEF Discard
<1>4. CASE r \in RowsOf(session)
  <2>1. Stored(r) /\ rows[r].user = session
    BY <1>4 DEF RowsOf
  <2>2. Turns(r, "removed", 0, TRUE)
    <3>1. rows' = [rows EXCEPT ![r] = Deleted(rows[r])] /\ rows \in [Rows -> Actions \cup {NoRow}]
      BY <1>4 DEF Discard, IInv, OutboxTypeOK
    <3>2. rows[r] \in Actions
      BY <2>1, <3>1 DEF Stored, Queued
    <3> QED BY <3>1, <3>2, DeletedFacts DEF Turns
  <2>3. RowSteady(r)
    BY <1>1, <1>2, <2>1, <2>2 DEF RowSteady, Turns, Stored, Queued, Over, IInv, OkHasLanded
  <2>4. Steady
    BY <1>1, <1>2, <2>2, <2>3, OneRowSteady DEF Turns, DrainsGoOn
  <2>5. view' \in [Rows -> (States \ {"removed"}) \cup {"hidden"}]
    BY <1>3, <2>2, ShowsType DEF Turns
  <2>6. OutboxTypeOK' /\ HistoryTypeOK'
    BY <1>1, <1>2, <2>2, <2>5 DEF IInv, OutboxTypeOK, HistoryTypeOK, Turns
  <2>7. ParkedWaits
    BY <2>1, <2>2 DEF ParkedWaits, Turns
  <2> QED BY <2>4, <2>6, <2>7, SteadyKeeps
<1>5. CASE r \notin RowsOf(session)
  <2>1. rows' = rows
    BY <1>5 DEF Discard
  <2>2. Steady
    BY <1>1, <1>2, <2>1, RowUntouched DEF Steady, DrainsGoOn
  <2>3. view' \in [Rows -> (States \ {"removed"}) \cup {"hidden"}]
    BY <1>3, <2>1, ShowsType DEF IInv, OutboxTypeOK
  <2>4. OutboxTypeOK' /\ HistoryTypeOK'
    BY <1>1, <1>2, <2>1, <2>3 DEF IInv, OutboxTypeOK, HistoryTypeOK
  <2> QED BY <2>1, <2>2, <2>4, SteadyKeeps DEF ParkedWaits
<1> QED BY <1>4, <1>5

LEMMA EnqueueStep ==
    ASSUME IInv, NEW r \in Rows, EnqueueAction(r) PROVE IInv' /\ ParkedWaits
<1> USE DEF EnqueueAction
<1>1. /\ UNCHANGED <<session, recovering, draining, drainer, broken, fiber, landed, retries, storeFailures,
                     discarded, orphaned>>
      /\ ~Queued(r) /\ \A q \in Rows : q < r => Queued(q)
  BY DEF bounds, history
<1>2. PICK job \in Jobs, kind \in Kinds :
          rows' = [rows EXCEPT ![r] = [user |-> session, job |-> job, kind |-> kind,
                      state |-> "pending", attempts |-> 0, due |-> TRUE, old |-> FALSE]]
  OBVIOUS
<1> DEFINE new == [user |-> session, job |-> job, kind |-> kind,
                   state |-> "pending", attempts |-> 0, due |-> TRUE, old |-> FALSE]
<1>3. /\ new \in Actions /\ new.state = "pending" /\ new.due = TRUE
  BY MaxAttemptsAssumption DEF Actions, States, IInv, OutboxTypeOK
<1> HIDE DEF new
<1>4. /\ rows' \in [Rows -> Actions \cup {NoRow}]
      /\ rows'[r] = new /\ \A q \in Rows \ {r} : rows'[q] = rows[q]
  BY <1>2, <1>3 DEF IInv, OutboxTypeOK, new
<1>5. Queued(r)' /\ \A q \in Rows \ {r} : (Queued(q)' <=> Queued(q)) /\ (Stored(q)' <=> Stored(q))
  BY <1>3, <1>4 DEF Queued, Stored
<1>6. OutboxTypeOK' /\ HistoryTypeOK'
  <2>1. view' \in [Rows -> (States \ {"removed"}) \cup {"hidden"}]
    <3>1. view' = Shows(rows', session)
      OBVIOUS
    <3> HIDE DEF EnqueueAction
    <3> QED BY <1>4, <3>1, ShowsType
  <2> HIDE DEF EnqueueAction
  <2>2. OutboxTypeOK'
    BY <1>1, <1>4, <2>1 DEF IInv, OutboxTypeOK
  <2>3. HistoryTypeOK'
    BY <1>1 DEF IInv, HistoryTypeOK
  <2> QED BY <2>2, <2>3
<1>7. QueuedInOrder' /\ OnlyDrainsSend'
  <2>1. QueuedInOrder'
    <3> SUFFICES ASSUME NEW p \in Rows, NEW q \in Rows, p < q, Queued(q)' PROVE Queued(p)'
      BY DEF QueuedInOrder
    <3>1. CASE p = r
      BY <1>5, <3>1
    <3>2. CASE p # r /\ q = r
      BY <1>1, <1>5, <3>2
    <3>3. CASE p # r /\ q # r
      BY <1>5, <3>3 DEF IInv, QueuedInOrder
    <3> QED BY <3>1, <3>2, <3>3
  <2>2. OnlyDrainsSend'
    BY <1>1, <1>5 DEF IInv, OnlyDrainsSend
  <2> QED BY <2>1, <2>2
<1>8. Idle(r) /\ ~orphaned[r]
  BY <1>1 DEF IInv, OnlyDrainsSend, OrphansWait, Idle
<1>9. OneInFlightPerJob'
  BY <1>1, <1>4, <1>8 DEF IInv, OneInFlightPerJob, Idle
<1>10. OkHasLanded' /\ NothingDisappears'
  BY <1>1, <1>3, <1>4, <1>5 DEF IInv, OkHasLanded, NothingDisappears
<1>11. OrphansWait'
  BY <1>1, <1>4, <1>5, <1>8 DEF IInv, OrphansWait, Idle
<1>12. SendingIsInHand' /\ WaitsAfterTrying'
  BY <1>1, <1>3, <1>4, <1>5 DEF IInv, SendingIsInHand, WaitsAfterTrying
<1>13. OlderWereTried'
  <2> SUFFICES ASSUME retries' = 0, broken' = 0, NEW p \in Rows, NEW q \in Rows, p < q,
                      fiber'[q][0].at # "none", Stored(p)',
                      rows'[p].job = rows'[q].job, rows'[p].user = rows'[q].user
               PROVE  rows'[p].state # "sending" /\ (rows'[p].state = "pending" => rows'[p].attempts > 0)
    BY DEF OlderWereTried
  <2>1. q # r /\ Queued(q)
    BY <1>1, <1>8, DrainsAreNumbers DEF IInv, OnlyDrainsSend, Idle
  <2>2. p # r
    BY <1>1, <2>1 DEF IInv, QueuedInOrder
  <2>3. rows'[p] = rows[p] /\ rows'[q] = rows[q] /\ Stored(p)
    BY <1>4, <1>5, <2>1, <2>2
  <2> QED BY <1>1, <2>3 DEF IInv, OlderWereTried
<1>14. ParkedWaits
  BY <1>1, <1>4 DEF ParkedWaits
<1> QED BY <1>6, <1>7, <1>9, <1>10, <1>11, <1>12, <1>13, <1>14 DEF IInv

---------------------------------------------------------------------------
(* Recovery, the snapshot and the pick. *)

LEMMA RecoverSteps ==
    ASSUME IInv, Recover \/ RecoverFails PROVE IInv' /\ ParkedWaits
<1>1. /\ UNCHANGED <<session, draining, drainer, broken, fiber, landed, retries, discarded, orphaned>>
      /\ recovering' = FALSE /\ view' = Shows(rows', session)
      /\ storeFailures' \in Nat /\ storeFailures <= storeFailures'
  BY DEF Recover, RecoverFails, bounds, history, IInv, HistoryTypeOK
<1>0. \E rearmed \in SUBSET RowsOf(session) :
          rows' = [r \in Rows |-> IF r \in rearmed THEN Recovered(rows[r]) ELSE rows[r]]
  <2>1. CASE Recover
    BY <2>1 DEF Recover
  <2>2. CASE RecoverFails
    BY <2>2 DEF RecoverFails
  <2> QED BY <2>1, <2>2
<1>2. \A r \in Rows : rows'[r] = rows[r] \/
          (Stored(r) /\ rows[r].user = session /\ rows[r] \in Actions /\ rows'[r] = Recovered(rows[r]))
  BY <1>0 DEF RowsOf, Stored, Queued, IInv, OutboxTypeOK
<1>3. rows' \in [Rows -> Actions \cup {NoRow}]
  <2>1. \A r \in Rows : rows'[r] \in Actions \cup {NoRow}
    BY <1>2, RecoveredFacts DEF IInv, OutboxTypeOK
  <2> QED BY <1>0, <2>1
<1>4. ASSUME NEW q \in Rows PROVE RowSteady(q)
  <2>1. CASE rows'[q] = rows[q]
    BY <1>1, <2>1, RowUntouched
  <2>2. CASE Stored(q) /\ rows[q] \in Actions /\ rows'[q] = Recovered(rows[q])
    BY <1>1, <2>2, RecoveredFacts, ActionFields
    DEF RowSteady, Stored, Queued, Over, States, IInv, OkHasLanded, OrphansWait
  <2> QED BY <1>2, <2>1, <2>2
<1>5. Steady
  BY <1>1, <1>4 DEF Steady, DrainsGoOn
<1>6. view' \in [Rows -> (States \ {"removed"}) \cup {"hidden"}]
  BY <1>1, <1>3, ShowsType
<1>7. OutboxTypeOK' /\ HistoryTypeOK'
  <2>1. broken' <= storeFailures'
    BY <1>1, DrainsAreNumbers DEF IInv, OutboxTypeOK, HistoryTypeOK
  <2>2. OutboxTypeOK'
    BY <1>1, <1>3, <1>6 DEF IInv, OutboxTypeOK
  <2> QED BY <1>1, <2>1, <2>2 DEF IInv, HistoryTypeOK
<1>8. ParkedWaits
  BY <1>2 DEF ParkedWaits
<1> QED BY <1>5, <1>7, <1>8, SteadyKeeps

LEMMA DrainStep ==
    ASSUME IInv, Drain PROVE IInv' /\ ParkedWaits
<1> DEFINE batch == SelectNextBatch(session)
<1>1. /\ session # Nobody /\ ~draining /\ draining' = TRUE /\ drainer' = session
      /\ UNCHANGED <<session, recovering, broken, view, landed, retries, storeFailures, discarded, orphaned>>
  BY DEF Drain, bounds, history
<1>0. fiber' = [r \in Rows |-> IF r \in batch
                  THEN [fiber[r] EXCEPT ![broken] =
                          [NoFiber EXCEPT !.at = "picked", !.attempts = rows[r].attempts]]
                  ELSE fiber[r]]
  BY DEF Drain
<1>2. \A r \in Rows : fiber[r][broken].at = "none"
  <2>1. ~(broken < broken) /\ broken \in Drains
    BY DrainsAreNumbers DEF IInv, OutboxTypeOK
  <2> QED BY <1>1, <2>1 DEF IInv, OnlyDrainsSend
<1>3. PICK swept \in SUBSET Sweepable(session) :
          rows' = [r \in Rows |-> IF r \in swept THEN Deleted(rows[r]) ELSE rows[r]]
  BY DEF Drain
<1>4. \A r \in swept : r \in Rows /\ Queued(r) /\ rows[r] \in Actions /\ rows[r].state = "done"
                       /\ rows[r].user = session
  BY DEF Sweepable, RowsOf, Stored, Queued, IInv, OutboxTypeOK
<1>5. \A r \in swept : /\ rows'[r] \in Actions /\ SameAction(rows'[r], rows[r])
                       /\ rows'[r].state = "removed" /\ rows'[r].due = TRUE
  BY <1>3, <1>4, DeletedFacts
<1>6. \A r \in Rows \ swept : rows'[r] = rows[r]
  BY <1>3
<1>7. rows' \in [Rows -> Actions \cup {NoRow}]
  BY <1>3, <1>4, <1>5, <1>6 DEF IInv, OutboxTypeOK
<1>8. \A r \in batch : /\ r \in Rows /\ Queued(r) /\ rows[r] \in Actions /\ rows[r].state = "pending"
                       /\ rows[r].user = session /\ rows'[r] = rows[r]
  BY <1>1, <1>4, <1>6 DEF SelectNextBatch, Ready, RowsOf, Stored, Queued, IInv, OutboxTypeOK
<1>9. /\ fiber' \in [Rows -> [Drains -> Fibers]] /\ broken \in Drains
      /\ \A r \in batch : /\ fiber'[r][broken].at = "picked" /\ fiber'[r][broken].answer = "none"
                          /\ \A d \in Drains \ {broken} : fiber'[r][d] = fiber[r][d]
      /\ \A r \in Rows \ batch : fiber'[r] = fiber[r]
  <2> DEFINE new(r) == [NoFiber EXCEPT !.at = "picked", !.attempts = rows[r].attempts]
  <2>1. \A r \in batch : new(r) \in Fibers /\ new(r).at = "picked" /\ new(r).answer = "none"
    BY <1>8, ActionFields DEF Fibers, NoFiber
  <2>2. broken \in Drains /\ fiber \in [Rows -> [Drains -> Fibers]]
    BY DEF IInv, OutboxTypeOK
  <2>3. fiber' = [r \in Rows |-> IF r \in batch THEN [fiber[r] EXCEPT ![broken] = new(r)] ELSE fiber[r]]
    BY <1>0
  <2> HIDE DEF new
  <2>4. batch \subseteq Rows
    BY <1>8
  <2> HIDE DEF batch
  <2> QED BY <2>1, <2>2, <2>3, <2>4
<1>10. \A r \in Rows : /\ Queued(r)' <=> Queued(r)
                       /\ Queued(r) => SameAction(rows'[r], rows[r])
  BY <1>4, <1>5, <1>6, ActionFields DEF Queued, SameAction
<1>11. OutboxTypeOK'
  BY <1>1, <1>7, <1>9 DEF IInv, OutboxTypeOK
<1>12. HistoryTypeOK' /\ QueuedInOrder' /\ OnlyDrainsSend'
  <2>1. HistoryTypeOK' /\ QueuedInOrder'
    BY <1>1, <1>10 DEF IInv, HistoryTypeOK, QueuedInOrder
  <2>2. ASSUME NEW r \in Rows, NEW d \in Drains, fiber'[r][d].at # "none"
        PROVE  Queued(r)' /\ (d < broken \/ d = broken)
    <3>1. Queued(r) /\ (d < broken \/ d = broken)
      BY <1>8, <1>9, <2>2 DEF IInv, OnlyDrainsSend
    <3> QED BY <1>10, <3>1
  <2> QED BY <1>1, <2>1, <2>2 DEF OnlyDrainsSend
<1>13. OneInFlightPerJob'
  <2> SUFFICES ASSUME NEW q \in Rows, NEW r \in Rows, NEW c \in Drains, NEW d \in Drains,
                      q # r, c = d \/ broken = 0, fiber'[q][c].at # "none", fiber'[r][d].at # "none",
                      rows'[q].job = rows'[r].job
               PROVE  FALSE
    BY <1>1 DEF OneInFlightPerJob
  <2>1. Queued(q) /\ Queued(r) /\ rows[q].job = rows[r].job
    <3>1. Queued(q) /\ Queued(r)
      BY <1>10, <1>12 DEF OnlyDrainsSend
    <3> QED BY <1>10, <3>1 DEF SameAction
  <2>2. c = d
    <3>1. (c < broken \/ c = broken) /\ (d < broken \/ d = broken)
      BY <1>1, <1>12 DEF OnlyDrainsSend
    <3> QED BY <3>1, DrainsAreNumbers
  <2>3. CASE c = broken
    <3>1. q \in batch /\ r \in batch
      BY <1>2, <1>9, <2>2, <2>3
    <3>2. q <= r /\ r <= q
      BY <2>1, <3>1 DEF SelectNextBatch
    <3> QED BY <3>2, RowsAssumption
  <2>4. CASE c # broken
    <3>1. fiber[q][c].at # "none" /\ fiber[r][d].at # "none"
      BY <1>9, <2>2, <2>4
    <3> QED BY <2>1, <2>2, <3>1 DEF IInv, OneInFlightPerJob
  <2> QED BY <2>3, <2>4
<1>14. OkHasLanded' /\ SendingIsInHand'
  <2>1. OkHasLanded'
    BY <1>1, <1>9 DEF IInv, OkHasLanded
  <2>2. ASSUME broken = 0, NEW r \in Rows, Queued(r)', rows'[r].state = "sending" PROVE FALSE
    <3>1. r \notin swept
      BY <1>5, <2>2
    <3>2. Queued(r) /\ rows[r].state = "sending"
      BY <1>6, <1>10, <2>2, <3>1
    <3> QED BY <1>2, <2>2, <3>2 DEF IInv, SendingIsInHand
  <2> QED BY <1>1, <2>1, <2>2 DEF SendingIsInHand
<1>15. NothingDisappears'
  BY <1>1, <1>4, <1>5, <1>6, <1>10 DEF IInv, NothingDisappears
<1>16. OrphansWait'
  <2> SUFFICES ASSUME NEW r \in Rows, orphaned[r]
               PROVE  Queued(r)' /\ Idle(r)' /\ rows'[r].state \in {"unknown", "removed"}
    BY <1>1 DEF OrphansWait
  <2>1. Queued(r) /\ Idle(r) /\ rows[r].state \in {"unknown", "removed"}
    BY DEF IInv, OrphansWait
  <2>2. r \notin batch /\ r \notin swept
    BY <1>4, <1>8, <2>1
  <2> QED BY <1>6, <1>9, <1>10, <2>1, <2>2 DEF Idle
<1>17. WaitsAfterTrying'
  BY <1>4, <1>5, <1>6, <1>10 DEF IInv, WaitsAfterTrying
<1>18. OlderWereTried'
  <2> SUFFICES ASSUME retries = 0, broken = 0, NEW q \in Rows, NEW r \in Rows, q < r,
                      fiber'[r][0].at # "none", Stored(q)',
                      rows'[q].job = rows'[r].job, rows'[q].user = rows'[r].user
               PROVE  rows'[q].state # "sending" /\ (rows'[q].state = "pending" => rows'[q].attempts > 0)
    BY <1>1 DEF OlderWereTried
  <2>1. r \in batch
    BY <1>2, <1>9
  <2>2. q \notin swept /\ rows'[q] = rows[q] /\ Stored(q)
    BY <1>5, <1>6 DEF Stored, Queued
  <2>3. rows[q].job = rows[r].job /\ q \in RowsOf(session)
    BY <1>8, <2>1, <2>2 DEF RowsOf
  <2>4. rows[q].state # "sending"
    BY <2>1, <2>3 DEF SelectNextBatch
  <2>5. CASE rows[q].state = "pending"
    <3>1. ~(r <= q)
      BY RowsAssumption
    <3>2. q \notin Ready(session)
      BY <2>1, <2>3, <3>1 DEF SelectNextBatch
    <3>3. ~rows[q].due
      BY <2>3, <2>5, <3>2 DEF Ready
    <3>4. rows[q].attempts > 0
      BY <2>2, <3>3 DEF Stored, IInv, WaitsAfterTrying
    <3> QED BY <2>2, <2>4, <3>4
  <2> QED BY <2>2, <2>4, <2>5
<1>19. ParkedWaits
  BY <1>4, <1>6 DEF ParkedWaits
<1> QED BY <1>11, <1>12, <1>13, <1>14, <1>15, <1>16, <1>17, <1>18, <1>19 DEF IInv

---------------------------------------------------------------------------
(* The handling of one row. *)

LEMMA FiberUpdate ==
    ASSUME fiber \in [Rows -> [Drains -> Fibers]], NEW r \in Rows, NEW d \in Drains, NEW f \in Fibers,
           fiber' = [fiber EXCEPT ![r][d] = f]
    PROVE  /\ fiber' \in [Rows -> [Drains -> Fibers]]
           /\ fiber'[r][d] = f
           /\ \A e \in Drains \ {d} : fiber'[r][e] = fiber[r][e]
           /\ \A q \in Rows \ {r} : fiber'[q] = fiber[q]
  OBVIOUS

\* A step that touches row r and its handling by drain d, and nothing else that
\* matters.
LEMMA FiberStep ==
    ASSUME IInv, NEW r \in Rows, NEW d \in Drains, NEW f \in Fibers, fiber' = [fiber EXCEPT ![r][d] = f],
           fiber[r][d].at # "none", f.at = "answered" /\ f.answer = "ok" => r \in landed',
           rows' \in [Rows -> Actions \cup {NoRow}], \A q \in Rows \ {r} : rows'[q] = rows[q],
           Queued(r)', SameAction(rows'[r], rows[r]),
           rows'[r].state \in Over => rows[r].state \in Over \/ r \in landed',
           rows'[r].state # "removed" => rows[r].state # "removed",
           rows'[r].state = "sending" =>
               \/ f.at \in InHand \/ broken' # 0
               \/ rows[r].state = "sending" /\ fiber[r][d].at \notin InHand,
           ~rows'[r].due => rows'[r].attempts > 0 \/ (~rows[r].due /\ rows'[r].attempts = rows[r].attempts),
           landed \subseteq landed', landed' \subseteq Rows, UNCHANGED <<discarded, orphaned, retries>>,
           storeFailures' \in Nat, broken' \in Drains, broken' <= storeFailures', DrainsGoOn,
           session' \in Technicians \cup {Nobody}, recovering' \in BOOLEAN,
           draining' \in BOOLEAN, drainer' \in Technicians \cup {Nobody}, draining' <=> drainer' # Nobody,
           view' \in [Rows -> (States \ {"removed"}) \cup {"hidden"}]
    PROVE  IInv' /\ ParkedWaits
<1>1. /\ fiber' \in [Rows -> [Drains -> Fibers]]
      /\ fiber'[r][d] = f
      /\ \A e \in Drains \ {d} : fiber'[r][e] = fiber[r][e]
      /\ \A q \in Rows \ {r} : fiber'[q] = fiber[q]
  BY FiberUpdate DEF IInv, OutboxTypeOK
<1>2. Queued(r) /\ ~orphaned[r] /\ (d < broken \/ d = broken)
  BY DEF IInv, OnlyDrainsSend, OrphansWait, Idle
<1>3. broken' = 0 => d = 0
  BY <1>2, DrainsAreNumbers DEF DrainsGoOn, IInv, OutboxTypeOK
<1>4. \A e \in Drains : /\ fiber'[r][e].at # "none" => fiber[r][e].at # "none"
                        /\ fiber'[r][e].at = "answered" /\ fiber'[r][e].answer = "ok" => r \in landed'
  BY <1>1 DEF IInv, OkHasLanded
<1>5. RowSteady(r)
  BY <1>1, <1>2, <1>3, <1>4 DEF RowSteady
<1>6. Steady
  BY <1>1, <1>5, OneRowSteady
<1>7. OutboxTypeOK' /\ HistoryTypeOK'
  BY <1>1 DEF IInv, OutboxTypeOK, HistoryTypeOK
<1>8. ParkedWaits
  BY DEF ParkedWaits, Idle
<1> QED BY <1>6, <1>7, <1>8, SteadyKeeps

LEMMA MarkStep ==
    ASSUME IInv, NEW r \in Rows, NEW d \in Drains, Mark(r, d) PROVE IInv' /\ ParkedWaits
<1>1. /\ fiber[r][d].at = "picked" /\ fiber[r][d] \in Fibers /\ Queued(r) /\ rows[r] \in Actions
      /\ UNCHANGED <<session, recovering, draining, drainer, broken, view, landed, retries, storeFailures,
                     discarded, orphaned>>
  BY DEF Mark, bounds, history, IInv, OutboxTypeOK, OnlyDrainsSend, Queued
<1>2. PICK f \in Fibers, s \in {"sending", "failed"} :
          /\ fiber' = [fiber EXCEPT ![r][d] = f] /\ rows' = Patched(r, [state |-> s])
          /\ s = "sending" => f.at = "wire"
          /\ f.at = "none" \/ f.at = "wire"
  <2>1. NoFiber \in Fibers /\ NoFiber.at = "none"
    BY MaxAttemptsAssumption DEF NoFiber, Fibers
  <2> DEFINE sent == [fiber[r][d] EXCEPT !.at = "wire", !.token = (session # Nobody)]
  <2>2. sent \in Fibers /\ sent.at = "wire"
    BY <1>1 DEF Fibers
  <2>3. CASE TooOldToSend(rows[r])
    BY <2>1, <2>3 DEF Mark
  <2>4. CASE ~TooOldToSend(rows[r])
    <3>1. /\ fiber' = [fiber EXCEPT ![r][d] = sent]
          /\ rows' = Patched(r, [state |-> "sending"])
      BY <2>4 DEF Mark, IInv, OutboxTypeOK
    <3> QED BY <2>2, <3>1
  <2> QED BY <2>3, <2>4
<1>3. rows' = rows \/ (Stored(r) /\ Turns(r, s, rows[r].attempts, rows[r].due))
  BY <1>2, StateTurns DEF Patched, States, IInv, OutboxTypeOK
<1>4. /\ Queued(r)' /\ SameAction(rows'[r], rows[r])
      /\ rows' \in [Rows -> Actions \cup {NoRow}] /\ \A q \in Rows \ {r} : rows'[q] = rows[q]
      /\ rows'[r].state = rows[r].state \/ (rows'[r].state = s /\ rows[r].state # "removed")
      /\ rows'[r].attempts = rows[r].attempts /\ rows'[r].due = rows[r].due
  BY <1>1, <1>3 DEF Turns, Stored, Queued, SameAction, IInv, OutboxTypeOK
<1>5. rows'[r].state = "sending" => f.at \in InHand \/ (rows[r].state = "sending" /\ fiber[r][d].at \notin InHand)
  BY <1>1, <1>2, <1>4 DEF InHand
<1>6. rows'[r].state \in Over => rows[r].state \in Over
  BY <1>4 DEF Over
<1>7. f.at = "answered" /\ f.answer = "ok" => r \in landed'
  BY <1>2
<1>8. landed \subseteq landed' /\ landed' \subseteq Rows /\ DrainsGoOn
  BY <1>1 DEF IInv, OutboxTypeOK, DrainsGoOn
<1>9. /\ storeFailures' \in Nat /\ broken' \in Drains /\ broken' <= storeFailures'
      /\ session' \in Technicians \cup {Nobody} /\ recovering' \in BOOLEAN
      /\ draining' \in BOOLEAN /\ drainer' \in Technicians \cup {Nobody} /\ (draining' <=> drainer' # Nobody)
      /\ view' \in [Rows -> (States \ {"removed"}) \cup {"hidden"}]
  BY <1>1 DEF IInv, OutboxTypeOK, HistoryTypeOK
<1> QED BY <1>1, <1>2, <1>4, <1>5, <1>6, <1>7, <1>8, <1>9, FiberStep

LEMMA OutcomeFacts ==
    ASSUME NEW o \in Outcomes PROVE o[2] \in Answers /\ (o[2] = "ok" => o[1] = TRUE)
  BY DEF Outcomes, Answers

\* The row stays as it is.
LEMMA UntouchedRow ==
    ASSUME IInv, NEW r \in Rows, NEW d \in Drains, fiber[r][d].at # "none", rows' = rows
    PROVE  /\ Queued(r) /\ Queued(r)' /\ SameAction(rows'[r], rows[r])
           /\ rows' \in [Rows -> Actions \cup {NoRow}]
  BY DEF IInv, OutboxTypeOK, OnlyDrainsSend, Queued, SameAction

\* Its handling goes on.
LEMMA OnTheWaySteps ==
    ASSUME IInv, NEW r \in Rows, NEW d \in Drains, Renew(r, d) \/ Serve(r, d)
    PROVE  IInv' /\ ParkedWaits
<1>1. /\ fiber[r][d].at = "wire" /\ fiber[r][d] \in Fibers
      /\ UNCHANGED <<rows, session, recovering, draining, drainer, broken, view, retries, storeFailures,
                     discarded, orphaned>>
      /\ session \in Technicians \cup {Nobody}
  <2>1. fiber[r][d] \in Fibers /\ session \in Technicians \cup {Nobody}
    BY DEF IInv, OutboxTypeOK
  <2>2. CASE Renew(r, d)
    BY <2>1, <2>2 DEF Renew, bounds, history
  <2>3. CASE Serve(r, d)
    BY <2>1, <2>3 DEF Serve, history
  <2> QED BY <2>2, <2>3
<1>2. PICK f \in Fibers :
          /\ fiber' = [fiber EXCEPT ![r][d] = f]
          /\ f.at \in {"wire", "answered"}
          /\ f.at = "answered" /\ f.answer = "ok" => r \in landed'
          /\ landed \subseteq landed' /\ landed' \subseteq Rows
  <2>1. CASE Renew(r, d)
    <3> DEFINE f == [fiber[r][d] EXCEPT !.token = TRUE]
    <3>1. f \in Fibers /\ f.at = "wire"
      BY <1>1 DEF Fibers
    <3>2. fiber' = [fiber EXCEPT ![r][d] = f] /\ landed' = landed
      BY <2>1 DEF Renew, IInv, OutboxTypeOK
    <3> QED BY <3>1, <3>2 DEF IInv, OutboxTypeOK
  <2>2. CASE Serve(r, d)
    <3>1. PICK o \in Outcomes :
              /\ landed' = IF o[1] THEN landed \cup {r} ELSE landed
              /\ fiber' = [fiber EXCEPT ![r][d] =
                              [fiber[r][d] EXCEPT !.at = "answered", !.token = FALSE, !.answer = o[2]]]
      BY <2>2 DEF Serve, IInv, OutboxTypeOK
    <3>2. o[2] \in Answers /\ (o[2] = "ok" => o[1] = TRUE)
      BY OutcomeFacts
    <3> DEFINE f == [fiber[r][d] EXCEPT !.at = "answered", !.token = FALSE, !.answer = o[2]]
    <3>3. f \in Fibers /\ f.at = "answered" /\ f.answer = o[2]
      BY <1>1, <3>2 DEF Fibers
    <3>4. fiber' = [fiber EXCEPT ![r][d] = f]
      BY <3>1
    <3>5. /\ landed \subseteq landed' /\ landed' \subseteq Rows
          /\ o[2] = "ok" => r \in landed'
      BY <3>1, <3>2 DEF IInv, OutboxTypeOK
    <3> HIDE DEF f
    <3> QED BY <3>3, <3>4, <3>5
  <2> QED BY <2>1, <2>2
<1>3. f.at \in InHand
  BY <1>2 DEF InHand
<1> QED BY <1>1, <1>2, <1>3, UntouchedRow, FiberStep DEF IInv, OutboxTypeOK, HistoryTypeOK, DrainsGoOn

LEMMA DoneFailsStep ==
    ASSUME IInv, NEW r \in Rows, NEW d \in Drains, DoneFails(r, d) PROVE IInv' /\ ParkedWaits
<1>1. /\ fiber[r][d].at = "answered" /\ fiber[r][d] \in Fibers
      /\ UNCHANGED <<rows, session, recovering, draining, drainer, broken, view, landed, retries,
                     discarded, orphaned>>
      /\ storeFailures' = storeFailures + 1
  BY DEF DoneFails, history, IInv, OutboxTypeOK, HistoryTypeOK, OnlyDrainsSend
<1> DEFINE f == [fiber[r][d] EXCEPT !.answer = "permanent"]
<1>2. f \in Fibers /\ f.at = "answered" /\ f.answer = "permanent"
  BY <1>1 DEF Fibers, Answers
<1>3. fiber' = [fiber EXCEPT ![r][d] = f]
  BY DEF DoneFails, IInv, OutboxTypeOK
<1> HIDE DEF f
<1>4. broken \in Drains /\ broken <= storeFailures' /\ storeFailures' \in Nat
  BY <1>1, DrainsAreNumbers DEF IInv, OutboxTypeOK, HistoryTypeOK
<1>5. f.at \in InHand
  BY <1>2 DEF InHand
<1> QED BY <1>1, <1>2, <1>3, <1>4, <1>5, UntouchedRow, FiberStep DEF IInv, OutboxTypeOK, DrainsGoOn

LEMMA StoreFailsStep ==
    ASSUME IInv, NEW r \in Rows, NEW d \in Drains, StoreFails(r, d) PROVE IInv' /\ ParkedWaits
<1>1. /\ fiber[r][d].at # "none"
      /\ UNCHANGED <<rows, landed, retries, discarded, orphaned>>
      /\ storeFailures < MaxStoreFailures /\ storeFailures' = storeFailures + 1
      /\ fiber' = [fiber EXCEPT ![r][d] = NoFiber]
      /\ d < broken \/ d = broken
  BY DEF StoreFails, history, IInv, OnlyDrainsSend
<1>2. NoFiber \in Fibers /\ NoFiber.at = "none"
  BY MaxAttemptsAssumption DEF NoFiber, Fibers
<1>3. session' \in Technicians \cup {Nobody} /\ recovering' \in BOOLEAN
  BY DEF StoreFails, IInv, OutboxTypeOK
<1>4. /\ broken \in Drains /\ broken \in Nat /\ broken <= storeFailures /\ storeFailures \in Nat /\ d \in Nat
      /\ broken + 1 \in Drains
  BY <1>1, DrainsAreNumbers, MaxStoreFailuresAssumption DEF IInv, OutboxTypeOK, HistoryTypeOK, Drains
<1>5. /\ broken' \in Drains /\ broken' # 0 /\ broken' <= storeFailures' /\ storeFailures' \in Nat
      /\ DrainsGoOn
      /\ draining' \in BOOLEAN /\ drainer' \in Technicians \cup {Nobody} /\ (draining' <=> drainer' # Nobody)
      /\ view' \in [Rows -> (States \ {"removed"}) \cup {"hidden"}]
  <2>1. CASE d = broken
    <3>1. /\ broken' = broken + 1 /\ draining' = FALSE /\ drainer' = Nobody /\ view' = Shows(rows, drainer)
      BY <2>1 DEF StoreFails
    <3>2. view' \in [Rows -> (States \ {"removed"}) \cup {"hidden"}]
      BY <3>1, ShowsType DEF IInv, OutboxTypeOK
    <3>3. broken' \in Drains /\ broken' # 0 /\ broken' <= storeFailures' /\ storeFailures' \in Nat
      BY <1>1, <1>4, <3>1
    <3>4. DrainsGoOn
      BY <3>1 DEF DrainsGoOn
    <3> QED BY <3>1, <3>2, <3>3, <3>4
  <2>2. CASE d # broken
    <3>1. UNCHANGED <<broken, draining, drainer>>
      BY <2>2 DEF StoreFails
    <3>2. view' \in [Rows -> (States \ {"removed"}) \cup {"hidden"}]
      BY <2>2 DEF StoreFails, IInv, OutboxTypeOK
    <3>3. broken # 0
      BY <1>1, <1>4, <2>2
    <3>4. broken' \in Drains /\ broken' # 0 /\ broken' <= storeFailures' /\ storeFailures' \in Nat
      BY <1>1, <1>4, <3>1, <3>3
    <3>5. DrainsGoOn
      BY <3>1 DEF DrainsGoOn
    <3> QED BY <3>1, <3>2, <3>4, <3>5 DEF IInv, OutboxTypeOK
  <2> QED BY <2>1, <2>2
<1>6. landed \subseteq landed' /\ landed' \subseteq Rows
  BY <1>1 DEF IInv, OutboxTypeOK
<1> QED BY <1>1, <1>2, <1>3, <1>5, <1>6, UntouchedRow, FiberStep

LEMMA FailureOutcomes ==
    ASSUME NEW answer, NEW attempts \in 0 .. MaxAttempts, NEW kind
    PROVE  \/ OutcomeAfterFailure(answer, attempts, kind)
                 = [state |-> "pending", attempts |-> attempts, due |-> TRUE]
           \/ \E n \in 1 .. MaxAttempts :
                \/ OutcomeAfterFailure(answer, attempts, kind)
                      = [state |-> "pending", attempts |-> n, due |-> FALSE]
                \/ OutcomeAfterFailure(answer, attempts, kind) = [state |-> "failed", attempts |-> n]
<1> DEFINE next == IF attempts < MaxAttempts THEN attempts + 1 ELSE attempts
<1>1. next \in 1 .. MaxAttempts
  BY MaxAttemptsAssumption
<1>2. \/ OutcomeAfterFailure(answer, attempts, kind)
           = [state |-> "pending", attempts |-> attempts, due |-> TRUE]
      \/ OutcomeAfterFailure(answer, attempts, kind)
           = [state |-> "pending", attempts |-> next, due |-> FALSE]
      \/ OutcomeAfterFailure(answer, attempts, kind) = [state |-> "failed", attempts |-> next]
  BY DEF OutcomeAfterFailure
<1> HIDE DEF next
<1> QED BY <1>1, <1>2

LEMMA SettleStep ==
    ASSUME IInv, NEW r \in Rows, NEW d \in Drains, Settle(r, d) PROVE IInv' /\ ParkedWaits
<1>1. /\ fiber[r][d].at = "answered" /\ fiber[r][d] \in Fibers /\ fiber[r][d].attempts \in 0 .. MaxAttempts
      /\ Queued(r) /\ rows[r] \in Actions /\ ~orphaned[r]
      /\ UNCHANGED <<draining, drainer, broken, landed, retries, storeFailures, discarded, orphaned>>
      /\ fiber' = [fiber EXCEPT ![r][d] = NoFiber]
  BY DEF Settle, bounds, history, IInv, OutboxTypeOK, OnlyDrainsSend, OrphansWait, Queued, Idle, Fibers
<1>2. NoFiber \in Fibers /\ NoFiber.at = "none"
  BY MaxAttemptsAssumption DEF NoFiber, Fibers
<1>3. /\ session' \in Technicians \cup {Nobody} /\ recovering' \in BOOLEAN
      /\ view' \in [Rows -> (States \ {"removed"}) \cup {"hidden"}]
  BY DEF Settle, SignedOut, IInv, OutboxTypeOK
<1>4. \/ ~Stored(r) /\ rows' = rows
      \/ Stored(r) /\ \E s \in States, a \in 0 .. MaxAttempts, due \in BOOLEAN :
            /\ Turns(r, s, a, due)
            /\ s \in {"done", "pending", "failed"} /\ (s = "done" => r \in landed)
            /\ ~due => a > 0 \/ (~rows[r].due /\ a = rows[r].attempts)
  <2>1. CASE ~Stored(r)
    BY <2>1 DEF Settle, Patched
  <2>2. CASE Stored(r) /\ fiber[r][d].answer = "ok"
    <3>1. r \in landed
      BY <1>1, <2>2 DEF IInv, OkHasLanded
    <3>2. Turns(r, "done", rows[r].attempts, rows[r].due)
      BY <2>2, StateTurns DEF Settle, States, IInv, OutboxTypeOK
    <3>3. rows[r].attempts \in 0 .. MaxAttempts /\ rows[r].due \in BOOLEAN /\ "done" \in States
      BY <1>1, ActionFields DEF States
    <3> QED BY <2>2, <3>1, <3>2, <3>3
  <2>3. CASE Stored(r) /\ fiber[r][d].answer # "ok"
    <3> DEFINE outcome == OutcomeAfterFailure(fiber[r][d].answer, fiber[r][d].attempts, rows[r].kind)
    <3>1. rows' = Patched(r, outcome) /\ rows \in [Rows -> Actions \cup {NoRow}]
      BY <2>3 DEF Settle, IInv, OutboxTypeOK
    <3>2. {"pending", "failed"} \subseteq States /\ {TRUE, FALSE} \subseteq BOOLEAN
      BY DEF States
    <3>3. CASE outcome = [state |-> "pending", attempts |-> fiber[r][d].attempts, due |-> TRUE]
      <4>1. Turns(r, "pending", fiber[r][d].attempts, TRUE)
        BY <1>1, <2>3, <3>1, <3>2, <3>3, AllTurn
      <4> QED BY <1>1, <2>3, <3>2, <4>1
    <3>4. CASE \E n \in 1 .. MaxAttempts :
                 \/ outcome = [state |-> "pending", attempts |-> n, due |-> FALSE]
                 \/ outcome = [state |-> "failed", attempts |-> n]
      <4>1. PICK n \in 1 .. MaxAttempts : \/ outcome = [state |-> "pending", attempts |-> n, due |-> FALSE]
                                          \/ outcome = [state |-> "failed", attempts |-> n]
        BY <3>4
      <4>2. n \in 0 .. MaxAttempts /\ n > 0
        BY MaxAttemptsAssumption
      <4> HIDE DEF outcome
      <4>3. CASE outcome = [state |-> "pending", attempts |-> n, due |-> FALSE]
        <5>1. Turns(r, "pending", n, FALSE)
          BY <2>3, <3>1, <3>2, <4>2, <4>3, AllTurn
        <5> QED BY <2>3, <3>2, <4>2, <5>1
      <4>4. CASE outcome = [state |-> "failed", attempts |-> n]
        <5>1. Turns(r, "failed", n, rows[r].due)
          BY <2>3, <3>1, <3>2, <4>2, <4>4, StateAndAttemptsTurn
        <5>2. rows[r].due \in BOOLEAN
          BY <1>1, ActionFields
        <5> QED BY <2>3, <3>2, <4>2, <5>1, <5>2
      <4> QED BY <4>1, <4>3, <4>4
    <3>5. \/ outcome = [state |-> "pending", attempts |-> fiber[r][d].attempts, due |-> TRUE]
          \/ \E n \in 1 .. MaxAttempts :
               \/ outcome = [state |-> "pending", attempts |-> n, due |-> FALSE]
               \/ outcome = [state |-> "failed", attempts |-> n]
      <4>1. fiber[r][d].attempts \in 0 .. MaxAttempts
        BY <1>1
      <4> QED BY <4>1, FailureOutcomes
    <3> QED BY <3>3, <3>4, <3>5, Zenon
  <2> QED BY <2>1, <2>2, <2>3
<1>5. /\ Queued(r)' /\ SameAction(rows'[r], rows[r])
      /\ rows' \in [Rows -> Actions \cup {NoRow}] /\ \A q \in Rows \ {r} : rows'[q] = rows[q]
      /\ rows'[r].state \in Over => rows[r].state \in Over \/ r \in landed'
      /\ rows'[r].state # "removed" => rows[r].state # "removed"
      /\ ~rows'[r].due => rows'[r].attempts > 0 \/ (~rows[r].due /\ rows'[r].attempts = rows[r].attempts)
  <2>1. CASE ~Stored(r) /\ rows' = rows
    BY <1>1, <2>1 DEF SameAction, Stored, Queued, Over, IInv, OutboxTypeOK
  <2>2. CASE Stored(r)
    <3>1. PICK s \in States, a \in 0 .. MaxAttempts, due \in BOOLEAN :
              /\ Turns(r, s, a, due)
              /\ s \in {"done", "pending", "failed"} /\ (s = "done" => r \in landed)
              /\ ~due => a > 0 \/ (~rows[r].due /\ a = rows[r].attempts)
      BY <1>4, <2>2
    <3> QED BY <1>1, <2>2, <3>1 DEF Turns, Stored, Queued, Over
  <2> QED BY <1>4, <2>1, <2>2
<1>6. rows'[r].state # "sending"
  <2>1. CASE ~Stored(r) /\ rows' = rows
    BY <1>1, <2>1 DEF Stored
  <2>2. CASE Stored(r)
    BY <1>4, <2>2 DEF Turns
  <2> QED BY <1>4, <2>1, <2>2
<1> QED BY <1>1, <1>2, <1>3, <1>5, <1>6, FiberStep DEF IInv, OutboxTypeOK, HistoryTypeOK, DrainsGoOn

---------------------------------------------------------------------------
(* The clock, and the operating system. *)

LEMMA ClockSteps ==
    ASSUME IInv, NEW r \in Rows, BackoffElapses(r) \/ GrowOld(r) PROVE IInv' /\ ParkedWaits
<1>1. /\ Stored(r) /\ Queued(r) /\ rows[r] \in Actions
      /\ UNCHANGED <<session, recovering, draining, drainer, broken, fiber, view, landed, retries, storeFailures,
                     discarded, orphaned>>
  BY DEF BackoffElapses, GrowOld, Stored, Queued, bounds, history, IInv, OutboxTypeOK
<1>2. \E d \in BOOLEAN : Turns(r, rows[r].state, rows[r].attempts, d) /\ (~d => ~rows[r].due)
  <2>1. CASE BackoffElapses(r)
    <3> DEFINE new == [rows[r] EXCEPT !.due = TRUE]
    <3>1. /\ new \in Actions /\ SameAction(new, rows[r]) /\ new.state = rows[r].state
          /\ new.attempts = rows[r].attempts /\ new.due = TRUE
      BY <1>1 DEF Actions, SameAction
    <3>2. rows' = [rows EXCEPT ![r] = new]
      BY <2>1 DEF BackoffElapses, IInv, OutboxTypeOK
    <3> HIDE DEF new
    <3>3. Turns(r, rows[r].state, rows[r].attempts, TRUE)
      BY <3>1, <3>2, NoRowAssumption DEF Turns, IInv, OutboxTypeOK
    <3> QED BY <3>3
  <2>2. CASE GrowOld(r)
    <3> DEFINE new == [rows[r] EXCEPT !.old = TRUE]
    <3>1. /\ new \in Actions /\ SameAction(new, rows[r]) /\ new.state = rows[r].state
          /\ new.attempts = rows[r].attempts /\ new.due = rows[r].due /\ rows[r].due \in BOOLEAN
      BY <1>1 DEF Actions, SameAction
    <3>2. rows' = [rows EXCEPT ![r] = new]
      BY <2>2 DEF GrowOld, IInv, OutboxTypeOK
    <3> HIDE DEF new
    <3>3. Turns(r, rows[r].state, rows[r].attempts, rows[r].due)
      BY <3>1, <3>2, NoRowAssumption DEF Turns, IInv, OutboxTypeOK
    <3> QED BY <3>1, <3>3
  <2> QED BY <2>1, <2>2
<1>3. RowSteady(r)
  BY <1>1, <1>2 DEF RowSteady, Turns, Queued, InHand, IInv, OkHasLanded
<1>4. Steady
  BY <1>1, <1>2, <1>3, OneRowSteady DEF Turns, DrainsGoOn
<1>5. OutboxTypeOK' /\ HistoryTypeOK'
  BY <1>1, <1>2 DEF IInv, OutboxTypeOK, HistoryTypeOK, Turns
<1>6. ParkedWaits
  BY <1>2 DEF ParkedWaits, Turns
<1> QED BY <1>4, <1>5, <1>6, SteadyKeeps

LEMMA KillStep ==
    ASSUME IInv, Kill PROVE IInv' /\ ParkedWaits
<1>1. /\ UNCHANGED <<session, broken, retries, storeFailures, discarded>>
      /\ orphaned' = [r \in Rows |-> orphaned[r] \/
             (Queued(r) /\ rows[r].state = "sending" /\ ~Idempotent(rows[r].kind))]
      /\ rows' = [r \in Rows |-> IF Queued(r) THEN Recovered(rows[r]) ELSE NoRow]
      /\ fiber' = [r \in Rows |-> [d \in Drains |-> NoFiber]] /\ draining' = FALSE /\ drainer' = Nobody
      /\ view' = [r \in Rows |-> "hidden"] /\ recovering' \in BOOLEAN
  BY DEF Kill
<1>2. landed \subseteq landed' /\ landed' \subseteq Rows
  BY DEF Kill, IInv, OutboxTypeOK
<1>3. /\ fiber' \in [Rows -> [Drains -> Fibers]]
      /\ \A r \in Rows, d \in Drains : fiber'[r][d].at = "none" /\ fiber'[r][d].answer = "none"
  <2>1. NoFiber \in Fibers
    BY MaxAttemptsAssumption DEF NoFiber, Fibers
  <2> QED BY <1>1, <2>1 DEF NoFiber
<1>4. \A r \in Rows :
          /\ Queued(r) => rows[r] \in Actions /\ rows'[r] = Recovered(rows[r]) /\ rows'[r] \in Actions
          /\ ~Queued(r) => rows'[r] = NoRow
  BY <1>1, RecoveredFacts DEF Queued, IInv, OutboxTypeOK
<1>5. \A r \in Rows : Queued(r)' <=> Queued(r)
  BY <1>4, ActionFields DEF Queued
<1>6. OutboxTypeOK' /\ HistoryTypeOK'
  <2>1. rows' \in [Rows -> Actions \cup {NoRow}]
    BY <1>1, <1>4
  <2>2. view' \in [Rows -> (States \ {"removed"}) \cup {"hidden"}]
    BY <1>1
  <2>4. orphaned' \in [Rows -> BOOLEAN]
    <3>1. \A r \in Rows : orphaned'[r] \in BOOLEAN
      BY <1>1 DEF IInv, HistoryTypeOK
    <3> QED BY <1>1, <3>1
  <2> QED BY <1>1, <1>2, <1>3, <2>1, <2>2, <2>4 DEF IInv, OutboxTypeOK, HistoryTypeOK
<1>7. QueuedInOrder'
  BY <1>5 DEF IInv, QueuedInOrder
<1>8. OnlyDrainsSend' /\ OneInFlightPerJob' /\ OkHasLanded' /\ OlderWereTried'
  BY <1>3, DrainsAreNumbers DEF OnlyDrainsSend, OneInFlightPerJob, OkHasLanded, OlderWereTried
<1>9. NothingDisappears'
  BY <1>1, <1>2, <1>4, <1>5, RecoveredFacts DEF IInv, NothingDisappears
<1>10. OrphansWait'
  <2> SUFFICES ASSUME NEW r \in Rows, orphaned'[r]
               PROVE  Queued(r)' /\ rows'[r].state \in {"unknown", "removed"}
    BY <1>3 DEF OrphansWait, Idle
  <2>1. CASE orphaned[r]
    <3>1. Queued(r) /\ rows[r].state \in {"unknown", "removed"}
      BY <2>1 DEF IInv, OrphansWait
    <3> QED BY <1>4, <1>5, <3>1, RecoveredFacts
  <2>2. CASE Queued(r) /\ rows[r].state = "sending" /\ ~Idempotent(rows[r].kind)
    <3>1. rows[r] \in Actions /\ rows'[r] = Recovered(rows[r]) /\ Queued(r)'
      BY <1>4, <1>5, <2>2
    <3>2. Recovered(rows[r]).state = "unknown"
      BY <2>2, <3>1, RecoveredFacts
    <3> QED BY <3>1, <3>2
  <2> QED BY <1>1, <2>1, <2>2
<1>11. SendingIsInHand' /\ WaitsAfterTrying'
  BY <1>4, <1>5, RecoveredFacts DEF IInv, SendingIsInHand, WaitsAfterTrying
<1>12. ParkedWaits
  BY <1>4, RecoveredFacts DEF ParkedWaits
<1> QED BY <1>6, <1>7, <1>8, <1>9, <1>10, <1>11, <1>12 DEF IInv
---------------------------------------------------------------------------
(* Every step. *)

LEMMA InitInvariant ==
    ASSUME OutboxInit PROVE IInv
<1> USE DEF OutboxInit
<1>1. \A r \in Rows : ~Queued(r) /\ ~orphaned[r] /\ \A d \in Drains : fiber[r][d] = NoFiber
  BY DEF Queued
<1>2. NoFiber \in Fibers /\ NoFiber.at = "none"
  BY MaxAttemptsAssumption DEF NoFiber, Fibers
<1>3. OutboxTypeOK
  BY <1>2, DrainsAreNumbers DEF OutboxTypeOK
<1>4. HistoryTypeOK
  BY DEF HistoryTypeOK
<1>5. QueuedInOrder /\ OnlyDrainsSend /\ OneInFlightPerJob /\ OkHasLanded /\ NothingDisappears
  BY <1>1, <1>2 DEF QueuedInOrder, OnlyDrainsSend, OneInFlightPerJob, OkHasLanded, NothingDisappears
<1>6. OrphansWait /\ SendingIsInHand /\ WaitsAfterTrying /\ OlderWereTried
  BY <1>1, <1>2, DrainsAreNumbers DEF OrphansWait, SendingIsInHand, WaitsAfterTrying, OlderWereTried
<1> QED BY <1>3, <1>4, <1>5, <1>6 DEF IInv

LEMMA NextInvariant ==
    ASSUME IInv, [OutboxNext]_vars PROVE IInv' /\ ParkedWaits
<1>1. CASE Taps
  BY <1>1, SessionSteps, EnqueueStep, RetryStep, DiscardStep DEF Taps
<1>2. CASE Work
  BY <1>2, SessionSteps, RecoverSteps, DrainStep, MarkStep, OnTheWaySteps, SettleStep,
     DoneFailsStep, StoreFailsStep DEF Work, Handling
<1>3. CASE Clock
  BY <1>3, KillStep, ClockSteps DEF Clock
<1>4. CASE UNCHANGED vars
  <2>1. Steady
    BY <1>4, RowUntouched DEF Steady, DrainsGoOn, vars, phone, bounds, history
  <2>2. OutboxTypeOK' /\ HistoryTypeOK'
    BY <1>4 DEF IInv, OutboxTypeOK, HistoryTypeOK, vars, phone, bounds, history
  <2> QED BY <1>4, <2>1, <2>2, SteadyKeeps DEF ParkedWaits, vars, phone
<1> QED BY <1>1, <1>2, <1>3, <1>4 DEF OutboxNext

\* The invariant holds of every behaviour.
THEOREM OutboxInvariant == OutboxSpec => []IInv
<1>1. OutboxInit => IInv
  BY InitInvariant
<1>2. IInv /\ [OutboxNext]_vars => IInv'
  BY NextInvariant
<1> QED BY <1>1, <1>2, PTL DEF OutboxSpec

---------------------------------------------------------------------------
(* The theorems. *)

\* Every variable of the outbox keeps its type.
THEOREM OutboxTypeCorrect == OutboxSpec => []OutboxTypeOK
<1>1. IInv => OutboxTypeOK
  BY DEF IInv
<1> QED BY <1>1, OutboxInvariant, PTL

\* A row that is gone, or shown as sent, took effect on the server or was thrown
\* away by the technician, however often the app is killed, the phone changes
\* hands or a write of the table fails.
THEOREM NothingIsLost == OutboxSpec => []NothingDisappears
<1>1. IInv => NothingDisappears
  BY DEF IInv
<1> QED BY <1>1, OutboxInvariant, PTL

\* A drain never handles two rows of one job at once; nor do any two drains, as
\* long as no failed write of the table has cut one short.
THEOREM OneRequestPerJob == OutboxSpec => []OneInFlightPerJob
<1>1. IInv => OneInFlightPerJob
  BY DEF IInv
<1> QED BY <1>1, OutboxInvariant, PTL

\* A note that was being sent when the app died waits for the technician.
THEOREM InterruptedNotesWait == OutboxSpec => []NeverReplayedAutomatically
<1>1. IInv => NeverReplayedAutomatically
  BY DEF IInv, OrphansWait, NeverReplayedAutomatically
<1> QED BY <1>1, OutboxInvariant, PTL

\* As long as no failed write has cut a drain short, the next wake-up finds no row
\* left in `sending`.
THEOREM NextWakeUpTries == OutboxSpec => []NextWakeUpTriesAgain
<1>1. IInv => NextWakeUpTriesAgain
  <2> SUFFICES ASSUME IInv, broken = 0, ~draining, NEW r \in RowsOf(session)
               PROVE  rows[r].state # "sending"
    BY DEF NextWakeUpTriesAgain
  <2>1. r \in Rows /\ Queued(r)
    BY DEF RowsOf, Stored
  <2>2. fiber[r][0].at = "none"
    BY <2>1, DrainsAreNumbers DEF IInv, OnlyDrainsSend
  <2> QED BY <2>1, <2>2 DEF IInv, SendingIsInHand
<1> QED BY <1>1, OutboxInvariant, PTL

\* A parked action is neither sent nor thrown away by anybody but its owner.
THEOREM ParkedActionsWait == OutboxSpec => ParkedWaitsForItsOwner
<1>1. IInv /\ [OutboxNext]_vars => [ParkedWaits]_vars
  BY NextInvariant
<1>2. OutboxSpec => [][ParkedWaits]_vars
  BY <1>1, OutboxInvariant, PTL DEF OutboxSpec
<1> QED BY <1>2 DEF ParkedWaitsForItsOwner, ParkedWaits

\* What an action that takes effect may overtake, in one step.
Overtakes ==
    \A q, r \in Rows :
         /\ q < r /\ r \notin landed /\ r \in landed'
         /\ Stored(q) /\ Stored(r) /\ rows[q].job = rows[r].job /\ rows[q].user = rows[r].user
         /\ q \notin landed /\ rows[q].state = "pending" /\ retries = 0 /\ broken = 0
         => rows[q].attempts > 0

LEMMA OnlyHandledRowsLand ==
    ASSUME IInv, OutboxNext, NEW r \in Rows, r \notin landed, r \in landed'
    PROVE  \E d \in Drains : fiber[r][d].at # "none"
<1>1. CASE Taps
  BY <1>1 DEF Taps, SignIn, SignOut, EnqueueAction, Retry, Discard
<1>2. CASE Work
  <2>1. ASSUME NEW q \in Rows, NEW d \in Drains, Serve(q, d) PROVE \E e \in Drains : fiber[r][e].at # "none"
    BY <2>1 DEF Serve
  <2>2. ASSUME NEW q \in Rows, NEW d \in Drains, Mark(q, d) \/ Renew(q, d) \/ Settle(q, d) PROVE landed' = landed
    BY <2>2 DEF Mark, Renew, Settle
  <2>3. ASSUME NEW q \in Rows, NEW d \in Drains, DoneFails(q, d) \/ StoreFails(q, d) PROVE landed' = landed
    BY <2>3 DEF DoneFails, StoreFails
  <2>4. Recover \/ RecoverFails \/ Drain \/ EndDrain => landed' = landed
    BY DEF Recover, RecoverFails, Drain, EndDrain
  <2> QED BY <1>2, <2>1, <2>2, <2>3, <2>4 DEF Work, Handling
<1>3. CASE Clock
  BY <1>3 DEF Clock, Kill, BackoffElapses, GrowOld
<1> QED BY <1>1, <1>2, <1>3 DEF OutboxNext

\* Short of a tap on Retry, and until a failed write cuts a drain short, an action
\* overtakes an older one of its job only when that failed an attempt or is parked.
THEOREM OrderKeptUntilTried == OutboxSpec => OvertakesOnlyTheTried
<1>1. IInv /\ [OutboxNext]_vars => [Overtakes]_vars
  <2> SUFFICES ASSUME IInv, OutboxNext PROVE Overtakes
    OBVIOUS
  <2> SUFFICES ASSUME NEW q \in Rows, NEW r \in Rows, q < r, r \notin landed, r \in landed',
                      Stored(q), rows[q].job = rows[r].job, rows[q].user = rows[r].user,
                      rows[q].state = "pending", retries = 0, broken = 0
               PROVE  rows[q].attempts > 0
    BY DEF Overtakes
  <2>1. fiber[r][0].at # "none"
    BY OnlyHandledRowsLand, DrainsAreNumbers DEF IInv, OnlyDrainsSend
  <2> QED BY <2>1 DEF IInv, OlderWereTried
<1>2. OutboxSpec => [][Overtakes]_vars
  BY <1>1, OutboxInvariant, PTL DEF OutboxSpec
<1> QED BY <1>2 DEF OvertakesOnlyTheTried, Overtakes
=============================================================================
