------------------------------- MODULE Outbox -------------------------------
(***************************************************************************)
(* The technician app's offline outbox on one phone: the table of queued   *)
(* actions (lib/queue/db.ts), the worker that empties it (worker.ts,       *)
(* policy.ts), and the provider that wakes the worker and acts on the      *)
(* Queue screen's taps (features/queue/queue-provider.tsx).                *)
(*                                                                         *)
(* One drain runs at a time. It takes a snapshot of its technician's rows, *)
(* picks at most one ready row per job, and handles the picked rows        *)
(* concurrently: mark the row `sending`, call the API, write the outcome.  *)
(* Between any two of these the technician may queue, retry or discard,    *)
(* sign out, or hand the phone over, and the app may be killed. The drain  *)
(* then uploads photos, an unbounded time, before the screen is refreshed. *)
(* A failed write of the table ends the drain early, and its other handlers*)
(* run on beside the next one.                                             *)
(*                                                                         *)
(* The clock is abstract: a backoff elapses and a text grows old by steps  *)
(* of their own. `confirm` is like `arrived`, `status` like `note` and     *)
(* `on_my_way` like `late`. Photos, payloads and the GPS patch of an       *)
(* arrival are not in this module.                                         *)
(***************************************************************************)
EXTENDS Naturals, FiniteSets

CONSTANTS
    Rows,               \* the ids of the actions, in the order they are queued
    Jobs,
    Technicians,
    Nobody,             \* no one is signed in
    NoRow,              \* an action not queued yet
    Kinds,              \* of the actions that are queued
    MaxAttempts,        \* MAX_NON_IDEMPOTENT_ATTEMPTS
    MaxKills,           \* bound: how often the app is killed
    MaxSignOuts,        \* bound: how often somebody signs out, or a 401 does it
    MaxRetries,         \* bound: taps on Retry
    MaxStoreFailures    \* bound: SQLite writes that fail

ASSUME RowsAssumption == Rows \subseteq Nat /\ IsFiniteSet(Rows)
ASSUME NobodyAssumption == Nobody \notin Technicians
ASSUME KindsAssumption == Kinds \subseteq {"arrived", "note", "late"}
ASSUME MaxAttemptsAssumption == MaxAttempts \in Nat \ {0}
ASSUME MaxStoreFailuresAssumption == MaxStoreFailures \in Nat

\* A row of the table; one that was deleted is "removed". due: its backoff is
\* over. old: the client would be told too late.
States == {"pending", "sending", "unknown", "failed", "done", "removed"}
Actions == [user : Technicians, job : Jobs, kind : Kinds, state : States,
            attempts : 0 .. MaxAttempts, due : BOOLEAN, old : BOOLEAN]

ASSUME NoRowAssumption == NoRow \notin Actions

VARIABLES
    rows,       \* the outbox table
    session,    \* the technician who is signed in
    recovering, \* the provider has still to recover the session's rows
    draining,   \* the provider's draining ref
    drainer,    \* the technician whose stores the drain holds
    broken,     \* how many drains a failed write has cut short
    fiber,      \* the handling of each picked row, by drain
    view,       \* the state each row is shown in, or "hidden"
    landed,     \* server: the actions that took effect
    kills, signOuts, retries, storeFailures,
    discarded,  \* history: the technician threw the row away
    orphaned    \* history: the app died while the row was being sent

phone == <<rows, session, recovering, draining, drainer, broken, fiber, view>>
bounds == <<kills, signOuts, retries, storeFailures>>
history == <<discarded, orphaned>>
vars == <<phone, landed, bounds, history>>

Idempotent(kind) == kind \in {"arrived", "late"}
ClientVisible(kind) == kind = "late"

Answers == {"ok", "offline", "auth", "transient", "permanent"}

\* Drain d is the one that runs, or runs next, after d others were cut short.
Drains == 0 .. MaxStoreFailures
NoFiber == [at |-> "none", token |-> FALSE, answer |-> "none", attempts |-> 0]

Queued(r) == rows[r] # NoRow
Stored(r) == Queued(r) /\ rows[r].state # "removed"
Idle(r) == \A d \in Drains : fiber[r][d].at = "none"

\* A mutant: the stores are not bound to a technician.
RowsOfAnyone(u) == {r \in Rows : Stored(r)}

\* The stores are bound to one technician: `AND user_id = ?`.
RowsOf(u) == {r \in Rows : Stored(r) /\ rows[r].user = u}

\* What is left of a deleted row: whose it was, and of which job.
Deleted(row) == [row EXCEPT !.state = "removed", !.attempts = 0, !.due = TRUE, !.old = FALSE]

\* UPDATE ... WHERE id = ? AND user_id = ?: a removed row stays removed.
Patched(r, patch) ==
    IF ~Stored(r) THEN rows
    ELSE [rows EXCEPT ![r] =
            [field \in DOMAIN @ |-> IF field \in DOMAIN patch THEN patch[field] ELSE @[field]]]

\* A mutant: the screen still shows the rows that were removed.
ShowsRemoved(table, u) ==
    [r \in Rows |-> IF u # Nobody /\ table[r] # NoRow /\ table[r].user = u
                    THEN table[r].state ELSE "hidden"]

\* What refresh shows of the rows bound to u.
Shows(table, u) ==
    [r \in Rows |-> IF /\ u # Nobody /\ table[r] # NoRow
                       /\ table[r].user = u /\ table[r].state # "removed"
                    THEN table[r].state ELSE "hidden"]

OutboxInit ==
    /\ rows = [r \in Rows |-> NoRow]
    /\ session = Nobody /\ recovering = FALSE
    /\ draining = FALSE /\ drainer = Nobody /\ broken = 0
    /\ fiber = [r \in Rows |-> [d \in Drains |-> NoFiber]]
    /\ view = [r \in Rows |-> "hidden"]
    /\ landed = {}
    /\ kills = 0 /\ signOuts = 0 /\ retries = 0 /\ storeFailures = 0
    /\ discarded = [r \in Rows |-> FALSE]
    /\ orphaned = [r \in Rows |-> FALSE]

---------------------------------------------------------------------------
(* The technician: sessions and taps. *)

SignIn(u) ==
    /\ session = Nobody
    /\ session' = u
    /\ recovering' = TRUE
    /\ UNCHANGED <<rows, draining, drainer, broken, fiber, view, landed, bounds, history>>

\* signOut, tapped or after a 401: the stores are gone and the screen is empty.
\* A running drain goes on with the stores it holds.
SignedOut ==
    /\ session' = Nobody
    /\ recovering' = FALSE
    /\ view' = [r \in Rows |-> "hidden"]

SignOut ==
    /\ session # Nobody
    /\ signOuts < MaxSignOuts
    /\ signOuts' = signOuts + 1
    /\ SignedOut
    /\ UNCHANGED <<rows, draining, drainer, broken, fiber, landed, kills, retries, storeFailures, history>>

\* A mutant: every interrupted action goes back in the queue.
RearmsAll(row) == IF row.state = "sending" THEN [row EXCEPT !.state = "pending"] ELSE row

\* A mutant: notes that were being sent are left as they are.
RearmsReplayable(row) ==
    IF row.state = "sending" /\ Idempotent(row.kind) THEN [row EXCEPT !.state = "pending"] ELSE row

\* recoverInFlightRows, of one row.
Recovered(row) ==
    IF row.state # "sending" THEN row
    ELSE [row EXCEPT !.state = IF Idempotent(row.kind) THEN "pending" ELSE "unknown"]

\* recoverQueuesForUser, then refresh.
Recover ==
    /\ recovering
    /\ recovering' = FALSE
    /\ rows' = [r \in Rows |-> IF r \in RowsOf(session) THEN Recovered(rows[r]) ELSE rows[r]]
    /\ view' = Shows(rows', session)
    /\ UNCHANGED <<session, draining, drainer, broken, fiber, landed, bounds, history>>

\* One of the two UPDATEs of the recovery fails: the first, which re-arms what is
\* replayable, or the second, which parks the rest. The queue goes on without.
RecoverFails ==
    /\ recovering
    /\ storeFailures < MaxStoreFailures
    /\ storeFailures' = storeFailures + 1
    /\ recovering' = FALSE
    /\ \E rearmed \in {{}, {r \in RowsOf(session) : Idempotent(rows[r].kind)}} :
         rows' = [r \in Rows |-> IF r \in rearmed THEN Recovered(rows[r]) ELSE rows[r]]
    /\ view' = Shows(rows', session)
    /\ UNCHANGED <<session, draining, drainer, broken, fiber, landed, kills, signOuts, retries, history>>

EnqueueAction(r) ==
    /\ session # Nobody
    /\ ~Queued(r) /\ \A q \in Rows : q < r => Queued(q)
    /\ \E job \in Jobs, kind \in Kinds :
         rows' = [rows EXCEPT ![r] = [user |-> session, job |-> job, kind |-> kind,
                    state |-> "pending", attempts |-> 0, due |-> TRUE, old |-> FALSE]]
    /\ view' = Shows(rows', session)
    /\ UNCHANGED <<session, recovering, draining, drainer, broken, fiber, landed, bounds, history>>

\* retry (and retryAll, row by row) on what the screen shows, without looking
\* at the row again.
Retry(r) ==
    /\ session # Nobody
    /\ view[r] \in {"failed", "pending", "unknown"}
    /\ retries < MaxRetries
    /\ retries' = retries + 1
    /\ rows' = IF r \in RowsOf(session)
               THEN Patched(r, [state |-> "pending", attempts |-> 0, due |-> TRUE])
               ELSE rows
    /\ view' = Shows(rows', session)
    /\ orphaned' = [orphaned EXCEPT ![r] = FALSE]
    /\ UNCHANGED <<session, recovering, draining, drainer, broken, fiber, landed,
                   kills, signOuts, storeFailures, discarded>>

Discard(r) ==
    /\ session # Nobody
    /\ view[r] \in {"failed", "unknown"}
    /\ rows' = IF r \in RowsOf(session) THEN [rows EXCEPT ![r] = Deleted(@)] ELSE rows
    /\ view' = Shows(rows', session)
    /\ discarded' = [discarded EXCEPT ![r] = TRUE]
    /\ UNCHANGED <<session, recovering, draining, drainer, broken, fiber, landed, bounds, orphaned>>

---------------------------------------------------------------------------
(* The worker. *)

Ready(u) == {r \in RowsOf(u) : rows[r].state = "pending" /\ rows[r].due}

\* A mutant: everything that is ready is sent at once.
TakesAllReady(u) == Ready(u)

\* A mutant: a parked row holds up its job.
WaitsBehindParked(u) ==
    {r \in Ready(u) : \A q \in RowsOf(u) :
        rows[q].job = rows[r].job => rows[q].state = "done" \/ (rows[q].state = "pending" /\ r <= q)}

\* A mutant: the newest row of a job goes first.
TakesNewest(u) ==
    {r \in Ready(u) :
        /\ \A q \in RowsOf(u) : rows[q].job = rows[r].job => rows[q].state # "sending"
        /\ \A q \in Ready(u) : rows[q].job = rows[r].job => q <= r}

\* At most one row per job, the oldest, of jobs with no row in flight.
SelectNextBatch(u) ==
    {r \in Ready(u) :
        /\ \A q \in RowsOf(u) : rows[q].job = rows[r].job => rows[q].state # "sending"
        /\ \A q \in Ready(u) : rows[q].job = rows[r].job => r <= q}

\* A mutant: parked rows are swept with the sent ones.
SweepsParked(u) == {r \in RowsOf(u) : rows[r].state \in {"done", "failed"}}

\* Sent rows, which are swept once they are a minute old.
Sweepable(u) == {r \in RowsOf(u) : rows[r].state = "done"}

\* One of the wake-ups finds no drain running: the snapshot, the sweep, the pick.
\* (A drain whose snapshot or sweep fails does what one with nothing to pick does.)
Drain ==
    /\ session # Nobody /\ ~draining
    /\ draining' = TRUE /\ drainer' = session
    /\ \E swept \in SUBSET Sweepable(session) :
         rows' = [r \in Rows |-> IF r \in swept THEN Deleted(rows[r]) ELSE rows[r]]
    /\ fiber' = [r \in Rows |-> IF r \in SelectNextBatch(session)
                    THEN [fiber[r] EXCEPT ![broken] =
                            [NoFiber EXCEPT !.at = "picked", !.attempts = rows[r].attempts]]
                    ELSE fiber[r]]
    /\ UNCHANGED <<session, recovering, broken, view, landed, bounds, history>>

TooOldToSend(row) == ClientVisible(row.kind) /\ row.old

\* Parked when it is too old; marked `sending` otherwise, and the request is on
\* its way.
Mark(r, d) ==
    /\ fiber[r][d].at = "picked"
    /\ IF TooOldToSend(rows[r])
       THEN /\ rows' = Patched(r, [state |-> "failed"])
            /\ fiber' = [fiber EXCEPT ![r][d] = NoFiber]
       ELSE /\ rows' = Patched(r, [state |-> "sending"])
            /\ fiber' = [fiber EXCEPT ![r][d] = [@ EXCEPT !.at = "wire", !.token = (session # Nobody)]]
    /\ UNCHANGED <<session, recovering, draining, drainer, broken, view, landed, bounds, history>>

\* It carries the token of whoever is signed in when it leaves, or when a 401, a
\* token refresh that succeeds and the one retry that buys send it again.
Renew(r, d) ==
    /\ fiber[r][d].at = "wire"
    /\ session # Nobody
    /\ fiber' = [fiber EXCEPT ![r][d] = [@ EXCEPT !.token = TRUE]]
    /\ UNCHANGED <<rows, session, recovering, draining, drainer, broken, view, landed, bounds, history>>

HasAttemptsLeft(attempts, kind) == Idempotent(kind) \/ attempts < MaxAttempts

\* What a request came to: whether it took effect, and what the app sees. A
\* reply lost on the way is "offline"; one cut short is a 200 without a body,
\* which is "permanent".
Outcomes == ({TRUE} \X {"ok", "offline", "transient", "permanent"})
            \cup ({FALSE} \X {"offline", "transient", "permanent", "auth"})

Serve(r, d) ==
    /\ fiber[r][d].at = "wire"
    /\ \E o \in Outcomes :
         /\ ~fiber[r][d].token => o[2] \in {"auth", "offline"} /\ ~o[1]
         /\ o[2] = "auth" => signOuts < MaxSignOuts
         /\ signOuts' = IF o[2] = "auth" THEN signOuts + 1 ELSE signOuts
         /\ landed' = IF o[1] THEN landed \cup {r} ELSE landed
         /\ fiber' = [fiber EXCEPT ![r][d] = [@ EXCEPT !.at = "answered", !.token = FALSE, !.answer = o[2]]]
    /\ UNCHANGED <<rows, session, recovering, draining, drainer, broken, view,
                   kills, retries, storeFailures, history>>

\* outcomeAfterFailure, from the attempts of the snapshot.
OutcomeAfterFailure(answer, attempts, kind) ==
    LET next == IF attempts < MaxAttempts THEN attempts + 1 ELSE attempts IN
    CASE answer = "offline" -> [state |-> "pending", attempts |-> attempts, due |-> TRUE]
      [] answer = "auth" \/ (answer = "transient" /\ HasAttemptsLeft(attempts + 1, kind)) ->
            [state |-> "pending", attempts |-> next, due |-> FALSE]
      [] OTHER -> [state |-> "failed", attempts |-> next]

\* The outcome is written; a second 401 signs out whoever is signed in.
Settle(r, d) ==
    /\ fiber[r][d].at = "answered"
    /\ rows' = Patched(r, IF fiber[r][d].answer = "ok" THEN [state |-> "done"]
                          ELSE OutcomeAfterFailure(fiber[r][d].answer, fiber[r][d].attempts, rows[r].kind))
    /\ fiber' = [fiber EXCEPT ![r][d] = NoFiber]
    /\ IF fiber[r][d].answer = "auth" THEN SignedOut ELSE UNCHANGED <<session, recovering, view>>
    /\ UNCHANGED <<draining, drainer, broken, landed, bounds, history>>

\* The write of `done` fails inside the try: an error of our own is permanent.
DoneFails(r, d) ==
    /\ fiber[r][d].at = "answered" /\ fiber[r][d].answer = "ok"
    /\ storeFailures < MaxStoreFailures
    /\ storeFailures' = storeFailures + 1
    /\ fiber' = [fiber EXCEPT ![r][d] = [@ EXCEPT !.answer = "permanent"]]
    /\ UNCHANGED <<rows, session, recovering, draining, drainer, broken, view, landed,
                   kills, signOuts, retries, history>>

\* A write outside the try fails, the mark (or the parking of a text too old) or
\* the outcome of a failed attempt: the row stays as it is and its handling is
\* over. Promise.all gives up with it: the drain ends, with a refresh of the
\* stores it holds, while the handlers of its other rows run on. Those of a drain
\* that is over already end nothing but themselves.
StoreFails(r, d) ==
    /\ \/ fiber[r][d].at = "picked"
       \/ fiber[r][d].at = "answered" /\ fiber[r][d].answer # "ok"
    /\ storeFailures < MaxStoreFailures
    /\ storeFailures' = storeFailures + 1
    /\ fiber' = [fiber EXCEPT ![r][d] = NoFiber]
    /\ IF fiber[r][d].answer = "auth"
       THEN session' = Nobody /\ recovering' = FALSE ELSE UNCHANGED <<session, recovering>>
    /\ IF d = broken
       THEN /\ broken' = broken + 1
            /\ draining' = FALSE /\ drainer' = Nobody
            /\ view' = Shows(rows, drainer)
       ELSE /\ UNCHANGED <<broken, draining, drainer>>
            /\ view' = IF fiber[r][d].answer = "auth" THEN [q \in Rows |-> "hidden"] ELSE view
    /\ UNCHANGED <<rows, landed, kills, signOuts, retries, history>>

\* The photos are through: the drain ends with a refresh of the stores it holds.
EndDrain ==
    /\ draining
    /\ \A r \in Rows : fiber[r][broken].at = "none"
    /\ draining' = FALSE /\ drainer' = Nobody
    /\ view' = Shows(rows, drainer)
    /\ UNCHANGED <<rows, session, recovering, broken, fiber, landed, bounds, history>>

---------------------------------------------------------------------------
(* The clock, and the operating system. *)

BackoffElapses(r) ==
    /\ Stored(r) /\ rows[r].state = "pending" /\ ~rows[r].due
    /\ rows' = [rows EXCEPT ![r].due = TRUE]
    /\ UNCHANGED <<session, recovering, draining, drainer, broken, fiber, view, landed, bounds, history>>

\* Its age counts when it is picked.
GrowOld(r) ==
    /\ Stored(r) /\ rows[r].state = "pending" /\ ClientVisible(rows[r].kind) /\ ~rows[r].old
    /\ rows' = [rows EXCEPT ![r].old = TRUE]
    /\ UNCHANGED <<session, recovering, draining, drainer, broken, fiber, view, landed, bounds, history>>

\* The app is killed and opened again: openQueueDatabase recovers every
\* technician's rows, and the stored session is restored. A request on the wire
\* has reached the server by then or never will.
Kill ==
    /\ kills < MaxKills
    /\ kills' = kills + 1
    /\ \E hit \in SUBSET {r \in Rows : \E d \in Drains : fiber[r][d].at = "wire" /\ fiber[r][d].token} :
         landed' = landed \cup hit
    /\ orphaned' = [r \in Rows |-> orphaned[r] \/
            (Queued(r) /\ rows[r].state = "sending" /\ ~Idempotent(rows[r].kind))]
    /\ rows' = [r \in Rows |-> IF Queued(r) THEN Recovered(rows[r]) ELSE NoRow]
    /\ fiber' = [r \in Rows |-> [d \in Drains |-> NoFiber]]
    /\ draining' = FALSE /\ drainer' = Nobody
    /\ view' = [r \in Rows |-> "hidden"]
    /\ recovering' = (session # Nobody)
    /\ UNCHANGED <<session, broken, signOuts, retries, storeFailures, discarded>>

Taps == \/ \E u \in Technicians : SignIn(u)
        \/ SignOut
        \/ \E r \in Rows : EnqueueAction(r) \/ Retry(r) \/ Discard(r)

Handling(r, d) == Mark(r, d) \/ Renew(r, d) \/ Serve(r, d) \/ Settle(r, d)

Work == \/ Recover \/ RecoverFails \/ Drain \/ EndDrain
        \/ \E r \in Rows, d \in Drains : Handling(r, d) \/ DoneFails(r, d) \/ StoreFails(r, d)

Clock == Kill \/ \E r \in Rows : BackoffElapses(r) \/ GrowOld(r)

OutboxNext == Taps \/ Work \/ Clock

OutboxSpec == OutboxInit /\ [][OutboxNext]_vars

\* The app is open and somebody signs in again: every wake-up and every await
\* goes on, and while requests are made for ever, some are answered ok.
OutboxFairness ==
    /\ WF_vars(\E u \in Technicians : SignIn(u))
    /\ WF_vars(Recover) /\ WF_vars(Drain) /\ WF_vars(EndDrain)
    /\ \A r \in Rows :
         /\ WF_vars(BackoffElapses(r))
         /\ \A d \in Drains : WF_vars(Handling(r, d))
    /\ SF_vars(\E r \in Rows, d \in Drains : Serve(r, d) /\ fiber'[r][d].answer = "ok")

FairOutbox == OutboxSpec /\ OutboxFairness

---------------------------------------------------------------------------
(* Properties. *)

Fibers == [at : {"none", "picked", "wire", "answered"}, token : BOOLEAN, answer : Answers \cup {"none"},
           attempts : 0 .. MaxAttempts]

\* Every variable has its type.
OutboxTypeOK ==
    /\ rows \in [Rows -> Actions \cup {NoRow}]
    /\ session \in Technicians \cup {Nobody}
    /\ recovering \in BOOLEAN /\ draining \in BOOLEAN
    /\ drainer \in Technicians \cup {Nobody}
    /\ draining <=> drainer # Nobody
    /\ broken \in Drains
    /\ fiber \in [Rows -> [Drains -> Fibers]]
    /\ view \in [Rows -> (States \ {"removed"}) \cup {"hidden"}]
    /\ landed \subseteq Rows

\* Nothing disappears quietly: a row that is gone, or shown as sent, took
\* effect on the server, unless the technician threw it away.
NothingDisappears ==
    \A r \in Rows :
        Queued(r) /\ rows[r].state \in {"done", "removed"} => r \in landed \/ discarded[r]

\* An action without server-side idempotency that was being sent when the app
\* died is never sent again by itself, whatever wakes the worker: it waits for
\* the technician to say so.
NeverReplayedAutomatically ==
    \A r \in Rows : orphaned[r] => Idle(r) /\ rows[r].state # "pending"

\* As long as no failed write has cut a drain short, no row is left in `sending`
\* with nobody to move it out: between drains, the rows of the technician who is
\* signed in are all ready to be tried, waiting out a backoff, or parked. After a
\* write that failed it does not hold: the row whose outcome could not be written
\* stays in `sending`, and no wake-up picks it.
NextWakeUpTriesAgain ==
    broken = 0 /\ session # Nobody /\ ~draining /\ ~recovering =>
        \A r \in RowsOf(session) : rows[r].state # "sending"

\* One row of a job in flight: a drain has never two of one job in hand, whatever
\* is queued, retried or recovered while a request is out; nor have two drains, as
\* long as no failed write has cut one short. After that the next drain may pick a
\* row of a job, or the very row, that the other is still handling.
OneInFlightPerJob ==
    \A q, r \in Rows, c, d \in Drains :
        /\ q # r /\ (c = d \/ broken = 0)
        /\ fiber[q][c].at # "none" /\ fiber[r][d].at # "none"
        => rows[q].job # rows[r].job

\* A parked action waits for its own technician: whoever else holds the phone,
\* and whatever their screen still shows, it is neither sent nor thrown away.
ParkedWaitsForItsOwner ==
    [][\A r \in Rows :
         /\ Queued(r) /\ rows[r].state \in {"failed", "unknown"} /\ Idle(r)
         /\ rows'[r].state # rows[r].state
         => session = rows[r].user]_vars

\* "Order matters within a job and the server has no notion of our ordering,
\* so the queue enforces it", as far as it does: as long as the technician taps
\* no Retry and no failed write has cut a drain short, an action of a job takes
\* effect before an older one only if that is parked or has failed an attempt;
\* kills, sign-outs and actions queued during a drain make no other exception.
OvertakesOnlyTheTried ==
    [][\A q, r \in Rows :
         /\ q < r /\ r \notin landed /\ r \in landed'
         /\ Stored(q) /\ Stored(r) /\ rows[q].job = rows[r].job /\ rows[q].user = rows[r].user
         /\ q \notin landed /\ rows[q].state = "pending" /\ retries = 0 /\ broken = 0
         => rows[q].attempts > 0]_vars

\* Every action that is queued comes to an end: sent, or parked where the
\* technician sees it.
EveryActionSettles ==
    \A r \in Rows :
        Queued(r) ~> Queued(r) /\ rows[r].state \in {"done", "failed", "unknown", "removed"}
=============================================================================
