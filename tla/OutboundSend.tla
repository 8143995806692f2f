---------------------------- MODULE OutboundSend ----------------------------
(***************************************************************************)
(* Outbound texts of messaging-service: accepted (send.service.ts), sent   *)
(* by workers that take jobs off a queue (outbound.worker.ts), reported on *)
(* by Twilio's callbacks (status-callback.service.ts) and reconciled with  *)
(* Twilio's log every hour (reconcile.service.ts).                         *)
(*                                                                         *)
(* A text is a line of a conversation. Lines, pointers from a provider id  *)
(* to a line, and the claim of a line are items of one DynamoDB table,     *)
(* each written by a request of its own under its own condition. Twilio    *)
(* has no idempotency key: a worker that finds a line claimed by an        *)
(* earlier attempt looks for its words in Twilio's log.                    *)
(*                                                                         *)
(* The queue delivers at least once: a job not deleted before its          *)
(* visibility ends is delivered again, and is dead-lettered after          *)
(* MaxReceives deliveries. All lines here are of one conversation, which   *)
(* is one FIFO group: no job of it is delivered while another is in        *)
(* flight, except in one batch.                                            *)
(*                                                                         *)
(* Twilio's states that end a text without delivery are "undelivered".     *)
(* Opt-outs, events and the realtime feed are not in this module.          *)
(***************************************************************************)
EXTENDS Naturals, FiniteSets

CONSTANTS
    Messages,       \* the lines, numbered in the order they are written
    Texts,          \* the words a line may have
    Workers,        \* instances that poll the queue
    NoLine,         \* a provider id nothing points from
    Inserted,       \* a line that the reconciliation wrote by itself
    Endings,        \* what may become of a text that was sent
    MaxReceives,    \* maxReceiveCount of the queue
    MaxSends,       \* bound: the texts Twilio accepts
    MaxFaults       \* bound: crashes, failed requests and lost answers

ASSUME MessagesAssumption == Messages \subseteq Nat /\ IsFiniteSet(Messages)
ASSUME LinesAssumption == NoLine \notin Messages /\ Inserted \notin Messages \cup {NoLine}
ASSUME EndingsAssumption == Endings \subseteq {"delivered", "undelivered"}
ASSUME LimitsAssumption == MaxReceives \in Nat \ {0} /\ MaxSends \in Nat /\ MaxFaults \in Nat

VARIABLES
    text,       \* the words of each line
    line,       \* status, claim and provider id of each line
    submit,     \* where accepting the line is
    job,        \* the line's job on the queue
    receives,   \* how often the job was delivered
    worker,     \* what each instance is doing
    pointer,    \* PSID# rows: the line of each provider id
    record,     \* Twilio's log: the state of each text it took
    origin,     \* Twilio's log: the line each text was sent for
    recon,      \* what the hourly run is in the middle of
    faults,
    since,      \* sendingStartedAt of a line: the texts Twilio had taken by then
    blind,      \* history: lines sent again without a look at Twilio's log
    together,   \* history: lines looked for while another worker was sending them
    dropped,    \* history: lines left to another worker that claimed them in between
    missed      \* history: texts whose own line was out of the hourly run's reach

store == <<line, pointer>>
queue == <<job, receives>>
twilio == <<record, origin>>
hourly == <<recon, missed>>
history == <<since, blind, together, dropped>>
vars == <<text, store, submit, queue, worker, twilio, hourly, faults, history>>

Sids == 1 .. MaxSends
NoSid == 0

Rank == [none |-> 0, queued |-> 0, sending |-> 1, sent |-> 2,
         delivered |-> 3, undelivered |-> 3, failed |-> 3]
Statuses == DOMAIN Rank
Final == {"delivered", "undelivered", "failed"}

Sent == {s \in Sids : record[s] # "none"}
Newest == Cardinality(Sent)

\* The states a text has been in at Twilio, any of which may still be reported.
Reported(s) ==
    {record[s]} \cup IF record[s] \in {"delivered", "undelivered"} THEN {"sent"} ELSE {}

---------------------------------------------------------------------------
(* The conditional writes of a line. *)

\* A mutant: a report is written whatever the line already shows.
WithoutRank(l, status, sid) ==
    IF sid # NoSid /\ l.sid \notin {NoSid, sid} THEN l
    ELSE [l EXCEPT !.status = status, !.sid = IF sid = NoSid THEN @ ELSE sid]

\* updateStatus: only a higher rank, and only of the text the line carries.
UpdateStatus(l, status, sid) ==
    IF Rank[status] <= Rank[l.status] \/ (sid # NoSid /\ l.sid \notin {NoSid, sid}) THEN l
    ELSE [l EXCEPT !.status = status, !.sid = IF sid = NoSid THEN @ ELSE sid]

\* A mutant: the provider id of a retry replaces the one the line has.
ReplaceSid(l, sid) == [l EXCEPT !.sid = sid]

AttachProviderSid(l, sid) ==
    IF l.sid \in {NoSid, sid} THEN [l EXCEPT !.sid = sid] ELSE l

\* A mutant: the claim is open to a line that was claimed before.
ClaimableAgain(l) == l.status \in {"queued", "sending"} /\ l.sid = NoSid

Claimable(l) == l.status = "queued" /\ l.sid = NoSid /\ ~l.started

PutProviderSidPointer(s, m) ==
    pointer' = IF pointer[s] = NoLine THEN [pointer EXCEPT ![s] = m] ELSE pointer

---------------------------------------------------------------------------

NoWriting == [status |-> "none", started |-> FALSE, sid |-> NoSid]
Resting == [at |-> "idle", batch |-> [m \in {} |-> 0], started |-> FALSE,
            sid |-> NoSid, status |-> "none"]
NoAdoption == [at |-> "idle", sid |-> NoSid, line |-> NoLine]

Init ==
    /\ text \in [Messages -> Texts]
    /\ line = [m \in Messages |-> NoWriting]
    /\ submit = [m \in Messages |-> "new"]
    /\ job = [m \in Messages |-> "none"]
    /\ receives = [m \in Messages |-> 0]
    /\ worker = [w \in Workers |-> Resting]
    /\ pointer = [s \in Sids |-> NoLine]
    /\ record = [s \in Sids |-> "none"]
    /\ origin = [s \in Sids |-> NoLine]
    /\ recon = NoAdoption
    /\ faults = 0
    /\ since = [m \in Messages |-> 0]
    /\ blind = {} /\ together = {} /\ dropped = {} /\ missed = {}

Fault == faults < MaxFaults /\ faults' = faults + 1

---------------------------------------------------------------------------
(* SendService.accept. *)

\* The line is stored `queued`, in the order of its number.
AppendOutbound(m) ==
    /\ submit[m] = "new"
    /\ \A n \in Messages : n < m => submit[n] # "new"
    /\ line' = [line EXCEPT ![m].status = "queued"]
    /\ submit' = [submit EXCEPT ![m] = "stored"]
    /\ UNCHANGED <<text, pointer, queue, worker, twilio, hourly, faults, history>>

Enqueue(m) ==
    /\ submit[m] = "stored"
    /\ submit' = [submit EXCEPT ![m] = "accepted"]
    /\ job' = [job EXCEPT ![m] = "visible"]
    /\ UNCHANGED <<text, store, receives, worker, twilio, hourly, faults, history>>

\* The queue did not answer; it may have taken the job.
EnqueueFails(m) ==
    /\ submit[m] = "stored"
    /\ Fault
    /\ submit' = [submit EXCEPT ![m] = "failing"]
    /\ \E j \in {"none", "visible"} : job' = [job EXCEPT ![m] = j]
    /\ UNCHANGED <<text, store, receives, worker, twilio, hourly, history>>

MarkEnqueueFailed(m) ==
    /\ submit[m] = "failing"
    /\ line' = [line EXCEPT ![m] = UpdateStatus(@, "failed", NoSid)]
    /\ submit' = [submit EXCEPT ![m] = "refused"]
    /\ UNCHANGED <<text, pointer, queue, worker, twilio, hourly, faults, history>>

\* The process dies; the client's retry is a duplicate and only reads.
AcceptDies(m) ==
    /\ submit[m] \in {"stored", "failing"}
    /\ Fault
    /\ submit' = [submit EXCEPT ![m] = "died"]
    /\ UNCHANGED <<text, store, queue, worker, twilio, hourly, history>>

---------------------------------------------------------------------------
(* The queue. *)

Receive(w) ==
    /\ worker[w].at = "idle"
    /\ \A m \in Messages : job[m] # "in flight"
    /\ \E last \in Messages :
         LET batch == {m \in Messages : job[m] = "visible" /\ m <= last} IN
         /\ job[last] = "visible"
         /\ job' = [m \in Messages |-> IF m \in batch THEN "in flight" ELSE job[m]]
         /\ receives' = [m \in Messages |-> IF m \in batch THEN receives[m] + 1 ELSE receives[m]]
         /\ worker' = [worker EXCEPT ![w].at = "get",
                                     ![w].batch = [m \in batch |-> receives[m] + 1]]
    /\ UNCHANGED <<text, store, submit, twilio, hourly, faults, history>>

\* The visibility of a delivery ends, whoever still works on it.
Expire(m) ==
    /\ job[m] = "in flight"
    /\ job' = [job EXCEPT ![m] = IF receives[m] < MaxReceives THEN "visible" ELSE "dead"]
    /\ UNCHANGED <<text, store, submit, receives, worker, twilio, hourly, faults, history>>

---------------------------------------------------------------------------
(* OutboundWorker.process, one request at a time. *)

Handling(w) == worker[w].at # "idle"

\* The line being handled: a batch is handled in order.
Current(w) ==
    CHOOSE m \in DOMAIN worker[w].batch : \A n \in DOMAIN worker[w].batch : m <= n

At(w, step) == worker[w].at = step

Goes(w, step) == worker' = [worker EXCEPT ![w].at = step]

\* The instance with its current line done: the next one of the batch, or idle.
NextOf(w) ==
    LET rest == DOMAIN worker[w].batch \ {Current(w)} IN
    IF rest = {} THEN Resting
    ELSE [Resting EXCEPT !.at = "get", !.batch = [m \in rest |-> worker[w].batch[m]]]

Leave(w) == worker' = [worker EXCEPT ![w] = NextOf(w)]

Get(w) ==
    /\ At(w, "get")
    /\ LET l == line[Current(w)] IN
       worker' = [worker EXCEPT ![w].sid = l.sid, ![w].started = l.started,
                    ![w].at = IF l.sid # NoSid THEN "repoint"
                              ELSE IF l.status \in {"queued", "sending"} THEN "claim"
                              ELSE "delete"]
    /\ UNCHANGED <<text, store, submit, queue, twilio, hourly, faults, history>>

\* A redelivery of a text that Twilio has.
Repoint(w) ==
    /\ At(w, "repoint")
    /\ PutProviderSidPointer(worker[w].sid, Current(w))
    /\ Goes(w, "delete")
    /\ UNCHANGED <<text, line, submit, queue, twilio, hourly, faults, history>>

\* markSending.
Claim(w) ==
    /\ At(w, "claim")
    /\ Claimable(line[Current(w)])
    /\ line' = [line EXCEPT ![Current(w)].status = "sending", ![Current(w)].started = TRUE]
    /\ since' = [since EXCEPT ![Current(w)] = Newest]
    /\ Goes(w, "create")
    /\ UNCHANGED <<text, pointer, submit, queue, twilio, hourly, faults, blind, together, dropped>>

\* A mutant: a line that is claimed is left to whoever claimed it.
LeavesClaimed(w) == "delete"

\* A line that was claimed when it was read is looked for; one that was not is
\* left to the worker that claimed it since.
AfterLostClaim(w) == IF worker[w].started THEN "list" ELSE "delete"

ClaimLost(w) ==
    /\ At(w, "claim")
    /\ ~Claimable(line[Current(w)])
    /\ Goes(w, AfterLostClaim(w))
    /\ dropped' = IF ~worker[w].started THEN dropped \cup {Current(w)} ELSE dropped
    /\ UNCHANGED <<text, store, submit, queue, twilio, hourly, faults, since, blind, together>>

SameText(m) == {s \in Sent : text[origin[s]] = text[m]}

\* What the log may answer: its newest text with the line's words. One sent
\* since the claim is in the window; one from before it may be or not.
Matches(m) ==
    {s \in SameText(m) : \A r \in SameText(m) : r <= s}

\* The worker's own reconcile.
ListFinds(w) ==
    /\ At(w, "list")
    /\ \E s \in Matches(Current(w)) :
         worker' = [worker EXCEPT ![w].at = "point", ![w].sid = s, ![w].status = record[s]]
    /\ UNCHANGED <<text, store, submit, queue, twilio, hourly, faults, history>>

ListFindsNothing(w) ==
    /\ At(w, "list")
    /\ \A s \in Matches(Current(w)) : s <= since[Current(w)]
    /\ Goes(w, "create")
    /\ together' = IF \E v \in Workers \ {w} : Handling(v) /\ Current(v) = Current(w) /\ At(v, "create")
                   THEN together \cup {Current(w)} ELSE together
    /\ UNCHANGED <<text, store, submit, queue, twilio, hourly, faults, since, blind, dropped>>

ListFails(w) ==
    /\ At(w, "list")
    /\ Fault
    /\ Goes(w, "create")
    /\ blind' = blind \cup {Current(w)}
    /\ UNCHANGED <<text, store, submit, queue, twilio, hourly, since, together, dropped>>

TwilioTakes(m) ==
    /\ Newest < MaxSends
    /\ record' = [record EXCEPT ![Newest + 1] = "queued"]
    /\ origin' = [origin EXCEPT ![Newest + 1] = m]

Create(w) ==
    /\ At(w, "create")
    /\ TwilioTakes(Current(w))
    /\ worker' = [worker EXCEPT ![w].at = "point", ![w].sid = Newest + 1, ![w].status = "queued"]
    /\ UNCHANGED <<text, store, submit, queue, hourly, faults, history>>

\* Twilio took the text and its answer was lost: an error to try again.
CreateUnanswered(w) ==
    /\ At(w, "create")
    /\ Fault
    /\ TwilioTakes(Current(w))
    /\ Leave(w)
    /\ UNCHANGED <<text, store, submit, queue, hourly, history>>

\* An error that will not change on a retry.
CreateRefused(w) ==
    /\ At(w, "create")
    /\ Goes(w, "refused")
    /\ UNCHANGED <<text, store, submit, queue, twilio, hourly, faults, history>>

MarkFailed(w) ==
    /\ At(w, "refused")
    /\ line' = [line EXCEPT ![Current(w)] = UpdateStatus(@, "failed", NoSid)]
    /\ Goes(w, "delete")
    /\ UNCHANGED <<text, pointer, submit, queue, twilio, hourly, faults, history>>

Point(w) ==
    /\ At(w, "point")
    /\ PutProviderSidPointer(worker[w].sid, Current(w))
    /\ Goes(w, "attach")
    /\ UNCHANGED <<text, line, submit, queue, twilio, hourly, faults, history>>

Attach(w) ==
    /\ At(w, "attach")
    /\ line' = [line EXCEPT ![Current(w)] = AttachProviderSid(@, worker[w].sid)]
    /\ Goes(w, IF Rank[worker[w].status] > Rank["sending"] THEN "status" ELSE "delete")
    /\ UNCHANGED <<text, pointer, submit, queue, twilio, hourly, faults, history>>

\* applyStatus of a text that the log found further along.
ApplyStatus(w) ==
    /\ At(w, "status")
    /\ line' = [line EXCEPT ![Current(w)] = UpdateStatus(@, worker[w].status, worker[w].sid)]
    /\ Goes(w, "delete")
    /\ UNCHANGED <<text, pointer, submit, queue, twilio, hourly, faults, history>>

\* The handler returned: its delivery is deleted, if it is still the last one.
Delete(w) ==
    /\ At(w, "delete")
    /\ LET m == Current(w) IN
       job' = IF job[m] = "in flight" /\ receives[m] = worker[w].batch[m]
              THEN [job EXCEPT ![m] = "deleted"] ELSE job
    /\ Leave(w)
    /\ UNCHANGED <<text, store, submit, receives, twilio, hourly, faults, history>>

\* A request fails: the handler throws and the job stays on the queue.
Throw(w) ==
    /\ Handling(w)
    /\ Fault
    /\ Leave(w)
    /\ UNCHANGED <<text, store, submit, queue, twilio, hourly, history>>

Crash(w) ==
    /\ Handling(w)
    /\ Fault
    /\ worker' = [worker EXCEPT ![w] = Resting]
    /\ UNCHANGED <<text, store, submit, queue, twilio, hourly, history>>

Process(w) ==
    \/ Get(w) \/ Repoint(w) \/ Claim(w) \/ ClaimLost(w) \/ ListFinds(w) \/ ListFindsNothing(w)
    \/ Create(w) \/ CreateRefused(w) \/ MarkFailed(w)
    \/ Point(w) \/ Attach(w) \/ ApplyStatus(w) \/ Delete(w)

---------------------------------------------------------------------------
(* Twilio, its callbacks, and the reconciliation. *)

Progress(s) ==
    /\ \/ record[s] = "queued" /\ record' = [record EXCEPT ![s] = "sent"]
       \/ /\ record[s] = "sent"
          /\ \E state \in Endings : record' = [record EXCEPT ![s] = state]
    /\ UNCHANGED <<text, store, submit, queue, worker, origin, hourly, faults, history>>

Hears(m, s, status) ==
    /\ line' = [line EXCEPT ![m] = UpdateStatus(@, status, s)]
    /\ UNCHANGED <<text, pointer, submit, queue, worker, twilio, hourly, faults, history>>

\* A callback names the line it was sent for; it may come late, twice, or in
\* another order. The poller of an instance asks for the same.
StatusCallback(s) ==
    \E status \in Reported(s) \ {"none"} : Hears(origin[s], s, status)

\* A text whose pointer is known: what it came to is written as a callback would.
\* What becomes of a line the run inserted is not followed.
SyncKnown(s) ==
    /\ pointer[s] \in Messages
    /\ \E status \in Reported(s) : Rank[status] > Rank["sending"] /\ Hears(pointer[s], s, status)


\* The lines without a provider id that have the text's words.
Unclaimed(s) ==
    {m \in Messages : line[m].status # "none" /\ line[m].sid = NoSid /\ text[m] = text[origin[s]]}

\* The newest is taken.
Adoptable(s) == {m \in Unclaimed(s) : origin[s] \in Unclaimed(s) => m >= origin[s]}

Unpointed(s) == recon.at = "idle" /\ s \in Sent /\ pointer[s] = NoLine

Adopt(s) ==
    /\ Unpointed(s)
    /\ \E m \in Adoptable(s) : recon' = [at |-> "status", sid |-> s, line |-> m]
    /\ UNCHANGED <<text, store, submit, queue, worker, twilio, missed, faults, history>>

AdoptStatus ==
    /\ recon.at = "status"
    /\ \E status \in Reported(recon.sid) :
         line' = [line EXCEPT ![recon.line] = UpdateStatus(@, status, recon.sid)]
    /\ recon' = [recon EXCEPT !.at = "point"]
    /\ UNCHANGED <<text, pointer, submit, queue, worker, twilio, missed, faults, history>>

AdoptPointer ==
    /\ recon.at = "point"
    /\ PutProviderSidPointer(recon.sid, recon.line)
    /\ recon' = NoAdoption
    /\ UNCHANGED <<text, line, submit, queue, worker, twilio, missed, faults, history>>

\* No line is near: the text becomes a line of its own. The run looks at the newest
\* ADOPT_SCAN_LIMIT lines of the conversation, and of those at the ones written within
\* ADOPT_WINDOW_MS of the text: it misses the text's own line when that waited longer
\* than this to be sent, or when the conversation has gone on since.
Insert(s) ==
    /\ Unpointed(s)
    /\ missed' = IF origin[s] \in Unclaimed(s) THEN missed \cup {s} ELSE missed
    /\ PutProviderSidPointer(s, Inserted)
    /\ UNCHANGED <<text, line, submit, queue, worker, twilio, recon, faults, history>>

ReconcileDies ==
    /\ recon.at # "idle"
    /\ Fault
    /\ recon' = NoAdoption
    /\ UNCHANGED <<text, store, submit, queue, worker, twilio, missed, history>>

Reconcile(s) == SyncKnown(s) \/ Adopt(s) \/ Insert(s)

---------------------------------------------------------------------------

Accepting == \E m \in Messages : \/ AppendOutbound(m) \/ Enqueue(m) \/ MarkEnqueueFailed(m)
                                 \/ EnqueueFails(m) \/ AcceptDies(m)

Working == \E w \in Workers : \/ Receive(w) \/ Process(w) \/ ListFails(w) \/ CreateUnanswered(w)
                              \/ Throw(w) \/ Crash(w)

Reporting == \/ \E s \in Sids : Progress(s) \/ StatusCallback(s) \/ Reconcile(s)
             \/ AdoptStatus \/ AdoptPointer \/ ReconcileDies

Next == Accepting \/ Working \/ Reporting \/ \E m \in Messages : Expire(m)

Spec == Init /\ [][Next]_vars

\* The hourly run goes on, Twilio answers it and brings every text it took to
\* an end, and every text stays in the window of a run. Nothing is owed by the
\* workers, the queue or the callbacks.
Fairness ==
    /\ WF_vars(AdoptStatus) /\ WF_vars(AdoptPointer)
    /\ \A s \in Sids : /\ WF_vars(Progress(s))
                       /\ WF_vars(SyncKnown(s) /\ record[s] \in Final)
                       /\ WF_vars(Adopt(s) \/ Insert(s))

FairSpec == Spec /\ Fairness

---------------------------------------------------------------------------
(* Properties. *)

Lines == [status : Statuses, started : BOOLEAN, sid : Sids \cup {NoSid}]
Steps == {"idle", "get", "repoint", "claim", "list", "create", "refused", "point", "attach",
          "status", "delete"}

\* Every variable has its type.
OutboundTypeOK ==
    /\ text \in [Messages -> Texts]
    /\ line \in [Messages -> Lines]
    /\ submit \in [Messages -> {"new", "stored", "failing", "accepted", "refused", "died"}]
    /\ job \in [Messages -> {"none", "visible", "in flight", "deleted", "dead"}]
    /\ receives \in [Messages -> 0 .. MaxReceives]
    /\ \A w \in Workers :
         /\ worker[w].at \in Steps
         /\ DOMAIN worker[w].batch \subseteq Messages
         /\ Handling(w) <=> DOMAIN worker[w].batch # {}
         /\ worker[w].started \in BOOLEAN
         /\ worker[w].sid \in Sids \cup {NoSid}
         /\ worker[w].status \in Statuses
    /\ pointer \in [Sids -> Messages \cup {NoLine, Inserted}]
    /\ record \in [Sids -> {"none", "queued", "sent", "delivered", "undelivered"}]
    /\ origin \in [Sids -> Messages \cup {NoLine}]
    /\ recon \in [at : {"idle", "status", "point"}, sid : Sids \cup {NoSid}, line : Messages \cup {NoLine}]
    /\ faults \in 0 .. MaxFaults
    /\ since \in [Messages -> 0 .. MaxSends]
    /\ blind \subseteq Messages /\ together \subseteq Messages /\ dropped \subseteq Messages
    /\ missed \subseteq Sids

SendsOf(m) == {s \in Sent : origin[s] = m}

\* A client gets a text twice only when the log could not be read, or when the
\* visibility of a delivery ended while its worker was still sending: a crash,
\* a lost answer, a redelivery or the hourly run alone never repeats one.
SentOnceUnlessUnseen ==
    \A m \in Messages : Cardinality(SendsOf(m)) > 1 => m \in blind \cup together

Twins(m) == {n \in Messages \ {m} : text[n] = text[m] /\ submit[n] # "new"}

\* What a line shows of a text is what became of a text of its words: a line is
\* never shown sent or delivered for a text that is not, whatever reports,
\* adoptions and retries cross.
ShownAsReported ==
    \A m \in Messages : line[m].status \in {"sent", "delivered", "undelivered"} =>
        /\ line[m].sid \in Sent
        /\ text[origin[line[m].sid]] = text[m]
        /\ line[m].status \in Reported(line[m].sid)

\* A job leaves the queue only when its text is at Twilio or its line says that
\* it failed. Left out are lines with a twin, whose text may be taken for theirs,
\* and jobs a worker left to another that claimed the line since it was read.
DeletedWhenDone ==
    \A m \in Messages :
        job[m] = "deleted" /\ Twins(m) = {} /\ m \notin dropped
        => SendsOf(m) # {} \/ line[m].status = "failed"

\* What the feed shows of a line only moves forward: no report, claim, adoption
\* or retry takes a final status back or exchanges the text the line stands for.
FeedOnlyAdvances ==
    [][\A m \in Messages :
         /\ Rank[line'[m].status] >= Rank[line[m].status]
         /\ line[m].status \in Final => line'[m].status = line[m].status
         /\ line[m].sid # NoSid => line'[m].sid = line[m].sid]_vars

=============================================================================
