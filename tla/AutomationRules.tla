--------------------------- MODULE AutomationRules ---------------------------
(***************************************************************************)
(* The rule engine of messaging-service (automations/engine): an event of  *)
(* a job, taken off a queue (deal-events.handler.ts), fires rules at once  *)
(* or arms timers, and every minute each instance sweeps the minutes that  *)
(* have passed and fires what was armed for them (rule-engine.service.ts). *)
(*                                                                         *)
(* Two kinds of row in one table, each written by a request of its own:    *)
(* ONCE#, "this occurrence is taken", written before anything is done, and *)
(* SCHEDULE#, one firing waiting for its minute, deleted before it is run. *)
(*                                                                         *)
(* One job. Time is counted in minutes. A rule listens to the job reaching *)
(* the status Trigger, or is a reminder that counts from the job's date.   *)
(* Rules stay switched on; quiet hours hold a firing (mode "hold") and     *)
(* stand for a rule's own working hours too. What an action sends, the     *)
(* firing log, the rules on calls and messages, the reschedule event made  *)
(* from snapshots, and the 90 days after which a ONCE# row expires are not *)
(* in this module.                                                         *)
(***************************************************************************)
EXTENDS Naturals, FiniteSets

CONSTANTS
    Notices,        \* rules that run when the job reaches Trigger
    FollowUps,      \* the same, Delay minutes later
    Reminders,      \* rules that run Before minutes before the job's date
    Unconditional,  \* the rules that have no condition on the job's status
    Wanted,         \* the statuses that satisfy the condition of the others
    Statuses, Trigger,
    Dates,          \* the minutes the job may be scheduled for
    Created, Booked, \* the statuses and dates a job may be created with
    QuietFrom, QuietTo, \* the minute in which quiet hours begin, and the first after them
    Delay, Before,
    Lookback,       \* SCHEDULER_LOOKBACK_MINUTES
    Grace,          \* RELATIVE_ARM_GRACE_MINUTES
    Instances,
    Consumers,      \* the instances that take events off the queue (consumerEnabled)
    Schedulers,     \* the instances that sweep (schedulerEnabled)
    None,           \* no minute, no date, no status
    MaxReceives,    \* maxReceiveCount of the queue
    MaxEvents,      \* bound: the creation of the job and its changes
    MaxFaults,      \* bound: crashes, failed requests, lost answers, older reads
    End             \* bound: the last minute

Listeners == Notices \cup FollowUps
Rules == Listeners \cup Reminders
Minutes == 0 .. End
Events == 1 .. MaxEvents

ASSUME RulesAssumption ==
    /\ IsFiniteSet(Rules)
    /\ Notices \cap FollowUps = {} /\ Listeners \cap Reminders = {}
    /\ Unconditional \subseteq Rules
    /\ Created \subseteq Statuses /\ Trigger \in Statuses
    /\ Consumers \cup Schedulers \subseteq Instances
    /\ None \notin Nat \cup Statuses
ASSUME TimesAssumption ==
    /\ Delay \in Nat \ {0} /\ Before \in Nat /\ Lookback \in Nat /\ Grace \in Nat
    /\ Dates \subseteq Minutes /\ Booked \subseteq Dates \cup {None}
    /\ \A date \in Dates : date >= Before
    /\ QuietFrom \in Nat /\ QuietTo \in Nat
    /\ MaxReceives \in Nat \ {0} /\ MaxEvents \in Nat \ {0} /\ MaxFaults \in Nat /\ End \in Nat

VARIABLES
    clock,
    job,        \* status, date, and the event that last moved its status
    older,      \* the job before its last change: what a lagging read shows
    message,    \* the event of each change of the job, on the queue; 1 is its creation
    once,       \* ONCE# rows: the occurrences that are taken
    board,      \* SCHEDULE# rows
    handler,    \* what the consumer of each instance is doing
    sweep,      \* what the scheduler of each instance is doing
    swept,      \* lastMinuteMs of each instance
    faults,
    over,       \* history: occurrences that ran, were skipped or failed, or were lost
    again,      \* history: occurrences that ran when they were over
    refused,    \* history: occurrences that were not taken, or given back
    doubted,    \* history: occurrences given back although their timer was armed
    overlooked, \* history: timers armed for a minute that had passed, or passed over
    jumped      \* history: the minutes each instance's lookback left out

deal == <<job, older>>
table == <<once, board>>
scheduler == <<sweep, swept>>
ends == <<over, again>>
losses == <<refused, doubted, overlooked, jumped>>
vars == <<clock, deal, message, table, handler, scheduler, faults, ends, losses>>

---------------------------------------------------------------------------
(* Rules, occurrences and minutes. *)

Unread == [status |-> None, date |-> None, stamp |-> None]

\* matchesConditions: what is not known satisfies no condition.
Holds(r, status) == r \in Unconditional \/ status \in Wanted

\* A firing: the rule, what it fires for, and the minute it waits for.
Key(f) == <<f.rule, f.occurrence>>
Keys(F) == {Key(f) : f \in F}

\* A mutant: a reminder is armed once for a job, whatever its date.
OncePerJob(date) == <<"date", None>>

\* occurrenceOf a reminder.
OfDate(date) == <<"date", date>>

\* isWithinQuietHours; they end in the minute QuietTo.
Quiet(now) == QuietFrom <= now /\ now < QuietTo

\* placement of a listener's firing: None is at once.
DueOf(r, now) ==
    IF r \in FollowUps THEN now + Delay
    ELSE IF Quiet(now) THEN QuietTo ELSE None

\* The moment in occurrenceOf a status move: the stamp the job shows, or else the
\* moment of the delivery.
Stamp(e, seen, receipt) ==
    IF seen = Unread THEN MaxEvents + (e - 1) * MaxReceives + receipt ELSE seen.stamp

OfCreation == <<"created", 1>>

\* matchesTrigger: a move to Trigger, or a creation that finds the job in it.
Triggers(e, seen) ==
    \/ message[e].to = Trigger
    \/ e = 1 /\ seen.status = Trigger

\* What event e, delivered now, fires with the job as it was read.
Fired(e, seen, receipt) ==
    {[rule |-> r, due |-> DueOf(r, clock),
      occurrence |-> IF e = 1 THEN OfCreation ELSE <<message[e].from, Stamp(e, seen, receipt)>>] :
        r \in {r \in Listeners : Triggers(e, seen) /\ Holds(r, seen.status)}}

\* armRelative: the reminders of the date the job has, unless their minute is
\* further back than Grace, in whole minutes.
Reminded(seen) ==
    {[rule |-> r, occurrence |-> OfDate(seen.date), due |-> seen.date - Before] :
        r \in {r \in Reminders : /\ seen.date # None /\ Holds(r, seen.status)
                                 /\ seen.date - Before + Grace >= clock}}

\* The reminders of the date the job has now.
Current == {<<r, OfDate(job.date)>> : r \in Reminders}

---------------------------------------------------------------------------

Resting == [at |-> "idle", event |-> 0, receipt |-> 0, todo |-> {}, hand |-> {}]
Waiting == [at |-> "idle", now |-> 0, cursor |-> 0, todo |-> {}, hand |-> {}]

InHand == UNION {handler[i].hand \cup sweep[i].hand : i \in Instances}

Init ==
    /\ clock = 0
    /\ \E status \in Created, date \in Booked :
         job = [status |-> status, date |-> date, stamp |-> 1]
    /\ older = job
    /\ message = [e \in Events |-> [from |-> None, to |-> None, receives |-> 0,
                                   state |-> IF e = 1 THEN "visible" ELSE "none"]]
    /\ once = {} /\ board = {}
    /\ handler = [i \in Instances |-> Resting]
    /\ sweep = [i \in Instances |-> Waiting]
    /\ swept = [i \in Instances |-> None]
    /\ faults = 0
    /\ over = {} /\ again = {}
    /\ refused = {} /\ doubted = {} /\ overlooked = {}
    /\ jumped = [i \in Instances |-> {}]

Fault == faults < MaxFaults /\ faults' = faults + 1

---------------------------------------------------------------------------
(* The clock, the job in deal-service, and the queue. *)

Tick ==
    /\ clock < End
    /\ clock' = clock + 1
    /\ UNCHANGED <<deal, message, table, handler, scheduler, faults, ends, losses>>

\* The event of a change of the job: the first that is not published yet.
Publish(e, to) ==
    /\ message[e].state = "none" /\ \A d \in 1 .. e - 1 : message[d].state # "none"
    /\ older' = job
    /\ message' = [message EXCEPT ![e].from = job.status, ![e].to = to, ![e].state = "visible"]
    /\ UNCHANGED <<clock, table, handler, scheduler, faults, ends, losses>>

\* changeStatus stamps the job.
ChangeStatus ==
    \E e \in Events, to \in Statuses \ {job.status} :
        job' = [job EXCEPT !.status = to, !.stamp = e] /\ Publish(e, to)

Reschedule ==
    \E e \in Events, date \in (Dates \cup {None}) \ {job.date} :
        job' = [job EXCEPT !.date = date] /\ Publish(e, None)

\* The visibility of a delivery ends, whoever still works on it.
Expire(e) ==
    /\ message[e].state = "inflight"
    /\ LET dead == message[e].receives = MaxReceives IN
       /\ message' = [message EXCEPT ![e].state = IF dead THEN "dead" ELSE "visible"]
       /\ refused' = IF dead THEN refused \cup Current ELSE refused
    /\ UNCHANGED <<clock, deal, table, handler, scheduler, faults, ends,
                   doubted, overlooked, jumped>>

---------------------------------------------------------------------------
(* AutomationDealEventsHandler.dispatch and AutomationRuleEngine.handle. *)

Takes(i, e) ==
    /\ i \in Consumers /\ handler[i].at = "idle"
    /\ message[e].state = "visible"
    /\ message' = [message EXCEPT ![e].state = "inflight", ![e].receives = @ + 1]
    /\ UNCHANGED <<clock, deal, table, scheduler, ends, doubted, overlooked, jumped>>

\* The job is read once for all rules.
Take(i, e, seen) ==
    /\ Takes(i, e)
    /\ LET receipt == message[e].receives + 1 IN
       handler' = [handler EXCEPT ![i] =
                     [at |-> "claim", event |-> e, receipt |-> receipt, hand |-> {},
                      todo |-> Fired(e, seen, receipt) \cup Reminded(seen)]]

Receive(i) ==
    /\ \E e \in Events : Take(i, e, job)
    /\ UNCHANGED <<faults, refused>>

\* deal-service is not reachable, or shows the job before its last change.
ReceiveMisread(i) ==
    /\ Fault
    /\ \E e \in Events, seen \in {older, Unread} : Take(i, e, seen)
    /\ refused' = refused \cup Current

\* The rules or the settings cannot be read: the delivery is left to expire.
ReceiveFails(i) ==
    /\ Fault
    /\ \E e \in Events : Takes(i, e)
    /\ UNCHANGED <<handler, refused>>

\* The rules on events come before the reminders.
NextUp(i) ==
    {f \in handler[i].todo : f.rule \in Reminders => \A g \in handler[i].todo : g.rule \in Reminders}

Handles(i, step) == handler[i].at = step

\* Done with the firing in hand, or with f.
Resume(i) == handler' = [handler EXCEPT ![i].at = "claim", ![i].hand = {}]
Drops(i, f) == handler' = [handler EXCEPT ![i].todo = @ \ {f}]

\* A mutant: an occurrence is looked up and never refused.
NeverTaken(k) == FALSE

Taken(k) == k \in once

Claim(i) ==
    /\ Handles(i, "claim")
    /\ \E f \in NextUp(i) :
         IF Taken(Key(f))
         THEN Drops(i, f) /\ UNCHANGED <<once, refused>>
         ELSE /\ once' = once \cup {Key(f)}
              /\ refused' = refused \ {Key(f)}
              /\ handler' = [handler EXCEPT ![i].at = IF f.due = None THEN "run" ELSE "arm",
                                            ![i].todo = @ \ {f}, ![i].hand = {f}]
    /\ UNCHANGED <<clock, deal, message, board, scheduler, faults, ends,
                   doubted, overlooked, jumped>>

\* The claim throws, whether or not it was written: the rule is given up.
ClaimFails(i) ==
    /\ Handles(i, "claim")
    /\ Fault
    /\ \E f \in NextUp(i) :
         /\ ~Taken(Key(f))
         /\ Drops(i, f)
         /\ \/ refused' = refused \cup {Key(f)} /\ UNCHANGED <<once, over>>
            \/ /\ once' = once \cup {Key(f)} /\ over' = over \cup {Key(f)}
               /\ UNCHANGED refused
    /\ UNCHANGED <<clock, deal, message, board, scheduler, again,
                   doubted, overlooked, jumped>>

\* A row of the schedule: one that is there already is left as it is.
Arms(F) ==
    /\ board' = board \cup F
    /\ overlooked' = overlooked \cup {f \in F \ board : f.due < clock}

Arm(i) ==
    /\ Handles(i, "arm")
    /\ Arms(handler[i].hand)
    /\ Resume(i)
    /\ UNCHANGED <<clock, deal, message, once, scheduler, faults, ends,
                   refused, doubted, jumped>>

\* A mutant: the claim is kept when the timer could not be armed.
KeepsClaim == "claim"

\* The claim is given back.
AfterArmFails == "release"

\* The write throws, whether or not it was made.
ArmFails(i) ==
    /\ Handles(i, "arm")
    /\ Fault
    /\ handler' = [handler EXCEPT ![i].at = AfterArmFails,
                                  ![i].hand = IF AfterArmFails = "claim" THEN {} ELSE @]
    /\ \/ UNCHANGED <<board, overlooked, doubted>>
       \/ Arms(handler[i].hand) /\ doubted' = doubted \cup Keys(handler[i].hand)
    /\ UNCHANGED <<clock, deal, message, once, scheduler, ends, refused, jumped>>

Release(i) ==
    /\ Handles(i, "release")
    /\ once' = once \ Keys(handler[i].hand)
    /\ refused' = refused \cup Keys(handler[i].hand)
    /\ Resume(i)
    /\ UNCHANGED <<clock, deal, message, board, scheduler, faults, ends,
                   doubted, overlooked, jumped>>

\* The failure that stopped the timer may stop the release as well.
ReleaseFails(i) ==
    /\ Handles(i, "release")
    /\ over' = over \cup Keys(handler[i].hand)
    /\ Resume(i)
    /\ UNCHANGED <<clock, deal, message, table, scheduler, faults, again, losses>>

Runs(F) ==
    /\ again' = again \cup (Keys(F) \cap over)
    /\ over' = over \cup Keys(F)

Run(i) ==
    /\ Handles(i, "run")
    /\ Runs(handler[i].hand)
    /\ Resume(i)
    /\ UNCHANGED <<clock, deal, message, table, scheduler, faults, losses>>

\* The actions throw: the claim is kept.
RunFails(i) ==
    /\ Handles(i, "run")
    /\ Fault
    /\ over' = over \cup Keys(handler[i].hand)
    /\ Resume(i)
    /\ UNCHANGED <<clock, deal, message, table, scheduler, again, losses>>

\* The handler returned, whatever its rules did: its delivery is deleted, if it
\* is still the last one.
Delete(i) ==
    /\ Handles(i, "claim") /\ handler[i].todo = {}
    /\ LET m == message[handler[i].event] IN
       message' = IF m.state = "inflight" /\ m.receives = handler[i].receipt
                  THEN [message EXCEPT ![handler[i].event].state = "deleted"] ELSE message
    /\ handler' = [handler EXCEPT ![i] = Resting]
    /\ UNCHANGED <<clock, deal, table, scheduler, faults, ends, losses>>

---------------------------------------------------------------------------
(* AutomationRuleEngine.sweep and fire. *)

Back(now, minutes) == IF now > minutes THEN now - minutes ELSE 0

\* Where a sweep starts: where the last one ended, but not before Lookback.
Start(i) ==
    LET earliest == Back(clock, Lookback) IN
    IF swept[i] = None \/ swept[i] < earliest THEN earliest ELSE swept[i]

StartSweep(i) ==
    /\ i \in Schedulers /\ sweep[i].at = "idle" /\ swept[i] # clock
    /\ jumped' = [jumped EXCEPT ![i] =
                    @ \cup {m \in Minutes : m < Start(i) /\ (swept[i] # None => m >= swept[i])}]
    /\ IF Start(i) < clock
       THEN /\ sweep' = [sweep EXCEPT ![i].at = "read", ![i].now = clock, ![i].cursor = Start(i)]
            /\ UNCHANGED swept
       ELSE swept' = [swept EXCEPT ![i] = clock] /\ UNCHANGED sweep
    /\ UNCHANGED <<clock, deal, message, table, handler, faults, ends,
                   refused, doubted, overlooked>>

Sweeps(i, step) == sweep[i].at = step

\* On with the firings of the minute, with the next minute, or the end.
Proceed(i, todo) ==
    LET s == sweep[i] IN
    IF todo # {}
    THEN sweep' = [sweep EXCEPT ![i].at = "take", ![i].todo = todo, ![i].hand = {}] /\ UNCHANGED swept
    ELSE IF s.cursor + 1 < s.now
    THEN /\ sweep' = [sweep EXCEPT ![i].at = "read", ![i].cursor = @ + 1, ![i].todo = {}, ![i].hand = {}]
         /\ UNCHANGED swept
    ELSE sweep' = [sweep EXCEPT ![i] = Waiting] /\ swept' = [swept EXCEPT ![i] = s.now]

\* dueIn.
Read(i) ==
    /\ Sweeps(i, "read")
    /\ Proceed(i, {f \in board : f.due = sweep[i].cursor})
    /\ UNCHANGED <<clock, deal, message, table, handler, faults, ends, losses>>

\* A mutant: a minute that could not be read counts as swept.
AfterUnreadable(i) == sweep[i].now

\* The next sweep starts at the minute that could not be read.
ResumeAt(i) == sweep[i].cursor

ReadFails(i) ==
    /\ Sweeps(i, "read")
    /\ Fault
    /\ sweep' = [sweep EXCEPT ![i] = Waiting]
    /\ swept' = [swept EXCEPT ![i] = ResumeAt(i)]
    /\ UNCHANGED <<clock, deal, message, table, handler, ends, losses>>

\* A mutant: the row is deleted without a condition.
Unguarded(f) == TRUE

\* The row is still there for the conditional delete.
Present(f) == f \in board

\* AutomationScheduleRepository.claim.
TakeOff(i) ==
    /\ Sweeps(i, "take")
    /\ \E f \in sweep[i].todo :
         IF Present(f)
         THEN /\ board' = board \ {f}
              /\ sweep' = [sweep EXCEPT ![i].at = "look", ![i].todo = @ \ {f}, ![i].hand = {f}]
              /\ UNCHANGED swept
         ELSE Proceed(i, sweep[i].todo \ {f}) /\ UNCHANGED board
    /\ UNCHANGED <<clock, deal, message, once, handler, faults, ends, losses>>

\* The delete throws, whether or not it was made: the sweep goes on without it.
TakeOffFails(i) ==
    /\ Sweeps(i, "take")
    /\ Fault
    /\ \E f \in sweep[i].todo \cap board :
         /\ Proceed(i, sweep[i].todo \ {f})
         /\ \/ overlooked' = overlooked \cup {f} /\ UNCHANGED <<board, over>>
            \/ board' = board \ {f} /\ over' = over \cup {Key(f)} /\ UNCHANGED overlooked
    /\ UNCHANGED <<clock, deal, message, once, handler, again, refused, doubted, jumped>>

InTurn(i) == CHOOSE f \in sweep[i].hand : TRUE

\* A reminder whose job has another date now.
Stale(f, seen) == f.rule \in Reminders /\ seen # Unread /\ f.occurrence # OfDate(seen.date)

\* What becomes of the firing in hand, with the job as it is read now; the
\* minute is the one the sweep began in.
Judge(i, seen) ==
    LET f == InTurn(i)
        next(step) == sweep' = [sweep EXCEPT ![i].at = step] /\ UNCHANGED <<swept, over>>
    IN
    /\ Sweeps(i, "look")
    /\ IF ~Holds(f.rule, seen.status)
       THEN Proceed(i, sweep[i].todo) /\ over' = over \cup {Key(f)}
       ELSE IF Stale(f, seen) THEN next("release")
       ELSE IF Quiet(sweep[i].now) THEN next("rearm")
       ELSE next("run")
    /\ UNCHANGED <<clock, deal, message, table, handler, again, losses>>

Look(i) == Judge(i, job) /\ UNCHANGED faults

LookMisread(i) == Fault /\ \E seen \in {older, Unread} : Judge(i, seen)

\* The occurrence goes back, for a job that is moved here again.
ReleaseStale(i) ==
    /\ Sweeps(i, "release")
    /\ once' = once \ {Key(InTurn(i))}
    /\ Proceed(i, sweep[i].todo)
    /\ UNCHANGED <<clock, deal, message, board, handler, faults, ends, losses>>

ReleaseStaleFails(i) ==
    /\ Sweeps(i, "release")
    /\ Fault
    /\ over' = over \cup {Key(InTurn(i))}
    /\ Proceed(i, sweep[i].todo)
    /\ UNCHANGED <<clock, deal, message, table, handler, again, losses>>

\* Quiet hours hold a timer again.
Held(i) == {[InTurn(i) EXCEPT !.due = QuietTo]}

Rearm(i) ==
    /\ Sweeps(i, "rearm")
    /\ Arms(Held(i))
    /\ Proceed(i, sweep[i].todo)
    /\ UNCHANGED <<clock, deal, message, once, handler, faults, ends,
                   refused, doubted, jumped>>

\* The write throws, whether or not it was made.
RearmFails(i) ==
    /\ Sweeps(i, "rearm")
    /\ Fault
    /\ \/ over' = over \cup {Key(InTurn(i))} /\ UNCHANGED <<board, overlooked>>
       \/ Arms(Held(i)) /\ UNCHANGED over
    /\ Proceed(i, sweep[i].todo)
    /\ UNCHANGED <<clock, deal, message, once, handler, again, refused, doubted, jumped>>

RunTimer(i) ==
    /\ Sweeps(i, "run")
    /\ Runs(sweep[i].hand)
    /\ Proceed(i, sweep[i].todo)
    /\ UNCHANGED <<clock, deal, message, table, handler, faults, losses>>

\* The rule cannot be read, or the actions throw and the firing is logged as
\* failed: the sweep goes on without it.
FireFails(i) ==
    /\ Sweeps(i, "look") \/ Sweeps(i, "run")
    /\ Fault
    /\ over' = over \cup {Key(InTurn(i))}
    /\ Proceed(i, sweep[i].todo)
    /\ UNCHANGED <<clock, deal, message, table, handler, again, losses>>

---------------------------------------------------------------------------
(* Instances. *)

\* An instance stops with whatever it has in hand, and is started again.
Crash(i) ==
    /\ Fault
    /\ handler' = [handler EXCEPT ![i] = Resting]
    /\ sweep' = [sweep EXCEPT ![i] = Waiting]
    /\ swept' = [swept EXCEPT ![i] = None]
    /\ over' = over \cup Keys(handler[i].hand \cup sweep[i].hand)
    /\ UNCHANGED <<clock, deal, message, table, again, losses>>

HandlerStep(i) ==
    \/ Receive(i) \/ ReceiveMisread(i) \/ ReceiveFails(i) \/ Claim(i) \/ ClaimFails(i)
    \/ Arm(i) \/ ArmFails(i) \/ Release(i) \/ ReleaseFails(i) \/ Run(i) \/ RunFails(i) \/ Delete(i)

SweepStep(i) ==
    \/ StartSweep(i) \/ Read(i) \/ TakeOff(i) \/ Look(i) \/ ReleaseStale(i) \/ Rearm(i) \/ RunTimer(i)

SweepFault(i) ==
    \/ ReadFails(i) \/ TakeOffFails(i) \/ LookMisread(i) \/ ReleaseStaleFails(i)
    \/ RearmFails(i) \/ FireFails(i)

Next ==
    \/ Tick \/ ChangeStatus \/ Reschedule
    \/ \E e \in Events : Expire(e)
    \/ \E i \in Instances :
         HandlerStep(i) \/ SweepStep(i) \/ SweepFault(i) \/ Crash(i)

Spec == Init /\ [][Next]_vars

---------------------------------------------------------------------------
(* Properties. *)

Occurrences == {OfCreation} \cup (Statuses \X Nat) \cup ({"date"} \X Dates)

Claims == Rules \X Occurrences
Firings == [rule : Rules, occurrence : Occurrences, due : Nat]
AtOnce == [rule : Notices, occurrence : Occurrences, due : {None}]
Jobs == [status : Statuses, date : Dates \cup {None}, stamp : Events]
Messages ==
    [from : Statuses \cup {None}, to : Statuses \cup {None}, receives : 0 .. MaxReceives,
     state : {"none", "visible", "inflight", "deleted", "dead"}]

Handlers ==
    [at : {"idle", "claim", "arm", "release", "run"}, event : {0} \cup Events,
     receipt : 0 .. MaxReceives, todo : SUBSET (Firings \cup AtOnce), hand : SUBSET (Firings \cup AtOnce)]
Sweepers ==
    [at : {"idle", "read", "take", "look", "release", "rearm", "run"}, now : Minutes,
     cursor : Minutes, todo : SUBSET Firings, hand : SUBSET Firings]

\* The state of the rule engine is of the types its rows and fields have, and a
\* consumer or a sweep has one firing in hand exactly in the steps that act on one.
AutomationTypeOK ==
    /\ clock \in Minutes /\ job \in Jobs /\ older \in Jobs /\ faults \in 0 .. MaxFaults
    /\ message \in [Events -> Messages]
    /\ once \subseteq Claims /\ over \subseteq Claims /\ doubted \subseteq Claims
    /\ board \subseteq Firings
    /\ handler \in [Instances -> Handlers] /\ sweep \in [Instances -> Sweepers]
    /\ swept \in [Instances -> Minutes \cup {None}] /\ jumped \in [Instances -> SUBSET Minutes]
    /\ \A i \in Instances :
         /\ IF handler[i].at \in {"arm", "release", "run"}
            THEN \E f \in handler[i].hand : handler[i].hand = {f}
            ELSE handler[i].hand = {}
         /\ IF sweep[i].at \in {"look", "release", "rearm", "run"}
            THEN \E f \in sweep[i].hand : sweep[i].hand = {f}
            ELSE sweep[i].hand = {}

\* A rule runs at most once for an occurrence, however often its event is
\* delivered, however many instances sweep its minute and wherever they stop; it
\* may run twice only if a timer was armed although the write that armed it
\* failed, for the claim is then given back (armLater).
AtMostOnce == again \subseteq doubted

\* An occurrence that is taken waits on the board or is in the hands of an
\* instance until it ran, was logged as skipped or failed, or was lost by a crash
\* or a failed request, so an arm that fails gives its claim back (armLater); and
\* what waits on the board is taken, unless its claim was given back although the
\* row had been written.
ClaimsAndTimersAgree ==
    /\ once \subseteq over \cup Keys(board) \cup Keys(InHand)
    /\ Keys(board) \subseteq once \cup doubted

\* Once every change of the job has been handled, the reminders of the date it
\* has now are on the board for their minute, whatever dates it had before and
\* in whatever order its events were handled, unless the job was misread, its
\* event dead-lettered, or the claim or the timer could not be written.
CurrentDateIsArmed ==
    (/\ \A e \in Events : message[e].state \in {"none", "deleted", "dead"}
     /\ \A i \in Instances : handler[i].at = "idle"
     /\ job.date # None /\ job.date - Before >= clock)
    => \A r \in Reminders :
         \/ ~Holds(r, job.status)
         \/ <<r, OfDate(job.date)>> \in over \cup refused
         \/ [rule |-> r, occurrence |-> OfDate(job.date), due |-> job.date - Before] \in board

\* A sweep leaves no timer behind: none is on the board for a minute that some
\* instance's sweeps have passed, through minutes that could not be read, crashes
\* and restarts, but those that were armed for a minute already past or passed
\* over by a failed delete, and those of a minute further back than Lookback.
NothingLeftBehind ==
    \A f \in board, i \in Schedulers :
        swept[i] # None /\ f.due < swept[i] => f \in overlooked \/ f.due \in jumped[i]

\* What a delivery, and a sweep, still has to do: the firings it is about, and with
\* the one in hand; for a sweep, in the minutes it still has to go through.
HandlerSteps == [idle |-> 0, claim |-> 1, run |-> 2, release |-> 2, arm |-> 3]
SweepSteps == [idle |-> 0, read |-> 0, take |-> 0, run |-> 1, release |-> 1, rearm |-> 1, look |-> 2]

ToHandle(h) == 4 * Cardinality(h.todo) + HandlerSteps[h.at]
ToSweep(s) == 2 * (s.now - s.cursor) + (IF s.at = "read" THEN 1 ELSE 0)
ToFire(s) == 3 * Cardinality(s.todo) + SweepSteps[s.at]

\* A delivery and a sweep get done with what they found, whatever fails and whatever
\* is armed meanwhile: a firing whose write fails is left and not tried again, and a
\* timer that is armed for a minute being swept does not prolong the sweep.
RoundsEnd ==
    [][\A i \in Instances :
         /\ handler[i].at # "idle" =>
              handler'[i] = handler[i] \/ ToHandle(handler'[i]) \in 0 .. ToHandle(handler[i]) - 1
         /\ sweep[i].at # "idle" =>
              \/ sweep'[i] = sweep[i] \/ sweep'[i] = Waiting
              \/ ToSweep(sweep'[i]) \in 0 .. ToSweep(sweep[i]) - 1
              \/ /\ ToSweep(sweep'[i]) = ToSweep(sweep[i])
                 /\ ToFire(sweep'[i]) \in 0 .. ToFire(sweep[i]) - 1]_vars
==============================================================================
