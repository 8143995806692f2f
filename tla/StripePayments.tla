--------------------------- MODULE StripePayments ---------------------------
(***************************************************************************)
(* One card or bank payment taken through Stripe (billing-service): what   *)
(* Stripe did with it, the events Stripe sends about that, the payment row *)
(* and the amount paid on its invoice.                                     *)
(*                                                                         *)
(* An event is claimed, answered with 200 and then handled; events arrive  *)
(* in any order and more than once. A sweep asks Stripe about payments that *)
(* are still pending, a phone asks about its own, and the desk refunds. All *)
(* end by asserting a status on the row under its version, and by deriving *)
(* the invoice from the ledger.                                            *)
(*                                                                         *)
(* The row knows its PaymentIntent from the start: Checkout sessions, whose *)
(* events add it, are left out, and so are charge.succeeded, which only    *)
(* adds the card, the fees and the pointers. So is the record of each      *)
(* refund, which is all that the event of a failed one changes. Reads see  *)
(* the last write.                                                         *)
(***************************************************************************)
EXTENDS Integers, Sequences, FiniteSets

CONSTANTS
    Sweep, Phone, Desk,
    Charged,        \* what the card was charged
    MaxEvents,      \* bound: events Stripe sends
    MaxCalls,       \* bound: questions of the phone and refunds of the desk
    MayDie,         \* whether processes die, besides requests that fail
    MaxFaults       \* bound: processes that die, requests that fail, events sent again

ASSUME TasksAssumption == {Sweep, Phone, Desk} \cap Nat = {} /\ Sweep # Phone /\ Desk \notin {Sweep, Phone}
ASSUME ChargedAssumption == Charged \in Nat \ {0}
ASSUME MayDieAssumption == MayDie \in BOOLEAN
ASSUME BoundsAssumption == {MaxEvents, MaxCalls, MaxFaults} \subseteq Nat

VARIABLES
    intent,         \* at Stripe: the PaymentIntent, what was given back, the dispute
    returned,
    bounced,        \* of what was given back: what came back, its refund having failed
    dispute,
    sent,           \* the events, in the order Stripe made them
    undelivered,    \* the events Stripe has no 200 for
    claimed,        \* the WEBHOOK# rows
    row,            \* the payment
    invoicePaid,    \* the invoice's totals.amountPaid
    task,           \* what is being handled, and how far
    calls, faults,
    dropped,        \* history: the handling of an event failed or died
    early,          \* history: an event was handled beside one it follows
    behind          \* history: the invoice missed a change, or an older sum replaced it

stripe == <<intent, returned, bounced, dispute>>
events == <<sent, undelivered>>
counters == <<calls, faults>>
history == <<dropped, early, behind>>
vars == <<stripe, events, claimed, row, invoicePaid, task, counters, history>>

Ids == 1 .. MaxEvents
Tasks == Ids \cup {Sweep, Phone, Desk}

Statuses == {"pending", "settled", "failed", "reversed", "refunded"}
Nothing == [type |-> "none", total |-> 0]
NewRow == [status |-> "pending", refunded |-> 0]

\* about: the event, what Stripe answered, or the refund. seen: the row as read;
\* current: the row still has the version read. sum: the ledger's, as read.
Idle == [at |-> "idle", about |-> Nothing, seen |-> NewRow, current |-> TRUE, conflicts |-> 0, sum |-> 0]

\* A payment that was just begun, or one that was collected before, whatever was
\* given back of it since.
Init ==
    /\ \/ intent = "waiting" /\ returned = 0 /\ row = NewRow /\ invoicePaid = 0
       \/ /\ intent = "succeeded" /\ returned \in 0 .. Charged
          /\ row = [status |-> IF returned = Charged THEN "refunded" ELSE "settled", refunded |-> returned]
          /\ invoicePaid = Charged - returned
    /\ bounced = 0 /\ dispute = "none"
    /\ sent = <<>> /\ undelivered = {} /\ claimed = {}
    /\ task = [t \in Tasks |-> Idle]
    /\ calls = 0 /\ faults = 0
    /\ dropped = FALSE /\ early = FALSE /\ behind = FALSE

At(t, step) == task[t].at = step
Becomes(t, to) == task' = [task EXCEPT ![t] = to]
Ends(t) == Becomes(t, Idle)

---------------------------------------------------------------------------
(* Stripe. *)

Emit(event) ==
    /\ Len(sent) < MaxEvents
    /\ sent' = Append(sent, event)
    /\ undelivered' = undelivered \cup {Len(sent')}

Event(type) == [type |-> type, total |-> 0]

Works == UNCHANGED <<claimed, row, invoicePaid, task, counters, history>>

IntentProcesses ==
    /\ intent \in {"waiting", "declined"}
    /\ intent' = "processing"
    /\ Emit(Event("processing"))
    /\ UNCHANGED <<returned, bounced, dispute>> /\ Works

IntentDeclined ==
    /\ intent \in {"waiting", "processing"}
    /\ intent' = "declined"
    /\ Emit(Event("payment_failed"))
    /\ UNCHANGED <<returned, bounced, dispute>> /\ Works

IntentCanceled ==
    /\ intent \in {"waiting", "declined"}
    /\ intent' = "canceled"
    /\ Emit(Event("canceled"))
    /\ UNCHANGED <<returned, bounced, dispute>> /\ Works

IntentSucceeds ==
    /\ intent \in {"waiting", "declined", "processing"}
    /\ intent' = "succeeded"
    /\ Emit(Event("succeeded"))
    /\ UNCHANGED <<returned, bounced, dispute>> /\ Works

\* A charge in dispute, or lost to one, is not refunded.
Refundable == intent = "succeeded" /\ dispute \notin {"open", "lost"}

GivesBack(amount) ==
    /\ Refundable
    /\ returned + amount <= Charged
    /\ returned' = returned + amount
    /\ Emit([type |-> "charge.refunded", total |-> returned + amount])
    /\ UNCHANGED <<intent, bounced, dispute>>

RefundedInDashboard ==
    /\ \E amount \in 1 .. Charged : GivesBack(amount)
    /\ Works

\* The bank refuses money given back, days later. Refunds are not told apart: any
\* part of what was given back may be one.
RefundFails ==
    /\ \E amount \in 1 .. returned :
          returned' = returned - amount /\ bounced' = bounced + amount
    /\ Emit(Event("refund.failed"))
    /\ UNCHANGED <<intent, dispute>> /\ Works

\* Also of a payment that was given back.
DisputeOpens ==
    /\ intent = "succeeded" /\ dispute = "none"
    /\ dispute' = "open"
    /\ Emit(Event("dispute.created"))
    /\ UNCHANGED <<intent, returned, bounced>> /\ Works

DisputeCloses ==
    /\ dispute = "open"
    /\ \E end \in {"won", "lost"} :
          /\ dispute' = end
          /\ Emit(Event(IF end = "won" THEN "dispute.won" ELSE "dispute.lost"))
    /\ UNCHANGED <<intent, returned, bounced>> /\ Works

Stripe ==
    \/ IntentProcesses \/ IntentDeclined \/ IntentCanceled \/ IntentSucceeds
    \/ RefundedInDashboard \/ RefundFails \/ DisputeOpens \/ DisputeCloses

---------------------------------------------------------------------------
(* Where a task comes from. *)

Call == calls < MaxCalls /\ calls' = calls + 1
Fault == faults < MaxFaults /\ faults' = faults + 1

InHand == undelivered \cup {i \in Ids : task[i] # Idle}
ComesEarly(i) == \E j \in InHand : j < i

\* The claim is written, the 200 answered, and the row read: between the claim
\* and the read there is nothing but a later read.
Receive(i) ==
    /\ i \in undelivered
    /\ undelivered' = undelivered \ {i}
    /\ IF i \in claimed
       THEN UNCHANGED <<claimed, task, early>>
       ELSE /\ claimed' = claimed \cup {i}
            /\ Becomes(i, [Idle EXCEPT !.at = "write", !.about = sent[i], !.seen = row])
            /\ early' = (early \/ ComesEarly(i))
    /\ UNCHANGED <<stripe, sent, row, invoicePaid, counters, dropped, behind>>

SendAgain(i) ==
    /\ i \in 1 .. Len(sent) /\ i \notin undelivered
    /\ Fault
    /\ undelivered' = undelivered \cup {i}
    /\ UNCHANGED <<stripe, sent, claimed, row, invoicePaid, task, calls, history>>

\* An intent's status as the event that would have carried it. One that waits
\* for a card failed, for the sweep; for the phone, only if a card was declined.
Answer(t) ==
    CASE intent = "declined" -> "payment_failed"
      [] intent = "waiting"  -> IF t = Sweep THEN "payment_failed" ELSE "none"
      [] OTHER               -> intent

\* A mutant: the sweep takes up what failed.
ListsFailed(t) == t = Sweep => row.status = "failed"

\* The sweep asks about a pending row, the phone about any.
Listed(t) == t = Sweep => row.status = "pending"

Ask(t) ==
    /\ t \in {Sweep, Phone}
    /\ At(t, "idle")
    /\ Listed(t)
    /\ IF t = Phone THEN Call ELSE UNCHANGED calls
    /\ Answer(t) # "none"
    /\ Becomes(t, [Idle EXCEPT !.at = "resolve", !.about = Event(Answer(t))])
    /\ UNCHANGED <<stripe, events, claimed, row, invoicePaid, faults, history>>

Counts(status) == status \in {"settled", "refunded"}
Net(p) == IF Counts(p.status) THEN Charged - p.refunded ELSE 0

Refund ==
    /\ At(Desk, "idle")
    /\ Call
    /\ \E amount \in 1 .. Net(row) :
          Becomes(Desk, [Idle EXCEPT !.at = "refund", !.seen = row,
                             !.about = [type |-> "refund", total |-> amount]])
    /\ UNCHANGED <<stripe, events, claimed, row, invoicePaid, faults, history>>

\* createRefund, and the refund's own record.
CreateRefund ==
    /\ At(Desk, "refund")
    /\ GivesBack(task[Desk].about.total)
    /\ Becomes(Desk, [task[Desk] EXCEPT !.at = "write"])
    /\ UNCHANGED <<claimed, row, invoicePaid, counters, history>>

RefundRefused ==
    /\ At(Desk, "refund")
    /\ ~Refundable \/ returned + task[Desk].about.total > Charged
    /\ Ends(Desk)
    /\ UNCHANGED <<stripe, events, claimed, row, invoicePaid, counters, history>>

---------------------------------------------------------------------------
(* Asserting a status on the row. *)

Resolve(t) ==
    /\ At(t, "resolve")
    /\ Becomes(t, [task[t] EXCEPT !.at = "write", !.seen = row, !.current = TRUE])
    /\ UNCHANGED <<stripe, events, claimed, row, invoicePaid, counters, history>>

CanTransition(from, to) ==
    to \in CASE from = "pending"  -> {"pending", "settled", "failed", "reversed"}
             [] from = "settled"  -> {"settled", "reversed", "refunded"}
             [] from = "failed"   -> {"failed", "pending", "settled"}
             [] from = "reversed" -> {"reversed"}
             [] from = "refunded" -> {"refunded", "reversed"}

\* A mutant: what was given back in full counts as given back in part.
NeverInFull(total) == IF total > Charged THEN "refunded" ELSE "settled"

StatusAfterRefund(total) == IF total >= Charged THEN "refunded" ELSE "settled"

\* A mutant: the event's total is added to what the row has.
RefundedMore(k) == k.seen.refunded + k.about.total

\* The refunded total that a task asserts: Stripe's, or the desk's sum.
RefundedTotal(k) ==
    IF k.about.type = "refund" THEN k.seen.refunded + k.about.total ELSE k.about.total

\* The row as it was read, with another status.
Turned(k, status) == [k.seen EXCEPT !.status = status]

\* What the row becomes if the task has its way.
Wanted(k) ==
    CASE k.about.type = "processing" -> Turned(k, "pending")
      [] k.about.type \in {"payment_failed", "canceled"} -> Turned(k, "failed")
      [] k.about.type = "succeeded" -> Turned(k, "settled")
      [] k.about.type \in {"dispute.created", "dispute.lost"} -> Turned(k, "reversed")
      [] k.about.type = "dispute.won" -> Turned(k, "settled")
      [] k.about.type = "refund.failed" -> k.seen
      [] k.about.type \in {"charge.refunded", "refund"} ->
             [Turned(k, StatusAfterRefund(RefundedTotal(k))) EXCEPT !.refunded = RefundedTotal(k)]

\* Only a reversed payment is restored by a dispute that was won.
Refuses(k) ==
    IF k.about.type = "dispute.won" THEN k.seen.status # "reversed"
    ELSE k.about.type # "refund" /\ ~CanTransition(k.seen.status, Wanted(k).status)

Changes(k) == Wanted(k) # k.seen

\* A won dispute is written whatever the version.
Unguarded(k) == k.about.type = "dispute.won"

\* A mutant: the row is written over whatever it has become.
AnyVersion(k) == k = k

SameVersion(k) == k.current

HasRead(t) == task[t].at \in {"refund", "write"}

Pass(t) ==
    /\ At(t, "write")
    /\ Refuses(task[t]) \/ ~Changes(task[t])
    /\ Ends(t)
    /\ UNCHANGED <<stripe, events, claimed, row, invoicePaid, counters, history>>

Write(t) ==
    LET k == task[t] IN
    /\ At(t, "write")
    /\ ~Refuses(k) /\ Changes(k)
    /\ Unguarded(k) \/ SameVersion(k)
    /\ row' = [status |-> Wanted(k).status,
               refunded |-> IF Unguarded(k) THEN row.refunded ELSE Wanted(k).refunded]
    /\ task' = [u \in Tasks |-> IF u = t THEN [Idle EXCEPT !.at = "sum"]
                               ELSE IF HasRead(u) THEN [task[u] EXCEPT !.current = FALSE]
                               ELSE task[u]]
    /\ UNCHANGED <<stripe, events, claimed, invoicePaid, counters, history>>

\* A mutant: a conflict is answered by reading again twice.
AnswersTwice(k) == k.conflicts < 2 /\ k.about.type \notin {"charge.refunded", "refund"}

\* A status is asserted once more on a fresh row; a refund is not.
AnswersConflict(k) == k.conflicts < 1 /\ k.about.type \notin {"charge.refunded", "refund"}

Conflict(t) ==
    LET k == task[t] IN
    /\ At(t, "write")
    /\ ~Refuses(k) /\ Changes(k)
    /\ ~Unguarded(k) /\ ~SameVersion(k)
    /\ AnswersConflict(k)
    /\ Becomes(t, [k EXCEPT !.at = "resolve", !.conflicts = @ + 1])
    /\ UNCHANGED <<stripe, events, claimed, row, invoicePaid, counters, history>>

\* Handling fails: the claim of an event is released.
Throws(t) ==
    /\ Ends(t)
    /\ claimed' = claimed \ {t}
    /\ dropped' = (dropped \/ t \in Ids)
    /\ UNCHANGED <<stripe, events, row, invoicePaid, early>>

ConflictAgain(t) ==
    LET k == task[t] IN
    /\ At(t, "write")
    /\ ~Refuses(k) /\ Changes(k)
    /\ ~Unguarded(k) /\ ~SameVersion(k)
    /\ ~AnswersConflict(k)
    /\ Throws(t)
    /\ UNCHANGED <<counters, behind>>

---------------------------------------------------------------------------
(* syncLedger: the invoice is derived from the ledger. *)

SumLedger(t) ==
    /\ At(t, "sum")
    /\ Becomes(t, [task[t] EXCEPT !.at = "apply", !.sum = Net(row)])
    /\ UNCHANGED <<stripe, events, claimed, row, invoicePaid, counters, history>>

\* A mutant: a sum of nothing is taken for one that is not known.
KeepsWhenNothing(k) == IF k.sum = 0 THEN invoicePaid ELSE k.sum

Sum(k) == k.sum

ApplyAmountPaid(t) ==
    /\ At(t, "apply")
    /\ invoicePaid' = Sum(task[t])
    /\ behind' = (task[t].sum # Net(row) /\ (behind \/ invoicePaid = Net(row)))
    /\ Ends(t)
    /\ UNCHANGED <<stripe, events, claimed, row, counters, dropped, early>>

---------------------------------------------------------------------------
(* Faults. *)

MissesInvoice(t) == behind' = (behind \/ task[t].at \in {"sum", "apply"})

Fail(t) ==
    /\ task[t] # Idle
    /\ Fault
    /\ Throws(t)
    /\ MissesInvoice(t)
    /\ UNCHANGED calls

\* The process dies, a deployment included: nothing waits for what is in flight.
Die(t) ==
    /\ MayDie
    /\ task[t] # Idle
    /\ Fault
    /\ Ends(t)
    /\ dropped' = (dropped \/ t \in Ids)
    /\ MissesInvoice(t)
    /\ UNCHANGED <<stripe, events, claimed, row, invoicePaid, calls, early>>

---------------------------------------------------------------------------

Handle(t) ==
    \/ Resolve(t) \/ Pass(t) \/ Write(t) \/ Conflict(t) \/ ConflictAgain(t)
    \/ SumLedger(t) \/ ApplyAmountPaid(t)

Next ==
    \/ Stripe
    \/ \E i \in Ids : Receive(i) \/ SendAgain(i)
    \/ \E t \in Tasks : Ask(t) \/ Handle(t) \/ Fail(t) \/ Die(t)
    \/ Refund \/ CreateRefund \/ RefundRefused

Spec == Init /\ [][Next]_vars

\* Stripe delivers an event until it has a 200; a task's awaits resume; the sweep
\* comes round. Nothing is asked of Stripe's own moves, of phones,
\* the desk and faults.
Fairness ==
    /\ \A i \in Ids : WF_vars(Receive(i))
    /\ \A t \in Tasks : WF_vars(Handle(t))
    /\ WF_vars(Ask(Sweep))

FairSpec == Spec /\ Fairness

\* No more than that the sweep comes round and its awaits resume.
SweepFairness == WF_vars(Ask(Sweep)) /\ WF_vars(Handle(Sweep))

SweepSpec == Spec /\ SweepFairness

---------------------------------------------------------------------------
(* Properties. *)

Rows == [status : Statuses, refunded : 0 .. Charged]

\* Every variable has its type; a version conflict is answered once.
StripeTypeOK ==
    /\ intent \in {"waiting", "processing", "declined", "canceled", "succeeded"}
    /\ returned \in 0 .. Charged /\ bounced \in Nat
    /\ dispute \in {"none", "open", "won", "lost"}
    /\ Len(sent) <= MaxEvents
    /\ undelivered \subseteq 1 .. Len(sent) /\ claimed \subseteq 1 .. Len(sent)
    /\ row \in Rows
    /\ invoicePaid \in 0 .. Charged
    /\ \A t \in Tasks :
         /\ task[t].at \in {"idle", "refund", "resolve", "write", "sum", "apply"}
         /\ task[t].seen \in Rows /\ task[t].conflicts \in {0, 1} /\ task[t].sum \in 0 .. Charged
    /\ {dropped, early, behind} \subseteq BOOLEAN

\* The sum of the refunds Stripe made, those that failed later included.
Refunded == returned + bounced

\* Whatever comes late, twice or half-way, the row says that money was collected
\* only when Stripe collected it, and never that more was given back than Stripe
\* made refunds of. A refund that failed later is one of them: no event lowers what
\* the row says was given back.
LedgerIsTrue ==
    /\ row.status \in {"settled", "refunded", "reversed"} => intent = "succeeded"
    /\ row.refunded <= Refunded
    /\ row.status = "reversed" => dispute # "none"

\* Collected money is never un-collected by a late answer of Stripe, and what the
\* bank took back counts again only when the dispute was won.
CollectedStays ==
    [][/\ row.status \in {"settled", "refunded", "reversed"}
            => row'.status \in {"settled", "refunded", "reversed"}
       /\ row.status = "reversed" /\ row'.status # "reversed" => dispute = "won"]_vars

Quiet == undelivered = {} /\ \A t \in Tasks : task[t] = Idle

Outcome ==
    IF dispute \in {"open", "lost"} THEN "reversed"
    ELSE IF row.refunded = Charged THEN "refunded" ELSE "settled"

\* When every event is handled, the row of a collected payment says what Stripe
\* did, unless handling an event failed or began before that of an earlier one ended.
\* The desk, the sweep and the phone may have died at any point. Two things it says
\* wrong for good: a refund that failed still counts as given back, in whole or in
\* part, and a payment that was given back in full says "settled" once a dispute of
\* it was won.
RowCatchesUp ==
    Quiet /\ ~dropped /\ ~early /\ intent = "succeeded" =>
       /\ row.refunded \in returned .. Refunded
       /\ \/ row.status = Outcome
          \/ row.status = "settled" /\ row.refunded = Charged /\ dispute = "won"

\* When nothing is being handled the invoice has the sum of its ledger, unless a
\* change was not followed through, or an older sum was written last.
InvoiceCatchesUp ==
    (\A t \in Tasks : task[t] = Idle) /\ ~behind => invoicePaid = Net(row)

\* "Webhooks give latency; this gives correctness": a payment that Stripe
\* collected does not stay pending, whatever happened to its events.
SweepHeals ==
    intent = "succeeded" /\ row.status = "pending" ~> row.status # "pending"

\* "Let Stripe's retry, or the sweep, have another go": an open dispute, whose
\* event is the only sign of it, takes the payment out of the ledger.
DisputesLand ==
    dispute = "open" ~> row.status = "reversed" \/ dispute # "open"

\* The steps that what is being handled may still take.
StepsLeft(k) ==
    CASE k.at = "refund"  -> 7
      [] k.at = "resolve" -> 4 + 2 * (1 - k.conflicts)
      [] k.at = "write"   -> 3 + 2 * (1 - k.conflicts)
      [] k.at = "sum"     -> 2
      [] k.at = "apply"   -> 1
      [] k.at = "idle"    -> 0

\* What is being handled is done with in a few steps, however often others write the
\* row and whatever comes again meanwhile: that costs it the version it read.
HandlingEnds ==
    [][\A t \in Tasks : task[t].at # "idle" =>
          \/ task'[t] \in {task[t], [task[t] EXCEPT !.current = FALSE]}
          \/ StepsLeft(task'[t]) \in 0 .. StepsLeft(task[t]) - 1]_vars
=============================================================================
