------------------------ MODULE StripePaymentsProofs ------------------------
(***************************************************************************)
(* What StripePayments keeps, for any charge, any number of events, calls  *)
(* and faults. LedgerIsTrue and CollectedStays rest on what a task has in  *)
(* hand (TasksOK): what it heard of Stripe stays so, and the row it read    *)
(* either is the row or has lost its version. InvoiceCatchesUp rests on    *)
(* who has still to see to the invoice (InvoiceInv), RowCatchesUp on the   *)
(* order of the events (StripeOrder) and on what those that have been      *)
(* handled made of the row (CatchUp).                                      *)
(***************************************************************************)
EXTENDS StripePayments, SequenceTheorems, TLAPS

Intents == {"waiting", "processing", "declined", "canceled", "succeeded"}
Disputes == {"none", "open", "won", "lost"}
EventTypes ==
    {"processing", "payment_failed", "canceled", "succeeded", "charge.refunded",
     "refund.failed", "dispute.created", "dispute.won", "dispute.lost"}
OfDispute == {"dispute.created", "dispute.won", "dispute.lost"}
Collected == {"settled", "refunded", "reversed"}

Abouts == [type : EventTypes \cup {"none", "refund"}, total : Nat]
Handling ==
    [at : {"idle", "refund", "resolve", "write", "sum", "apply"}, about : Abouts, seen : Rows,
           current : BOOLEAN, conflicts : {0, 1}, sum : 0 .. Charged]

\* What an event says, or an answer of Stripe, once true stays true.
Sound(a) ==
    /\ a.type \in {"succeeded", "charge.refunded"} \cup OfDispute => intent = "succeeded"
    /\ a.type = "charge.refunded" => a.total <= Charged /\ a.total <= Refunded
    /\ a.type \in OfDispute => dispute # "none"
    /\ a.type = "dispute.won" => dispute = "won"
    /\ a.type = "dispute.lost" => dispute = "lost"

StripeOK ==
    /\ intent \in Intents /\ returned \in 0 .. Charged /\ bounced \in Nat /\ dispute \in Disputes
    /\ returned > 0 \/ dispute # "none" => intent = "succeeded"

SentOK ==
    /\ sent \in Seq([type : EventTypes, total : Nat]) /\ Len(sent) <= MaxEvents
    /\ \A i \in 1 .. Len(sent) : Sound(sent[i])
    /\ undelivered \subseteq 1 .. Len(sent) /\ claimed \subseteq 1 .. Len(sent)

\* The refunded total goes with the status, until a dispute is won.
Shape(p) ==
    /\ p.status \in {"pending", "failed"} => p.refunded = 0
    /\ p.status = "settled" => p.refunded < Charged \/ dispute = "won"
    /\ p.status = "refunded" => p.refunded = Charged

RowOK == row \in Rows /\ Shape(row) /\ LedgerIsTrue

\* A row that a task has read: it was the row, and is, if its version is.
SeenOK(k) ==
    /\ Shape(k.seen) /\ k.seen.refunded <= Refunded
    /\ k.seen.status \in Collected => row.status \in Collected
    /\ k.current => k.seen = row

TaskOK(k) ==
    /\ Sound(k.about)
    /\ k.at \in {"resolve", "write"} => k.about.type # "none"
    /\ k.at = "resolve" => k.about.type # "refund"
    /\ k.at = "refund" => k.about.type = "refund"
    /\ k.at \in {"refund", "write"} => SeenOK(k)
    /\ k.at \in {"refund", "write"} /\ k.about.type = "refund" =>
          Counts(k.seen.status) /\ k.about.total > 0 /\ k.seen.refunded + k.about.total <= Charged
    /\ k.at = "write" /\ k.about.type = "refund" => k.seen.refunded + k.about.total <= Refunded

TasksOK == task \in [Tasks -> Handling] /\ \A t \in Tasks : TaskOK(task[t])

HistoryOK == {dropped, early, behind} \subseteq BOOLEAN /\ invoicePaid \in 0 .. Charged

StripeInv == StripeOK /\ SentOK /\ RowOK /\ TasksOK /\ HistoryOK

---------------------------------------------------------------------------
(* Stripe. *)

Advances ==
    /\ intent = "succeeded" => intent' = "succeeded"
    /\ Refunded <= Refunded'
    /\ dispute # "none" => dispute' # "none"
    /\ dispute \in {"won", "lost"} => dispute' = dispute

LEMMA RefundedType ==
    ASSUME StripeOK, StripeOK'
    PROVE  /\ returned \in Nat /\ returned' \in Nat /\ Charged \in Nat
           /\ Refunded \in Nat /\ Refunded' \in Nat
  <1>1. returned \in Nat /\ returned' \in Nat /\ bounced \in Nat /\ bounced' \in Nat /\ Charged \in Nat
    BY ChargedAssumption DEF StripeOK
  <1>2. Refunded = returned + bounced /\ Refunded' = returned' + bounced'
    BY DEF Refunded
  <1>3. \A m, n \in Nat : m + n \in Nat
    OBVIOUS
  <1>4. returned + bounced \in Nat /\ returned' + bounced' \in Nat
    BY <1>1, <1>3
  <1> QED BY <1>1, <1>2, <1>4

LEMMA SoundStays ==
    ASSUME NEW a \in Abouts, StripeOK, StripeOK', Advances, Sound(a)
    PROVE  Sound(a)'
  <1>1. /\ a.total \in Nat /\ returned \in Nat /\ returned' \in Nat
        /\ Refunded \in Nat /\ Refunded' \in Nat
    BY RefundedType DEF Abouts
  <1> QED BY <1>1 DEF Sound, Advances, OfDispute

LEMMA StillStripe ==
    ASSUME StripeOK, UNCHANGED stripe
    PROVE  StripeOK' /\ Advances
  <1>1. returned \in Nat /\ bounced \in Nat
    BY ChargedAssumption DEF StripeOK
  <1> QED BY <1>1 DEF StripeOK, Advances, Refunded, stripe

\* An event that Stripe sends.
Sends(a) ==
    /\ Len(sent) < MaxEvents
    /\ sent' = Append(sent, a) /\ undelivered' = undelivered \cup {Len(sent) + 1}
    /\ Sound(a)' /\ Advances /\ StripeOK'

LEMMA EmitSends ==
    ASSUME SentOK, NEW a \in [type : EventTypes, total : Nat], Emit(a), Sound(a)', Advances, StripeOK'
    PROVE  Sends(a)
  BY DEF Emit, Sends, SentOK

StripeSends(a) ==
    /\ a \in [type : EventTypes, total : Nat] /\ Sends(a)
    /\ a.type = "succeeded" => intent # "succeeded"
    /\ intent # "succeeded" /\ intent' = "succeeded" => a.type = "succeeded"
    /\ a.type = "charge.refunded" => dispute \in {"none", "won"} /\ a.total = returned'
    /\ a.type # "charge.refunded" => returned' <= returned
    /\ a.type = "dispute.created" => dispute = "none"
    /\ a.type \in {"dispute.won", "dispute.lost"} => dispute = "open"
    /\ dispute = "none" /\ dispute' # "none" => a.type = "dispute.created" 
    /\ dispute # "won" /\ dispute' = "won" => a.type = "dispute.won"

LEMMA GivesBackSends ==
    ASSUME StripeOK, SentOK, NEW amount \in Nat, amount > 0, GivesBack(amount)
    PROVE  \E a : StripeSends(a) /\ a.type = "charge.refunded"
  <1>p. PICK a : a = [type |-> "charge.refunded", total |-> returned + amount]
    OBVIOUS
  <1>1. /\ returned \in Nat /\ returned' \in Nat /\ returned' = returned + amount /\ returned' <= Charged
        /\ returned <= returned' /\ returned' = a.total
        /\ bounced \in Nat /\ bounced' = bounced
        /\ Refunded <= Refunded' /\ a.total <= Refunded'
    BY <1>p, ChargedAssumption DEF StripeOK, GivesBack, Refunded
  <1>2. a \in [type : EventTypes, total : Nat] /\ Emit(a) /\ a.type = "charge.refunded"
    BY <1>p, <1>1 DEF GivesBack, EventTypes
  <1>3. intent = "succeeded" /\ intent' = intent /\ dispute \in {"none", "won"} /\ dispute' = dispute
    BY <1>p DEF GivesBack, Refundable, StripeOK, Disputes
  <1>4. StripeOK'
    BY <1>1, <1>3, ChargedAssumption DEF StripeOK
  <1>5. Advances /\ Sound(a)'
    BY <1>1, <1>2, <1>3 DEF Advances, Sound, OfDispute
  <1>6. Sends(a)
    BY <1>2, <1>4, <1>5, EmitSends
  <1> QED BY <1>1, <1>2, <1>3, <1>6 DEF StripeSends

LEMMA IntentSends ==
    ASSUME StripeOK, SentOK, IntentProcesses \/ IntentDeclined \/ IntentCanceled \/ IntentSucceeds
    PROVE  \E a : StripeSends(a)
  <1>0. returned \in Nat /\ bounced \in Nat
    BY ChargedAssumption DEF StripeOK
  <1>1. /\ intent # "succeeded" /\ intent' \in Intents
        /\ returned' = returned /\ bounced' = bounced /\ dispute' = dispute
        /\ returned = 0 /\ dispute = "none"
    BY <1>0 DEF IntentProcesses, IntentDeclined, IntentCanceled, IntentSucceeds, Intents, StripeOK
  <1>2. PICK type \in {"processing", "payment_failed", "canceled", "succeeded"} :
          Emit(Event(type)) /\ (type = "succeeded" <=> intent' = "succeeded")
    BY DEF IntentProcesses, IntentDeclined, IntentCanceled, IntentSucceeds
  <1>3. PICK a : a = Event(type)
    OBVIOUS
  <1>4. a \in [type : EventTypes, total : Nat] /\ a.type = type
    BY <1>3 DEF Event, EventTypes
  <1>5. Emit(a)
    BY <1>2, <1>3, Zenon
  <1>6. StripeOK' /\ Advances
    BY <1>0, <1>1 DEF StripeOK, Advances, Refunded
  <1>7. Sound(a)'
    BY <1>2, <1>4 DEF Sound, OfDispute
  <1>8. Sends(a)
    BY <1>4, <1>5, <1>6, <1>7, EmitSends
  <1> QED BY <1>0, <1>1, <1>2, <1>4, <1>8 DEF StripeSends

LEMMA RefundFailsSends ==
    ASSUME StripeOK, SentOK, RefundFails
    PROVE  \E a : StripeSends(a)
  <1>1. PICK amount \in 1 .. returned : returned' = returned - amount /\ bounced' = bounced + amount
    BY DEF RefundFails
  <1>2. /\ returned \in Nat /\ bounced \in Nat /\ bounced' \in Nat /\ returned' \in 0 .. Charged
        /\ returned > 0 /\ returned' <= returned /\ Refunded <= Refunded'
    BY <1>1, ChargedAssumption DEF StripeOK, Refunded
  <1>3. intent = "succeeded" /\ intent' = intent /\ dispute' = dispute
    BY <1>2 DEF RefundFails, StripeOK
  <1>4. PICK a : a = Event("refund.failed")
    OBVIOUS
  <1>5. a \in [type : EventTypes, total : Nat] /\ a.type = "refund.failed" /\ Emit(a)
    BY <1>4 DEF Event, EventTypes, RefundFails
  <1>6. StripeOK' /\ Advances
    BY <1>2, <1>3 DEF StripeOK, Advances
  <1>7. Sends(a)
    BY <1>5, <1>6, EmitSends DEF Sound, OfDispute
  <1> QED BY <1>2, <1>3, <1>5, <1>7 DEF StripeSends

LEMMA DisputeSends ==
    ASSUME StripeOK, SentOK, DisputeOpens \/ DisputeCloses
    PROVE  \E a : StripeSends(a)
  <1>0. returned \in Nat /\ bounced \in Nat
    BY ChargedAssumption DEF StripeOK
  <1>1. /\ intent = "succeeded" /\ intent' = intent /\ returned' = returned /\ bounced' = bounced
        /\ dispute \in {"none", "open"} /\ dispute' \in {"open", "won", "lost"}
        /\ dispute = "none" <=> dispute' = "open"
    BY <1>0 DEF DisputeOpens, DisputeCloses, StripeOK, Disputes
  <1>2. PICK type \in OfDispute :
          /\ Emit(Event(type))
          /\ type = "dispute.created" <=> dispute' = "open"
          /\ type = "dispute.won" <=> dispute' = "won"
          /\ type = "dispute.lost" <=> dispute' = "lost"
    <2>1. CASE DisputeOpens
      BY <2>1 DEF DisputeOpens, OfDispute
    <2>2. CASE DisputeCloses
      BY <2>2 DEF DisputeCloses, OfDispute
    <2> QED BY <2>1, <2>2
  <1>3. PICK a : a = Event(type)
    OBVIOUS
  <1>4. a \in [type : EventTypes, total : Nat] /\ a.type = type
    BY <1>3 DEF Event, EventTypes, OfDispute
  <1>5. Emit(a)
    BY <1>2, <1>3, Zenon
  <1>6. StripeOK' /\ Advances
    BY <1>0, <1>1 DEF StripeOK, Advances, Refunded, Disputes
  <1>7. Sound(a)'
    BY <1>1, <1>2, <1>4 DEF Sound, OfDispute
  <1>8. Sends(a)
    BY <1>4, <1>5, <1>6, <1>7, EmitSends
  <1> QED BY <1>0, <1>1, <1>2, <1>4, <1>8 DEF StripeSends, OfDispute

LEMMA StripeStep ==
    ASSUME StripeOK, SentOK, Stripe
    PROVE  Works /\ \E a : StripeSends(a)
  <1>1. Works
    BY DEF Stripe, IntentProcesses, IntentDeclined, IntentCanceled, IntentSucceeds,
       RefundedInDashboard, RefundFails, DisputeOpens, DisputeCloses
  <1>2. CASE RefundedInDashboard
    <2>1. PICK amount \in 1 .. Charged : GivesBack(amount)
      BY <1>2 DEF RefundedInDashboard
    <2>2. amount \in Nat /\ amount > 0
      BY ChargedAssumption
    <2> QED BY <1>1, <2>1, <2>2, GivesBackSends
  <1>3. CASE ~RefundedInDashboard
    BY <1>1, <1>3, IntentSends, RefundFailsSends, DisputeSends DEF Stripe
  <1> QED BY <1>2, <1>3

\* The events that were sent, and the new one.
LEMMA SentAfter ==
    ASSUME SentOK, NEW a \in [type : EventTypes, total : Nat], sent' = Append(sent, a)
    PROVE  /\ sent' \in Seq([type : EventTypes, total : Nat])
           /\ Len(sent) \in Nat /\ Len(sent') = Len(sent) + 1
           /\ \A i \in 1 .. Len(sent) : sent'[i] = sent[i]
           /\ sent'[Len(sent) + 1] = a
  BY AppendProperties DEF SentOK

LEMMA EventSent ==
    ASSUME SentOK, NEW i \in 1 .. Len(sent)
    PROVE  /\ sent[i] \in [type : EventTypes, total : Nat] /\ sent[i] \in Abouts
           /\ sent[i].type \in EventTypes /\ sent[i].total \in Nat
           /\ Sound(sent[i])
  <1>1. sent[i] \in [type : EventTypes, total : Nat]
    BY ElementOfSeq, Zenon DEF SentOK
  <1> QED BY <1>1 DEF SentOK, Abouts

LEMMA SendsSent ==
    ASSUME StripeOK, SentOK, NEW a \in [type : EventTypes, total : Nat], Sends(a), UNCHANGED claimed
    PROVE  SentOK'
  <1>1. /\ sent' \in Seq([type : EventTypes, total : Nat])
        /\ Len(sent) \in Nat /\ Len(sent') = Len(sent) + 1
        /\ \A i \in 1 .. Len(sent) : sent'[i] = sent[i]
        /\ sent'[Len(sent) + 1] = a
    BY SentAfter DEF Sends
  <1>2. Len(sent') <= MaxEvents
    BY <1>1, BoundsAssumption DEF Sends
  <1>3. ASSUME NEW i \in 1 .. Len(sent') PROVE Sound(sent[i])'
    <2>1. CASE i = Len(sent) + 1
      <3>1. Sound(a)'
        BY DEF Sends
      <3> QED BY <1>1, <2>1, <3>1 DEF Sound
    <2>2. CASE i \in 1 .. Len(sent)
      <3>1. PICK b : b = sent[i]
        OBVIOUS
      <3>2. b \in Abouts /\ Sound(b) /\ sent'[i] = b
        BY <1>1, <2>2, <3>1, EventSent
      <3>3. Sound(b)'
        BY <3>2, SoundStays DEF Sends
      <3> QED BY <3>2, <3>3 DEF Sound
    <2> QED BY <1>1, <2>1, <2>2
  <1>4. undelivered' \subseteq 1 .. Len(sent') /\ claimed' \subseteq 1 .. Len(sent')
    <2>1. 1 .. Len(sent) \subseteq 1 .. Len(sent') /\ Len(sent) + 1 \in 1 .. Len(sent')
      BY <1>1
    <2> QED BY <2>1, Zenon DEF SentOK, Sends
  <1> QED BY <1>1, <1>2, <1>3, <1>4 DEF SentOK

---------------------------------------------------------------------------
(* The row and what tasks have read of it. *)

LEMMA RowStays ==
    ASSUME RowOK, StripeOK, Advances, UNCHANGED row, StripeOK'
    PROVE  RowOK'
  <1>1. row.refunded \in Nat /\ Refunded \in Nat /\ Refunded' \in Nat
    BY RefundedType DEF RowOK, Rows
  <1> QED BY <1>1 DEF RowOK, Shape, LedgerIsTrue, Advances

LEMMA TaskStays ==
    ASSUME NEW k \in Handling, TaskOK(k), StripeOK, StripeOK', Advances, UNCHANGED row
    PROVE  TaskOK(k)'
  <1>1. /\ k.seen.refunded \in Nat /\ k.about.total \in Nat /\ k.about \in Abouts
        /\ Refunded \in Nat /\ Refunded' \in Nat
    BY RefundedType DEF Handling, Abouts, Rows
  <1>2. Sound(k.about)'
    BY <1>1, SoundStays DEF TaskOK
  <1>3. SeenOK(k) => SeenOK(k)'
    BY <1>1 DEF SeenOK, Shape, Advances
  <1> QED BY <1>1, <1>2, <1>3 DEF TaskOK, Advances, Counts

\* Every task but t goes on with what it has.
LEMMA OthersStay ==
    ASSUME TasksOK, StripeOK, StripeOK', Advances, UNCHANGED row,
           NEW t \in Tasks, NEW k \in Handling, task' = [task EXCEPT ![t] = k], TaskOK(k)'
    PROVE  TasksOK'
  <1>1. task' \in [Tasks -> Handling] /\ task'[t] = k
    BY DEF TasksOK
  <1>2. ASSUME NEW u \in Tasks PROVE TaskOK(task[u])'
    <2>1. CASE u = t
      BY <1>1, <2>1 DEF TaskOK, SeenOK, Sound, Shape, Counts
    <2>2. CASE u # t
      <3>1. PICK l : l = task[u]
        OBVIOUS
      <3>2. l \in Handling /\ TaskOK(l) /\ task'[u] = l
        BY <2>2, <3>1 DEF TasksOK
      <3>3. TaskOK(l)'
        BY <3>2, TaskStays
      <3> QED BY <3>2, <3>3 DEF TaskOK, SeenOK, Sound, Shape, Counts
    <2> QED BY <2>1, <2>2
  <1> QED BY <1>1, <1>2 DEF TasksOK

LEMMA AllStay ==
    ASSUME TasksOK, StripeOK, StripeOK', Advances, UNCHANGED <<row, task>>
    PROVE  TasksOK'
  <1>1. ASSUME NEW u \in Tasks PROVE TaskOK(task[u])'
    <2>1. PICK l : l = task[u]
      OBVIOUS
    <2>2. l \in Handling /\ TaskOK(l) /\ task'[u] = l
      BY <2>1 DEF TasksOK
    <2>3. TaskOK(l)'
      BY <2>2, TaskStays
    <2> QED BY <2>2, <2>3 DEF TaskOK, SeenOK, Sound, Shape, Counts
  <1> QED BY <1>1 DEF TasksOK

LEMMA IdleOK == Idle \in Handling /\ TaskOK(Idle)
  <1>1. Idle \in Handling
    BY ChargedAssumption DEF Idle, Handling, Nothing, NewRow, Abouts, Rows, Statuses
  <1> QED BY <1>1 DEF Idle, TaskOK, Nothing, Sound, OfDispute

\* A task that begins with the row as it is.
LEMMA FreshSeen ==
    ASSUME RowOK, NEW k \in Handling, k.seen = row
    PROVE  SeenOK(k)
  BY DEF RowOK, SeenOK, LedgerIsTrue

---------------------------------------------------------------------------
(* What a task that asserts a status makes of the row. *)

Status(k) ==
    IF k.about.type = "processing" THEN "pending"
    ELSE IF k.about.type \in {"payment_failed", "canceled"} THEN "failed"
    ELSE IF k.about.type \in {"succeeded", "dispute.won"} THEN "settled"
    ELSE IF k.about.type \in {"dispute.created", "dispute.lost"} THEN "reversed"
    ELSE IF k.about.type = "refund.failed" THEN k.seen.status
    ELSE StatusAfterRefund(RefundedTotal(k))

IsRefund(k) == k.about.type \in {"charge.refunded", "refund"}

LEMMA OtherStatus ==
    ASSUME NEW p \in Rows, NEW status
    PROVE  [p EXCEPT !.status = status] = [status |-> status, refunded |-> p.refunded]
  BY DEF Rows

LEMMA OtherTotal ==
    ASSUME NEW status, NEW refunded, NEW total
    PROVE  [[status |-> status, refunded |-> refunded] EXCEPT !.refunded = total]
             = [status |-> status, refunded |-> total]
  OBVIOUS

LEMMA WantedIs ==
    ASSUME NEW k \in Handling, k.about.type # "none"
    PROVE  /\ IsRefund(k) => Wanted(k) = [status |-> Status(k), refunded |-> RefundedTotal(k)]
           /\ ~IsRefund(k) => Wanted(k) = [status |-> Status(k), refunded |-> k.seen.refunded]
           /\ Status(k) \in Statuses
  <1>1. k.about.type \in EventTypes \cup {"refund"}
    BY DEF Handling, Abouts
  <1>2. /\ Turned(k, Status(k)) = [status |-> Status(k), refunded |-> k.seen.refunded]
        /\ [Turned(k, Status(k)) EXCEPT !.refunded = RefundedTotal(k)]
              = [status |-> Status(k), refunded |-> RefundedTotal(k)]
    <2>1. k.seen \in Rows
      BY DEF Handling
    <2>2. Turned(k, Status(k)) = [status |-> Status(k), refunded |-> k.seen.refunded]
      BY <2>1, OtherStatus, Zenon DEF Turned
    <2>3. \A s, r, u : [[status |-> s, refunded |-> r] EXCEPT !.refunded = u] = [status |-> s, refunded |-> u]
      BY OtherTotal
    <2>4. [[status |-> Status(k), refunded |-> k.seen.refunded] EXCEPT !.refunded = RefundedTotal(k)]
            = [status |-> Status(k), refunded |-> RefundedTotal(k)]
      BY <2>3, Zenon
    <2> QED BY <2>2, <2>4, Zenon
  <1>3. StatusAfterRefund(RefundedTotal(k)) \in Statuses
    BY DEF StatusAfterRefund, Statuses
  <1>4. Status(k) \in Statuses
    <2>1. k.seen.status \in Statuses
      BY DEF Handling, Rows
    <2> QED BY <1>3, <2>1 DEF Status, Statuses
  <1>5. CASE k.about.type \in {"charge.refunded", "refund"}
    <2>1. Wanted(k) = [Turned(k, StatusAfterRefund(RefundedTotal(k))) EXCEPT !.refunded = RefundedTotal(k)]
      BY <1>5 DEF Wanted
    <2>2. Status(k) = StatusAfterRefund(RefundedTotal(k))
      BY <1>5 DEF Status
    <2> QED BY <1>2, <1>4, <1>5, <2>1, <2>2, Zenon DEF IsRefund
  <1>6. CASE k.about.type \notin {"charge.refunded", "refund"}
    <2>1. Wanted(k) = Turned(k, Status(k))
      <3>1. CASE k.about.type = "processing"
        BY <3>1 DEF Wanted, Status
      <3>2. CASE k.about.type \in {"payment_failed", "canceled"}
        BY <3>2 DEF Wanted, Status
      <3>3. CASE k.about.type \in {"succeeded", "dispute.won"}
        BY <3>3 DEF Wanted, Status
      <3>4. CASE k.about.type \in {"dispute.created", "dispute.lost"}
        BY <3>4 DEF Wanted, Status
      <3>5. CASE k.about.type = "refund.failed"
        <4>1. k.seen \in Rows
          BY DEF Handling
        <4>2. Turned(k, k.seen.status) = k.seen
          BY <4>1 DEF Turned, Rows
        <4> QED BY <3>5, <4>2 DEF Wanted, Status
      <3> QED BY <1>1, <1>6, <3>1, <3>2, <3>3, <3>4, <3>5 DEF EventTypes
    <2> QED BY <1>2, <1>4, <1>6, <2>1, Zenon DEF IsRefund
  <1> QED BY <1>4, <1>5, <1>6

\* What a write may do to the row.
Effect(k) ==
    /\ row.status \in Collected => row'.status \in Collected
    /\ row.status = "reversed" /\ row'.status # "reversed" => k.about.type = "dispute.won"
    /\ row.status # "reversed" /\ row'.status = "reversed" => k.about.type \in {"dispute.created", "dispute.lost"}
    /\ k.about.type = "succeeded" => row'.status \in Collected
    /\ k.about.type = "dispute.created" => row'.status = "reversed"
    /\ k.about.type = "dispute.won" => row'.status # "reversed"
    /\ IF k.about.type = "charge.refunded" THEN row'.refunded = k.about.total
       ELSE row'.refunded >= row.refunded

LEMMA WriteEffect ==
    ASSUME StripeInv, NEW t \in Tasks, Write(t)
    PROVE  RowOK' /\ Effect(task[t])
  <1> PICK k : k = task[t]
    OBVIOUS
  <1>1. k \in Handling /\ TaskOK(k) /\ k.at = "write" /\ k.about.type # "none"
    BY DEF StripeInv, TasksOK, Write, At, TaskOK
  <1>2. /\ ~Refuses(k) /\ Changes(k) /\ (Unguarded(k) \/ SameVersion(k)) /\ UNCHANGED stripe
        /\ row' = [status |-> Wanted(k).status,
                   refunded |-> IF Unguarded(k) THEN row.refunded ELSE Wanted(k).refunded]
    BY DEF Write
  <1>3. PICK w : w = Wanted(k)
    OBVIOUS
  <1>4. /\ w.status = Status(k) /\ Status(k) \in Statuses
        /\ w.refunded = IF IsRefund(k) THEN RefundedTotal(k) ELSE k.seen.refunded
        /\ w = [status |-> w.status, refunded |-> w.refunded]
    BY <1>1, <1>3, WantedIs
  <1>5. /\ row \in Rows /\ row.refunded \in Nat /\ row.refunded <= Charged /\ row.refunded <= Refunded
        /\ k.seen \in Rows /\ k.seen.refunded \in Nat /\ k.seen.refunded <= Charged
        /\ k.about.total \in Nat /\ Refunded \in Nat /\ Charged > 0 /\ Charged \in Nat
        /\ k.seen = [status |-> k.seen.status, refunded |-> k.seen.refunded]
    BY <1>1, ChargedAssumption DEF StripeInv, RowOK, Rows, StripeOK, Refunded, Handling, Abouts, TaskOK, SeenOK,
       LedgerIsTrue
  <1>6. row'.status = Status(k) /\ row'.refunded = IF Unguarded(k) THEN row.refunded ELSE w.refunded
    BY <1>2, <1>3, <1>4
  <1>7. Sound(k.about) /\ SeenOK(k) /\ Shape(row) /\ LedgerIsTrue
    BY <1>1 DEF TaskOK, StripeInv, RowOK
  <1>8. StripeOK
    BY DEF StripeInv
  <1>9. row' \in [status : Statuses, refunded : Int] /\ UNCHANGED <<intent, dispute>> /\ Refunded' = Refunded
    BY <1>2, <1>3, <1>4, <1>5 DEF stripe, Refunded, IsRefund, RefundedTotal, Unguarded
  <1>10. ASSUME k.about.type = "dispute.won" PROVE RowOK' /\ Effect(k)
    <2>1. k.seen.status = "reversed" /\ row'.status = "settled" /\ row'.refunded = row.refunded
      BY <1>2, <1>6, <1>10 DEF Refuses, Status, Unguarded
    <2>2. intent = "succeeded" /\ dispute = "won"
      BY <1>7, <1>8, <1>10 DEF Sound, OfDispute, StripeOK
    <2>3. RowOK'
      BY <1>5, <1>9, <2>1, <2>2 DEF RowOK, Rows, Shape, LedgerIsTrue
    <2> QED BY <1>5, <1>10, <2>1, <2>3 DEF Effect, Collected
  <1> HIDE DEF SameVersion
  <1>11. ASSUME k.about.type # "dispute.won" PROVE k.seen = row /\ row'.refunded = w.refunded /\ ~Unguarded(k)
    BY <1>2, <1>6, <1>7, <1>11 DEF Unguarded, SameVersion, SeenOK
  <1>12. ASSUME k.about.type = "refund" PROVE RowOK' /\ Effect(k)
    <2>1. /\ row'.refunded = row.refunded + k.about.total /\ k.about.total > 0
          /\ row'.refunded <= Refunded /\ row'.refunded <= Charged
          /\ row.status \in {"settled", "refunded"}
      BY <1>1, <1>4, <1>11, <1>12 DEF IsRefund, RefundedTotal, TaskOK, Counts
    <2>2. row'.status = IF row'.refunded >= Charged THEN "refunded" ELSE "settled"
      BY <1>4, <1>6, <1>11, <1>12 DEF Status, IsRefund, StatusAfterRefund
    <2>3. RowOK'
      BY <1>5, <1>7, <1>9, <2>1, <2>2 DEF RowOK, Rows, Shape, LedgerIsTrue
    <2> QED BY <1>5, <1>12, <2>1, <2>2, <2>3 DEF Effect, Collected
  <1>13. ASSUME k.about.type = "charge.refunded" PROVE RowOK' /\ Effect(k)
    <2>1. /\ row'.refunded = k.about.total /\ row'.refunded <= Refunded
          /\ row'.refunded <= Charged /\ intent = "succeeded"
      BY <1>4, <1>7, <1>11, <1>13 DEF IsRefund, RefundedTotal, Sound
    <2>2. row'.status = IF row'.refunded >= Charged THEN "refunded" ELSE "settled"
      BY <1>4, <1>6, <1>11, <1>13 DEF Status, IsRefund, StatusAfterRefund
    <2>3. CanTransition(row.status, row'.status)
      BY <1>2, <1>3, <1>4, <1>6, <1>11, <1>13 DEF Refuses
    <2>4. row.status # "reversed"
      BY <2>2, <2>3 DEF CanTransition
    <2>5. RowOK'
      BY <1>5, <1>7, <1>9, <2>1, <2>2 DEF RowOK, Rows, Shape, LedgerIsTrue
    <2> QED BY <1>5, <1>13, <2>1, <2>2, <2>4, <2>5 DEF Effect, Collected
  <1>14. k.about.type # "refund.failed"
    BY <1>2 DEF Changes, Wanted
  <1>15. ASSUME k.about.type \notin {"dispute.won", "charge.refunded", "refund"} PROVE RowOK' /\ Effect(k)
    <2>1. row'.refunded = row.refunded
      BY <1>4, <1>11, <1>15 DEF IsRefund
    <2>2. CanTransition(row.status, row'.status)
      BY <1>2, <1>3, <1>4, <1>6, <1>11, <1>15 DEF Refuses
    <2>3. row'.status # row.status
      BY <1>2, <1>3, <1>4, <1>5, <1>6, <1>11, <1>15, <2>1 DEF Changes
    <2>4. \/ k.about.type = "processing" /\ row'.status = "pending"
          \/ k.about.type \in {"payment_failed", "canceled"} /\ row'.status = "failed"
          \/ k.about.type = "succeeded" /\ row'.status = "settled"
          \/ k.about.type \in {"dispute.created", "dispute.lost"} /\ row'.status = "reversed"
      BY <1>1, <1>6, <1>14, <1>15 DEF Status, Handling, Abouts, EventTypes
    <2>5. row'.status \in {"pending", "failed", "settled"} => row.status \in {"pending", "failed"}
      <3>1. row.status \in Statuses
        BY <1>5 DEF Rows
      <3>2. CASE k.about.type = "succeeded"
        BY <2>2, <2>3, <2>4, <3>1, <3>2 DEF CanTransition, Statuses
      <3>3. CASE k.about.type # "succeeded"
        BY <2>2, <2>3, <2>4, <3>1, <3>3 DEF CanTransition, Statuses
      <3> QED BY <3>2, <3>3
    <2>6. row'.status # "reversed" => row.status # "reversed" 
      BY <2>4, <2>5
    <2>7. RowOK'
      BY <1>5, <1>7, <1>9, <2>1, <2>4, <2>5 DEF RowOK, Rows, Shape, LedgerIsTrue, Sound, OfDispute
    <2> QED BY <1>5, <1>15, <2>1, <2>4, <2>5, <2>6, <2>7 DEF Effect, Collected
  <1> QED BY <1>10, <1>12, <1>13, <1>15

---------------------------------------------------------------------------
(* The steps. *)

LEMMA TaskMoves ==
    ASSUME StripeInv, NEW t \in Tasks, NEW k \in Handling, TaskOK(k), Becomes(t, k),
           UNCHANGED <<stripe, row, sent>>,
           undelivered' \subseteq 1 .. Len(sent), claimed' \subseteq 1 .. Len(sent), HistoryOK'
    PROVE  StripeInv'
  <1>1. StripeOK' /\ Advances
    BY StillStripe DEF StripeInv
  <1>2. RowOK'
    BY <1>1, RowStays DEF StripeInv
  <1>3. TaskOK(k)'
    BY <1>1, TaskStays DEF StripeInv
  <1>4. TasksOK'
    BY <1>1, <1>3, OthersStay DEF StripeInv, Becomes
  <1>5. SentOK'
    BY DEF StripeInv, SentOK, Sound, Refunded, stripe
  <1> QED BY <1>1, <1>2, <1>4, <1>5 DEF StripeInv

LEMMA StripeKeeps ==
    ASSUME StripeInv, Stripe
    PROVE  StripeInv'
  <1>1. Works /\ \E a : StripeSends(a)
    BY StripeStep DEF StripeInv
  <1>2. PICK a : StripeSends(a)
    BY <1>1
  <1>3. a \in [type : EventTypes, total : Nat] /\ Sends(a) /\ Advances /\ StripeOK'
    BY <1>2 DEF StripeSends, Sends
  <1>4. UNCHANGED <<claimed, row, invoicePaid, task, dropped, early, behind>>
    BY <1>1 DEF Works, history
  <1>5. SentOK'
    BY <1>3, <1>4, SendsSent DEF StripeInv
  <1>6. RowOK' /\ TasksOK'
    BY <1>3, <1>4, RowStays, AllStay DEF StripeInv
  <1>7. HistoryOK'
    BY <1>4 DEF StripeInv, HistoryOK
  <1> QED BY <1>3, <1>5, <1>6, <1>7 DEF StripeInv

LEMMA RefundSends ==
    ASSUME StripeInv, CreateRefund
    PROVE  \E a : StripeSends(a)
  <1>1. PICK k \in Handling : k = task[Desk] /\ TaskOK(k) /\ k.at = "refund"
    BY DEF StripeInv, TasksOK, CreateRefund, At, Tasks
  <1>2. k.about.total \in Nat /\ k.about.total > 0 /\ GivesBack(k.about.total)
    BY <1>1 DEF TaskOK, Handling, Abouts, CreateRefund
  <1> QED BY <1>2, GivesBackSends DEF StripeInv

LEMMA CreateRefundKeeps ==
    ASSUME StripeInv, CreateRefund
    PROVE  StripeInv'
  <1> PICK k : k = task[Desk]
    OBVIOUS
  <1>p. PICK l : l = [k EXCEPT !.at = "write"]
    OBVIOUS
  <1>1. Desk \in Tasks /\ k \in Handling /\ TaskOK(k) /\ k.at = "refund"
    BY <1>p DEF StripeInv, TasksOK, CreateRefund, At, Tasks
  <1>2. /\ l \in Handling /\ l.at = "write" /\ l.about = k.about /\ l.seen = k.seen
        /\ l.current = k.current
    BY <1>p, <1>1 DEF Handling
  <1>3. /\ k.about.type = "refund" /\ k.about.total > 0 /\ k.about.total \in Nat
        /\ SeenOK(k) /\ Sound(k.about) /\ Counts(k.seen.status) /\ k.seen.refunded \in Nat
        /\ k.seen.refunded + k.about.total <= Charged
    BY <1>p, <1>1 DEF TaskOK, Handling, Abouts, Rows
  <1>4. GivesBack(k.about.total) /\ task' = [task EXCEPT ![Desk] = l]
        /\ UNCHANGED <<claimed, row, invoicePaid, dropped, early, behind>>
    BY <1>p DEF CreateRefund, Becomes, history
  <1>5. PICK a : StripeSends(a)
    BY RefundSends
  <1>6. a \in [type : EventTypes, total : Nat] /\ Sends(a) /\ Advances /\ StripeOK'
    BY <1>5 DEF StripeSends, Sends
  <1>7. SentOK'
    BY <1>4, <1>6, SendsSent DEF StripeInv
  <1>8. RowOK'
    BY <1>4, <1>6, RowStays DEF StripeInv
  <1>9. TaskOK(l)'
    <2>1. SeenOK(l)'
      BY <1>1, <1>2, <1>3, <1>4, <1>6, TaskStays DEF StripeInv, TaskOK, SeenOK, Shape
    <2>2. k.seen.refunded + k.about.total <= Refunded'
      <3>1. /\ k.seen.refunded <= Refunded /\ Refunded \in Nat
            /\ Refunded' = Refunded + k.about.total
        BY <1>3, <1>4, ChargedAssumption DEF SeenOK, GivesBack, StripeInv, StripeOK, Refunded
      <3> QED BY <1>3, <3>1
    <2>3. Sound(l.about)'
      BY <1>2, <1>3 DEF Sound, OfDispute
    <2> QED BY <1>2, <1>3, <2>1, <2>2, <2>3 DEF TaskOK, Counts
  <1>10. TasksOK'
    BY <1>1, <1>2, <1>4, <1>6, <1>9, OthersStay DEF StripeInv
  <1>11. HistoryOK'
    BY <1>4 DEF StripeInv, HistoryOK
  <1> QED BY <1>6, <1>7, <1>8, <1>10, <1>11 DEF StripeInv

LEMMA WriteKeeps ==
    ASSUME StripeInv, NEW t \in Tasks, Write(t)
    PROVE  StripeInv'
  <1>1. RowOK' /\ Effect(task[t])
    BY WriteEffect
  <1>2. /\ UNCHANGED <<stripe, sent, undelivered, claimed, invoicePaid, dropped, early, behind>>
        /\ task' = [u \in Tasks |-> IF u = t THEN [Idle EXCEPT !.at = "sum"]
                                    ELSE IF HasRead(u) THEN [task[u] EXCEPT !.current = FALSE]
                                    ELSE task[u]]
    BY DEF Write, events, history
  <1>3. StripeOK' /\ Advances
    BY <1>2, StillStripe DEF StripeInv
  <1>4. SentOK'
    BY <1>2 DEF StripeInv, SentOK, Sound, Refunded, stripe
  <1>5. row.status \in Collected => row'.status \in Collected
    BY <1>1 DEF Effect
  <1>6. ASSUME NEW u \in Tasks PROVE task'[u] \in Handling /\ TaskOK(task[u])'
    <2> PICK k : k = task[u]
      OBVIOUS
    <2>1. k \in Handling /\ TaskOK(k)
      BY DEF StripeInv, TasksOK
    <2>2. CASE u = t
      <3>p. PICK l : l = [Idle EXCEPT !.at = "sum"]
        OBVIOUS
      <3>1. l \in Handling /\ l.at = "sum" /\ l.about.type = "none"
        BY <3>p, IdleOK DEF Handling, Idle, Nothing
      <3>2. TaskOK(l)'
        BY <3>p, <3>1 DEF TaskOK, Sound, OfDispute
      <3>3. task'[u] = l
        BY <3>p, <1>2, <2>2
      <3> QED BY <3>1, <3>2, <3>3 DEF TaskOK, Sound, SeenOK, Shape, Counts
    <2>3. CASE u # t /\ HasRead(u)
      <3>p. PICK l : l = [k EXCEPT !.current = FALSE]
        OBVIOUS
      <3>1. /\ l \in Handling /\ l.at = k.at /\ l.about = k.about /\ l.seen = k.seen
            /\ l.current = FALSE
        BY <3>p, <2>1 DEF Handling
      <3>2. TaskOK(l)'
        BY <3>p, <1>2, <1>5, <2>1, <3>1 DEF TaskOK, Sound, SeenOK, Shape, Counts, Refunded, stripe
      <3>3. task'[u] = l
        BY <3>p, <1>2, <2>3
      <3> QED BY <3>1, <3>2, <3>3 DEF TaskOK, Sound, SeenOK, Shape, Counts
    <2>4. CASE u # t /\ ~HasRead(u)
      <3>1. task'[u] = k
        BY <1>2, <2>4
      <3>2. TaskOK(k)'
        BY <1>2, <2>1, <2>4 DEF TaskOK, Sound, Refunded, stripe, HasRead
      <3> QED BY <2>1, <3>1, <3>2 DEF TaskOK, Sound, SeenOK, Shape, Counts
    <2> QED BY <2>2, <2>3, <2>4
  <1>7. task' = [u \in Tasks |-> task'[u]]
    BY <1>2
  <1>8. TasksOK'
    BY <1>6, <1>7 DEF TasksOK
  <1>9. HistoryOK'
    BY <1>2 DEF StripeInv, HistoryOK
  <1> QED BY <1>1, <1>3, <1>4, <1>8, <1>9 DEF StripeInv

LEMMA BeginsKeeps ==
    ASSUME StripeInv, NEW i \in Ids, Receive(i) \/ SendAgain(i)
    PROVE  StripeInv'
  <1>1. i \in Tasks /\ i \in Nat
    BY BoundsAssumption DEF Tasks, Ids
  <1>2. UNCHANGED <<stripe, row, sent, invoicePaid, dropped, behind>>
    BY DEF Receive, SendAgain, history
  <1>3. undelivered \subseteq 1 .. Len(sent) /\ claimed \subseteq 1 .. Len(sent)
    BY DEF StripeInv, SentOK
  <1>4. undelivered' \subseteq 1 .. Len(sent) /\ claimed' \subseteq 1 .. Len(sent) /\ early' \in BOOLEAN
    BY <1>3 DEF Receive, SendAgain, StripeInv, HistoryOK, history
  <1>5. HistoryOK'
    BY <1>2, <1>4 DEF StripeInv, HistoryOK
  <1>6. CASE UNCHANGED task
    <2> PICK k : k = task[i]
      OBVIOUS
    <2>1. k \in Handling /\ TaskOK(k) /\ task' = [task EXCEPT ![i] = k]
      BY <1>1, <1>6 DEF StripeInv, TasksOK
    <2> QED BY <1>1, <1>2, <1>4, <1>5, <2>1, TaskMoves DEF Becomes
  <1>7. CASE ~UNCHANGED task
    <2>p. PICK k : k = [Idle EXCEPT !.at = "write", !.about = sent[i], !.seen = row]
      OBVIOUS
    <2> PICK a : a = sent[i]
      OBVIOUS
    <2>1. Becomes(i, k) /\ i \in undelivered
      BY <2>p, <1>7 DEF Receive, SendAgain
    <2>2. a \in [type : EventTypes, total : Nat] /\ Sound(a)
      BY <1>3, <2>1, EventSent DEF StripeInv
    <2>3. row \in Rows
      BY <2>p DEF StripeInv, RowOK
    <2>4. a \in Abouts /\ a.type # "none" /\ a.type # "refund"
      BY <2>p, <2>2 DEF Abouts, EventTypes
    <2>5. /\ k \in Handling /\ k.at = "write" /\ k.about = a /\ k.seen = row
      BY <2>p, <2>3, <2>4, IdleOK DEF Handling, Idle
    <2>6. SeenOK(k)
      BY <2>5, FreshSeen DEF StripeInv
    <2>7. TaskOK(k)
      BY <2>2, <2>4, <2>5, <2>6 DEF TaskOK
    <2> QED BY <1>1, <1>2, <1>4, <1>5, <2>1, <2>5, <2>7, TaskMoves
  <1> QED BY <1>6, <1>7

LEMMA AskKeeps ==
    ASSUME StripeInv, NEW t \in Tasks, Ask(t)
    PROVE  StripeInv'
  <1> PICK a : a = Event(Answer(t))
    OBVIOUS
  <1>p. PICK k : k = [Idle EXCEPT !.at = "resolve", !.about = a]
    OBVIOUS
  <1>1. /\ UNCHANGED <<stripe, row, sent, undelivered, claimed, invoicePaid, dropped, early, behind>>
        /\ Becomes(t, k) /\ Answer(t) # "none"
    BY <1>p DEF Ask, events, history
  <1>2. /\ Answer(t) \in {"payment_failed", "processing", "canceled", "succeeded"}
        /\ Answer(t) = "succeeded" => intent = "succeeded"
    BY <1>p, <1>1 DEF Answer, StripeInv, StripeOK, Intents
  <1>3. a \in Abouts /\ a.type = Answer(t)
    BY <1>p, <1>2 DEF Event, Abouts, EventTypes
  <1>4. k \in Handling /\ k.at = "resolve" /\ k.about = a
    BY <1>p, <1>3, IdleOK DEF Handling, Idle
  <1>5. TaskOK(k)
    BY <1>2, <1>3, <1>4 DEF TaskOK, Sound, OfDispute
  <1>6. HistoryOK'
    BY <1>1 DEF StripeInv, HistoryOK
  <1> QED BY <1>1, <1>4, <1>5, <1>6, TaskMoves DEF StripeInv, SentOK

LEMMA RefundKeeps ==
    ASSUME StripeInv, Refund
    PROVE  StripeInv'
  <1>1. Desk \in Tasks /\ row \in Rows /\ row.refunded \in Nat
    BY DEF Tasks, StripeInv, RowOK, Rows
  <1>2. PICK amount \in 1 .. Net(row) :
          Becomes(Desk, [Idle EXCEPT !.at = "refund", !.seen = row,
                             !.about = [type |-> "refund", total |-> amount]])
    BY DEF Refund
  <1>p. PICK k : k = [Idle EXCEPT !.at = "refund", !.seen = row,
                             !.about = [type |-> "refund", total |-> amount]]
    OBVIOUS
  <1>3. UNCHANGED <<stripe, row, sent, undelivered, claimed, invoicePaid, dropped, early, behind>>
    BY <1>p DEF Refund, events, history
  <1>4. Counts(row.status) /\ amount \in Nat /\ amount > 0 /\ row.refunded + amount <= Charged
    BY <1>p, <1>1, ChargedAssumption DEF Net
  <1>5. /\ k \in Handling /\ k.at = "refund" /\ k.seen = row
        /\ k.about.type = "refund" /\ k.about.total = amount
    BY <1>p, <1>1, <1>4, IdleOK DEF Handling, Idle, Abouts
  <1>6. Becomes(Desk, k)
    BY <1>p, <1>2
  <1>7. SeenOK(k)
    BY <1>5, FreshSeen DEF StripeInv
  <1>8. TaskOK(k)
    BY <1>4, <1>5, <1>7 DEF TaskOK, Sound, OfDispute
  <1>9. HistoryOK'
    BY <1>3 DEF StripeInv, HistoryOK
  <1> QED BY <1>1, <1>3, <1>5, <1>6, <1>8, <1>9, TaskMoves DEF StripeInv, SentOK

LEMMA NetType ==
    ASSUME NEW p \in Rows
    PROVE  Net(p) \in 0 .. Charged
  BY ChargedAssumption DEF Rows, Net

LEMMA HandlingKeeps ==
    ASSUME StripeInv, NEW t \in Tasks,
           Resolve(t) \/ Pass(t) \/ Conflict(t) \/ ConflictAgain(t) \/ SumLedger(t) \/ ApplyAmountPaid(t)
           \/ Fail(t) \/ Die(t) \/ (t = Desk /\ RefundRefused)
    PROVE  StripeInv'
  <1> PICK k : k = task[t]
    OBVIOUS
  <1>0. k \in Handling /\ TaskOK(k) /\ row \in Rows /\ Net(row) \in 0 .. Charged
    BY NetType DEF StripeInv, TasksOK, RowOK
  <1>1. UNCHANGED <<stripe, row, sent, undelivered>> /\ claimed' \subseteq claimed
    BY DEF Resolve, Pass, Conflict, ConflictAgain, SumLedger, ApplyAmountPaid, Fail, Die, RefundRefused,
       Throws, events
  <1>2. claimed' \subseteq 1 .. Len(sent) /\ undelivered' \subseteq 1 .. Len(sent)
    BY <1>1 DEF StripeInv, SentOK
  <1>3. invoicePaid' \in 0 .. Charged
    <2>1. CASE ApplyAmountPaid(t)
      BY <1>0, <2>1 DEF ApplyAmountPaid, Sum, Handling
    <2>2. CASE ~ApplyAmountPaid(t)
      BY <2>2 DEF Resolve, Pass, Conflict, ConflictAgain, SumLedger, Fail, Die, RefundRefused,
         Throws, StripeInv, HistoryOK
    <2> QED BY <2>1, <2>2
  <1>4. dropped' \in BOOLEAN /\ early' \in BOOLEAN /\ behind' \in BOOLEAN
    BY DEF Resolve, Pass, Conflict, ConflictAgain, SumLedger, ApplyAmountPaid, Fail, Die, RefundRefused,
       Throws, MissesInvoice, history, StripeInv, HistoryOK
  <1>5. HistoryOK'
    BY <1>3, <1>4 DEF HistoryOK
  <1>6. CASE Ends(t)
    BY <1>1, <1>2, <1>5, <1>6, IdleOK, TaskMoves DEF Ends
  <1>7. CASE Resolve(t)
    <2>p. PICK l : l = [k EXCEPT !.at = "write", !.seen = row, !.current = TRUE]
      OBVIOUS
    <2>1. Becomes(t, l) /\ k.at = "resolve"
      BY <2>p, <1>7 DEF Resolve, At
    <2>2. l \in Handling /\ l.at = "write" /\ l.about = k.about /\ l.seen = row
      BY <2>p, <1>0 DEF Handling
    <2>3. SeenOK(l)
      BY <2>2, FreshSeen DEF StripeInv
    <2>4. TaskOK(l)
      BY <1>0, <2>1, <2>2, <2>3 DEF TaskOK
    <2> QED BY <1>1, <1>2, <1>5, <2>1, <2>2, <2>4, TaskMoves
  <1>8. CASE Conflict(t)
    <2>p. PICK l : l = [k EXCEPT !.at = "resolve", !.conflicts = @ + 1]
      OBVIOUS
    <2>1. Becomes(t, l) /\ k.at = "write" /\ k.conflicts < 1 /\ k.about.type # "refund"
      BY <2>p, <1>8 DEF Conflict, At, AnswersConflict
    <2>2. l \in Handling /\ l.at = "resolve" /\ l.about = k.about
      <3>1. k.conflicts \in {0, 1}
        BY <1>0 DEF Handling
      <3>2. k.conflicts + 1 \in {0, 1}
        BY <2>1, <3>1
      <3> QED BY <2>p, <1>0, <3>2 DEF Handling
    <2>3. TaskOK(l)
      BY <1>0, <2>1, <2>2 DEF TaskOK
    <2> QED BY <1>1, <1>2, <1>5, <2>1, <2>2, <2>3, TaskMoves
  <1>9. CASE SumLedger(t)
    <2>p. PICK l : l = [k EXCEPT !.at = "apply", !.sum = Net(row)]
      OBVIOUS
    <2>1. Becomes(t, l)
      BY <2>p, <1>9 DEF SumLedger
    <2>2. l \in Handling /\ l.at = "apply" /\ l.about = k.about
      BY <2>p, <1>0 DEF Handling
    <2>3. TaskOK(l)
      BY <1>0, <2>2 DEF TaskOK
    <2> QED BY <1>1, <1>2, <1>5, <2>1, <2>2, <2>3, TaskMoves
  <1> QED BY <1>6, <1>7, <1>8, <1>9 DEF Pass, ConflictAgain, ApplyAmountPaid, Fail, Die, RefundRefused, Throws

LEMMA IdleKeeps ==
    ASSUME StripeInv, UNCHANGED vars
    PROVE  StripeInv'
  <1> PICK k : k = task[Desk]
    OBVIOUS
  <1>1. Desk \in Tasks
    BY DEF Tasks
  <1>2. k \in Handling /\ TaskOK(k) /\ task' = [task EXCEPT ![Desk] = k]
    BY <1>1 DEF StripeInv, TasksOK, vars
  <1>3. HistoryOK'
    BY DEF StripeInv, HistoryOK, vars, history
  <1> QED BY <1>1, <1>2, <1>3, TaskMoves DEF Becomes, vars, events, StripeInv, SentOK

LEMMA InitStripe == Init => StripeInv
  <1> SUFFICES ASSUME Init PROVE StripeInv
    OBVIOUS
  <1>1. /\ intent \in {"waiting", "succeeded"} /\ returned \in 0 .. Charged /\ dispute = "none"
        /\ bounced = 0
        /\ returned > 0 => intent = "succeeded"
        /\ row.refunded = returned /\ row \in Rows
        /\ row.status = IF intent # "succeeded" THEN "pending"
                        ELSE IF returned = Charged THEN "refunded" ELSE "settled"
        /\ invoicePaid \in 0 .. Charged
    BY ChargedAssumption DEF Init, NewRow, Rows, Statuses
  <1>2. StripeOK
    BY <1>1, ChargedAssumption DEF StripeOK, Intents, Disputes
  <1>3. SentOK
    BY BoundsAssumption DEF Init, SentOK
  <1>4. RowOK
    BY <1>1, ChargedAssumption DEF RowOK, Shape, LedgerIsTrue, Refunded
  <1>5. TasksOK
    BY IdleOK DEF Init, TasksOK
  <1>6. HistoryOK
    BY <1>1 DEF HistoryOK, Init
  <1> QED BY <1>2, <1>3, <1>4, <1>5, <1>6 DEF StripeInv

LEMMA NextInv == StripeInv /\ [Next]_vars => StripeInv'
  <1> SUFFICES ASSUME StripeInv, [Next]_vars PROVE StripeInv'
    OBVIOUS
  <1>1. Desk \in Tasks
    BY DEF Tasks
  <1>2. CASE Stripe
    BY <1>2, StripeKeeps
  <1>3. ASSUME NEW i \in Ids, Receive(i) \/ SendAgain(i) PROVE StripeInv'
    BY <1>3, BeginsKeeps
  <1>4. ASSUME NEW t \in Tasks, Ask(t) \/ Handle(t) \/ Fail(t) \/ Die(t) PROVE StripeInv'
    BY <1>4, AskKeeps, WriteKeeps, HandlingKeeps DEF Handle
  <1>5. CASE Refund
    BY <1>5, RefundKeeps
  <1>6. CASE CreateRefund
    BY <1>6, CreateRefundKeeps
  <1>7. CASE RefundRefused
    BY <1>1, <1>7, HandlingKeeps
  <1>8. CASE UNCHANGED vars
    BY <1>8, IdleKeeps
  <1> QED BY <1>2, <1>3, <1>4, <1>5, <1>6, <1>7, <1>8 DEF Next

LEMMA StripeInvariant == Spec => []StripeInv
  BY InitStripe, NextInv, PTL DEF Spec

---------------------------------------------------------------------------
(* The ledger. *)

\* The state of a payment is of the types its rows and fields have, whatever is
\* handled beside what, and a version conflict is answered at most once.
THEOREM PaymentTypes == Spec => []StripeTypeOK
  <1>1. StripeInv => StripeTypeOK
    <2> SUFFICES ASSUME StripeInv PROVE StripeTypeOK
      OBVIOUS
    <2>1. ASSUME NEW t \in Tasks
          PROVE  /\ task[t].at \in {"idle", "refund", "resolve", "write", "sum", "apply"}
                 /\ task[t].seen \in Rows /\ task[t].conflicts \in {0, 1} /\ task[t].sum \in 0 .. Charged
      <3>1. task[t] \in Handling
        BY DEF StripeInv, TasksOK
      <3> QED BY <3>1 DEF Handling
    <2> QED BY <2>1 DEF StripeInv, StripeOK, SentOK, RowOK, HistoryOK, StripeTypeOK, Intents, Disputes
  <1> QED BY <1>1, StripeInvariant, PTL

\* The row says that money was collected or taken back only when Stripe did so, and
\* never that more was given back than Stripe made refunds of, those that failed
\* later included, for events in any order and number and tasks that read and write
\* between each other's steps.
THEOREM LedgerStaysTrue == Spec => []LedgerIsTrue
  <1>1. StripeInv => LedgerIsTrue
    BY DEF StripeInv, RowOK
  <1> QED BY <1>1, StripeInvariant, PTL

\* Only a task that asserts a status writes the row.
LEMMA RowChanges ==
    ASSUME [Next]_vars, row' # row
    PROVE  \E t \in Tasks : Write(t)
  <1>1. ~Stripe
    BY DEF Stripe, IntentProcesses, IntentDeclined, IntentCanceled, IntentSucceeds,
       RefundedInDashboard, RefundFails, DisputeOpens, DisputeCloses, Works
  <1>2. ~UNCHANGED vars /\ ~Refund /\ ~CreateRefund /\ ~RefundRefused
    BY DEF vars, Refund, CreateRefund, RefundRefused
  <1>3. ASSUME NEW i \in Ids PROVE ~Receive(i) /\ ~SendAgain(i)
    BY DEF Receive, SendAgain
  <1>4. ASSUME NEW t \in Tasks, Ask(t) \/ Handle(t) \/ Fail(t) \/ Die(t) PROVE Write(t)
    BY <1>4 DEF Ask, Handle, Fail, Die, Resolve, Pass, Conflict, ConflictAgain, SumLedger,
       ApplyAmountPaid, Throws
  <1> QED BY <1>1, <1>2, <1>3, <1>4 DEF Next

\* No step takes a collected payment back to pending or failed, and one that was
\* taken back counts again only when the dispute was won.
THEOREM CollectedForGood == Spec => CollectedStays
  <1> DEFINE Stays ==
        /\ row.status \in {"settled", "refunded", "reversed"}
             => row'.status \in {"settled", "refunded", "reversed"}
        /\ row.status = "reversed" /\ row'.status # "reversed" => dispute = "won"
  <1>1. StripeInv /\ [Next]_vars => [Stays]_vars
    <2> SUFFICES ASSUME StripeInv, [Next]_vars PROVE Stays
      OBVIOUS
    <2>1. CASE row' = row
      BY <2>1
    <2>2. CASE row' # row
      <3>1. PICK t \in Tasks : Write(t)
        BY <2>2, RowChanges
      <3>2. Effect(task[t])
        BY <3>1, WriteEffect
      <3>3. Sound(task[t].about)
        BY DEF StripeInv, TasksOK, TaskOK
      <3> QED BY <3>2, <3>3 DEF Effect, Sound, OfDispute, Collected
    <2> QED BY <2>1, <2>2
  <1> QED BY <1>1, StripeInvariant, PTL DEF Spec, CollectedStays

---------------------------------------------------------------------------
(* The invoice. *)

\* An event in hand is claimed.
OwnsTasks == \A i \in Ids : task[i] # Idle => i \in claimed

LEMMA OwnsStep ==
    ASSUME StripeInv, OwnsTasks, [Next]_vars
    PROVE  OwnsTasks'
  <1>0. task \in [Tasks -> Handling]
    BY DEF StripeInv, TasksOK
  <1>1. ASSUME UNCHANGED task, claimed \subseteq claimed' PROVE OwnsTasks'
    BY <1>1 DEF OwnsTasks
  <1>2. ASSUME NEW t \in Tasks, claimed \ {t} \subseteq claimed',
               \A u \in Tasks \ {t} : task[u] = Idle => task'[u] = Idle,
               t \in Ids => task'[t] = Idle \/ t \in claimed'
        PROVE  OwnsTasks'
    BY <1>2 DEF OwnsTasks, Tasks
  <1>3. ASSUME NEW t \in Tasks, NEW k, task' = [task EXCEPT ![t] = k], claimed \ {t} \subseteq claimed',
               t \in Ids => k = Idle \/ t \in claimed'
        PROVE  OwnsTasks'
    BY <1>0, <1>2, <1>3
  <1>4. CASE Stripe \/ UNCHANGED vars
    BY <1>1, <1>4, StripeStep DEF StripeInv, Works, vars
  <1>5. ASSUME NEW i \in Ids, Receive(i) \/ SendAgain(i) PROVE OwnsTasks'
    <2>1. CASE UNCHANGED task
      BY <1>1, <1>5, <2>1 DEF Receive, SendAgain
    <2>2. CASE ~UNCHANGED task
      BY <1>3, <1>5, <2>2 DEF Receive, SendAgain, Becomes, Tasks
    <2> QED BY <2>1, <2>2
  <1>6. ASSUME NEW t \in Tasks, Ask(t) PROVE OwnsTasks'
    <2>1. t \notin Ids
      BY <1>6, TasksAssumption, BoundsAssumption DEF Ask, Ids
    <2> QED BY <1>3, <1>6, <2>1 DEF Ask, Becomes
  <1>7. CASE Refund \/ CreateRefund \/ RefundRefused
    <2>1. Desk \notin Ids /\ Desk \in Tasks
      BY TasksAssumption, BoundsAssumption DEF Ids, Tasks
    <2> QED BY <1>3, <1>7, <2>1 DEF Refund, CreateRefund, RefundRefused, Becomes, Ends
  <1>8. ASSUME NEW t \in Tasks, Resolve(t) \/ Conflict(t) \/ SumLedger(t) PROVE OwnsTasks'
    <2>1. t \in Ids => t \in claimed
      BY <1>8 DEF OwnsTasks, Resolve, Conflict, SumLedger, At, Idle
    <2> QED BY <1>3, <1>8, <2>1 DEF Resolve, Conflict, SumLedger, Becomes
  <1>9. ASSUME NEW t \in Tasks, Pass(t) \/ ConflictAgain(t) \/ ApplyAmountPaid(t) \/ Fail(t) \/ Die(t)
        PROVE  OwnsTasks'
    <2>1. Becomes(t, Idle) /\ claimed \ {t} \subseteq claimed'
      BY <1>9 DEF Pass, ConflictAgain, ApplyAmountPaid, Fail, Die, Throws, Ends
    <2> QED BY <1>3, <2>1 DEF Becomes
  <1>10. ASSUME NEW t \in Tasks, Write(t) PROVE OwnsTasks'
    <2>1. t \in Ids => t \in claimed
      BY <1>10 DEF OwnsTasks, Write, At, Idle
    <2>2. ASSUME NEW u \in Tasks \ {t}, task[u] = Idle PROVE task'[u] = Idle
      <3>1. ~HasRead(u)
        BY <2>2 DEF HasRead, Idle
      <3> QED BY <1>10, <2>2, <3>1 DEF Write
    <2> QED BY <1>2, <1>10, <2>1, <2>2 DEF Write
  <1> QED BY <1>4, <1>5, <1>6, <1>7, <1>8, <1>9, <1>10 DEF Next, Handle

\* The amount paid is that of the ledger, or somebody is about to see to it.
SeesToIt(t) == At(t, "sum") \/ (At(t, "apply") /\ task[t].sum = Net(row))

InvoiceInv == ~behind => invoicePaid = Net(row) \/ \E t \in Tasks : SeesToIt(t)

LEMMA InvoiceStep ==
    ASSUME StripeInv, OwnsTasks, InvoiceInv, [Next]_vars
    PROVE  InvoiceInv'
  <1>0. task \in [Tasks -> Handling] /\ behind \in BOOLEAN
    BY DEF StripeInv, TasksOK, HistoryOK
  <1>1. ASSUME UNCHANGED <<invoicePaid, row>>, behind => behind',
               \A t \in Tasks : ~behind' /\ SeesToIt(t) => SeesToIt(t)'
        PROVE  InvoiceInv'
    BY <1>0, <1>1 DEF InvoiceInv
  <1>2. ASSUME UNCHANGED <<invoicePaid, row>>, behind => behind', NEW t \in Tasks, NEW k,
               task' = [task EXCEPT ![t] = k], ~behind' => ~SeesToIt(t)
        PROVE  InvoiceInv'
    <2>1. ASSUME NEW u \in Tasks, ~behind', SeesToIt(u) PROVE SeesToIt(u)'
      BY <1>0, <1>2, <2>1 DEF SeesToIt, At
    <2> QED BY <1>1, <1>2, <2>1
  <1>3. CASE Stripe \/ UNCHANGED vars
    <2>1. UNCHANGED <<invoicePaid, row, task, behind>>
      BY <1>3, StripeStep DEF StripeInv, Works, history, vars
    <2> QED BY <1>1, <2>1 DEF SeesToIt, At
  <1>4. ASSUME NEW i \in Ids, Receive(i) \/ SendAgain(i) PROVE InvoiceInv'
    <2>1. CASE UNCHANGED task
      BY <1>1, <1>4, <2>1 DEF Receive, SendAgain, SeesToIt, At, history
    <2>2. CASE ~UNCHANGED task
      <3>1. task[i] = Idle /\ i \in Tasks
        BY <1>4, <2>2 DEF Receive, SendAgain, OwnsTasks, Tasks
      <3>2. ~SeesToIt(i)
        BY <3>1 DEF SeesToIt, At, Idle
      <3> QED BY <1>2, <1>4, <2>2, <3>1, <3>2 DEF Receive, SendAgain, Becomes
    <2> QED BY <2>1, <2>2
  <1>5. ASSUME NEW t \in Tasks,
               \/ Ask(t) \/ Resolve(t) \/ Pass(t) \/ Conflict(t) \/ ConflictAgain(t)
               \/ (t = Desk /\ (Refund \/ CreateRefund \/ RefundRefused))
        PROVE  InvoiceInv'
    <2>1. ~SeesToIt(t)
      BY <1>5 DEF SeesToIt, At, Ask, Resolve, Pass, Conflict, ConflictAgain, Refund, CreateRefund, RefundRefused
    <2>2. UNCHANGED <<invoicePaid, row, behind>>
      BY <1>5 DEF Ask, Resolve, Pass, Conflict, ConflictAgain, Throws, Refund, CreateRefund, RefundRefused, history
    <2>3. \E k : task' = [task EXCEPT ![t] = k]
      BY <1>5, Zenon DEF Ask, Resolve, Pass, Conflict, ConflictAgain, Throws, Ends, Becomes,
         Refund, CreateRefund, RefundRefused
    <2> QED BY <1>2, <2>1, <2>2, <2>3
  <1>6. ASSUME NEW t \in Tasks, Fail(t) \/ Die(t) PROVE InvoiceInv'
    <2>1. UNCHANGED <<invoicePaid, row>> /\ task' = [task EXCEPT ![t] = Idle] /\ MissesInvoice(t)
      BY <1>6 DEF Fail, Die, Throws, Ends, Becomes
    <2>2. behind => behind'
      BY <2>1 DEF MissesInvoice
    <2>3. ~behind' => ~SeesToIt(t)
      BY <2>1 DEF MissesInvoice, SeesToIt, At
    <2> QED BY <1>2, <2>1, <2>2, <2>3
  <1>7. ASSUME NEW t \in Tasks, Write(t) PROVE InvoiceInv'
    <2>1. task'[t].at = "sum"
      BY <1>7, IdleOK DEF Write, Handling, Idle
    <2> QED BY <2>1 DEF InvoiceInv, SeesToIt, At
  <1>8. ASSUME NEW t \in Tasks, SumLedger(t) PROVE InvoiceInv'
    <2>1. task'[t].at = "apply" /\ task'[t].sum = Net(row) /\ row' = row
      BY <1>0, <1>8 DEF SumLedger, Becomes, Handling
    <2>2. Net(row)' = Net(row)
      BY <2>1 DEF Net
    <2> QED BY <2>1, <2>2 DEF InvoiceInv, SeesToIt, At
  <1>9. ASSUME NEW t \in Tasks, ApplyAmountPaid(t) PROVE InvoiceInv'
    <2>1. /\ task[t].at = "apply" /\ invoicePaid' = task[t].sum /\ row' = row
          /\ behind' = (task[t].sum # Net(row) /\ (behind \/ invoicePaid = Net(row)))
          /\ task' = [task EXCEPT ![t] = Idle] /\ Net(row)' = Net(row)
      BY <1>9 DEF ApplyAmountPaid, At, Sum, Ends, Becomes, Net
    <2>2. CASE task[t].sum = Net(row)
      BY <2>1, <2>2 DEF InvoiceInv
    <2>3. CASE task[t].sum # Net(row) /\ ~behind'
      <3>1. PICK u \in Tasks : SeesToIt(u)
        BY <2>1, <2>3 DEF InvoiceInv
      <3>2. u # t
        BY <2>1, <2>3, <3>1 DEF SeesToIt, At
      <3>3. SeesToIt(u)'
        BY <1>0, <2>1, <3>1, <3>2 DEF SeesToIt, At
      <3> QED BY <3>3 DEF InvoiceInv
    <2>4. CASE behind'
      BY <2>4 DEF InvoiceInv
    <2> QED BY <2>1, <2>2, <2>3, <2>4
  <1>10. Desk \in Tasks
    BY DEF Tasks
  <1> QED BY <1>3, <1>4, <1>5, <1>6, <1>7, <1>8, <1>9, <1>10 DEF Next, Handle

\* When nothing is being handled the invoice has the sum of its ledger, unless a
\* change was not followed through or an older sum was written last.
THEOREM InvoiceFollows == Spec => []InvoiceCatchesUp
  <1>1. Init => OwnsTasks /\ InvoiceInv
    <2> SUFFICES ASSUME Init PROVE OwnsTasks /\ InvoiceInv
      OBVIOUS
    <2>1. OwnsTasks
      BY DEF Init, OwnsTasks, Tasks
    <2>2. invoicePaid = Net(row)
      BY ChargedAssumption DEF Init, NewRow, Net, Counts
    <2> QED BY <2>1, <2>2 DEF InvoiceInv
  <1>2. StripeInv /\ OwnsTasks /\ InvoiceInv /\ [Next]_vars => OwnsTasks' /\ InvoiceInv'
    BY OwnsStep, InvoiceStep
  <1>3. StripeInv /\ InvoiceInv => InvoiceCatchesUp
    BY DEF InvoiceInv, InvoiceCatchesUp, SeesToIt, At, Idle
  <1> QED BY <1>1, <1>2, <1>3, StripeInvariant, PTL DEF Spec

---------------------------------------------------------------------------
(* The order of the events. *)

\* The order in which Stripe makes events.
Follows(e, f) ==
    \/ e.type = "succeeded" /\ f.type \in {"charge.refunded"} \cup OfDispute
    \/ e.type = "dispute.created" /\ f.type \in {"dispute.won", "dispute.lost"}

OfRefund(i) == sent[i].type = "charge.refunded"

\* Money is given back before a dispute or after one that was won.
EventsOrder ==
    \A i, j \in 1 .. Len(sent) :
       /\ Follows(sent[i], sent[j]) => i < j
       /\ sent[i].type = "dispute.won" /\ sent[j].type = "dispute.won" => i = j
       /\ sent[i].type \in OfDispute /\ OfRefund(j) /\ i < j =>
            \E w \in 1 .. Len(sent) : w < j /\ sent[w].type = "dispute.won"

\* What Stripe did, an event tells; the last one of money given back has the total.
EventsTell ==
    /\ (\E i \in 1 .. Len(sent) : OfRefund(i)) =>
         \E i \in 1 .. Len(sent) :
            OfRefund(i) /\ sent[i].total >= returned /\ \A j \in i + 1 .. Len(sent) : ~OfRefund(j)
    /\ dispute # "none" => \E i \in 1 .. Len(sent) : sent[i].type = "dispute.created"
    /\ dispute = "won" => \E i \in 1 .. Len(sent) : sent[i].type = "dispute.won"

StripeOrder == EventsOrder /\ EventsTell

LEMMA OrderSends ==
    ASSUME StripeOK, SentOK, StripeOrder, NEW a, StripeSends(a)
    PROVE  StripeOrder'
  <1>1. /\ a \in [type : EventTypes, total : Nat] /\ sent' = Append(sent, a) /\ Sound(a)'
        /\ Advances /\ returned \in Nat /\ returned' \in Nat /\ a.total \in Nat
    BY ChargedAssumption DEF StripeSends, Sends, StripeOK
  <1>2. PICK n \in Nat : n = Len(sent)
    BY DEF SentOK
  <1>3. /\ Len(sent') = n + 1
        /\ \A i \in 1 .. n : sent'[i] = sent[i]
        /\ sent'[n + 1] = a
    BY <1>1, <1>2, SentAfter
  <1>4. /\ n + 1 \in 1 .. n + 1 /\ 1 .. n \subseteq 1 .. n + 1
        /\ \A i \in 1 .. n + 1 : i \in 1 .. n \/ i = n + 1
        /\ \A i \in 1 .. n : i < n + 1 /\ ~ n + 1 < i
    OBVIOUS
  <1>5. ASSUME NEW i \in 1 .. n
        PROVE  /\ ~Follows(a, sent[i])
               /\ ~(sent[i].type = "dispute.won" /\ a.type = "dispute.won")
               /\ sent[i].type \in OfDispute /\ a.type = "charge.refunded" =>
                    \E w \in 1 .. n : sent[w].type = "dispute.won"
    <2>1. Sound(sent[i]) /\ sent[i].total \in Nat
      BY <1>2, EventSent
    <2>2. ~Follows(a, sent[i])
      BY <2>1 DEF Sound, Follows, StripeSends, OfDispute
    <2>3. ASSUME sent[i].type \in OfDispute, a.type = "charge.refunded"
          PROVE  \E w \in 1 .. n : sent[w].type = "dispute.won"
      <3>1. dispute = "won"
        BY <2>1, <2>3 DEF Sound, StripeSends
      <3> QED BY <1>2, <3>1 DEF StripeOrder, EventsTell
    <2> QED BY <2>1, <2>2, <2>3 DEF Sound, StripeSends, OfDispute
  <1>6. ~Follows(a, a)
    BY DEF Follows, OfDispute
  <1>7. ASSUME NEW i \in 1 .. n + 1, NEW j \in 1 .. n + 1
        PROVE  /\ Follows(sent'[i], sent'[j]) => i < j
               /\ sent'[i].type = "dispute.won" /\ sent'[j].type = "dispute.won" => i = j
               /\ sent'[i].type \in OfDispute /\ sent'[j].type = "charge.refunded" /\ i < j =>
                    \E w \in 1 .. n + 1 : w < j /\ sent'[w].type = "dispute.won"
    <2>1. CASE i \in 1 .. n /\ j \in 1 .. n
      <3>1. ASSUME sent[i].type \in OfDispute, sent[j].type = "charge.refunded", i < j
            PROVE  \E w \in 1 .. n + 1 : w < j /\ sent'[w].type = "dispute.won"
        <4>1. PICK w \in 1 .. n : w < j /\ sent[w].type = "dispute.won"
          BY <1>2, <2>1, <3>1 DEF StripeOrder, EventsOrder, OfRefund
        <4> QED BY <1>3, <1>4, <4>1
      <3> QED BY <1>2, <1>3, <2>1, <3>1 DEF StripeOrder, EventsOrder
    <2>2. CASE i \in 1 .. n /\ j = n + 1
      <3>1. ASSUME sent[i].type \in OfDispute, a.type = "charge.refunded"
            PROVE  \E w \in 1 .. n + 1 : w < j /\ sent'[w].type = "dispute.won"
        <4>1. PICK w \in 1 .. n : sent[w].type = "dispute.won"
          BY <1>5, <2>2, <3>1
        <4> QED BY <1>3, <1>4, <2>2, <4>1
      <3> QED BY <1>3, <1>4, <1>5, <2>2, <3>1
    <2>3. CASE i = n + 1 /\ j \in 1 .. n
      BY <1>3, <1>4, <1>5, <2>3
    <2>4. CASE i = n + 1 /\ j = n + 1
      BY <1>3, <1>6, <2>4
    <2> QED BY <1>4, <2>1, <2>2, <2>3, <2>4
  <1>8. ASSUME NEW l \in 1 .. n + 1, sent'[l].type = "charge.refunded"
        PROVE  \E i \in 1 .. n + 1 :
                  /\ sent'[i].type = "charge.refunded" /\ sent'[i].total >= returned'
                  /\ \A j \in i + 1 .. n + 1 : sent'[j].type # "charge.refunded"
    <2>1. CASE a.type = "charge.refunded"
      <3>1. a.total >= returned' /\ \A j \in (n + 1) + 1 .. n + 1 : FALSE
        BY <1>1, <2>1 DEF StripeSends
      <3> QED BY <1>3, <1>4, <2>1, <3>1
    <2>2. CASE a.type # "charge.refunded"
      <3>1. l \in 1 .. n /\ OfRefund(l)
        BY <1>3, <1>4, <1>8, <2>2 DEF OfRefund
      <3>2. PICK i \in 1 .. n :
              OfRefund(i) /\ sent[i].total >= returned /\ \A j \in i + 1 .. n : ~OfRefund(j)
        BY <1>2, <3>1 DEF StripeOrder, EventsTell
      <3>3. sent'[i].total >= returned'
        <4>1. sent[i].total \in Nat /\ returned' <= returned
          BY <1>2, <2>2, EventSent DEF StripeSends
        <4> QED BY <1>1, <1>3, <3>2, <4>1
      <3>4. ASSUME NEW j \in i + 1 .. n + 1 PROVE sent'[j].type # "charge.refunded"
        <4>1. CASE j = n + 1
          BY <1>3, <2>2, <4>1
        <4>2. CASE j # n + 1
          <5>1. j \in i + 1 .. n /\ j \in 1 .. n
            BY <4>2
          <5> QED BY <1>3, <3>2, <5>1 DEF OfRefund
        <4> QED BY <4>1, <4>2
      <3> QED BY <1>3, <1>4, <3>2, <3>3, <3>4 DEF OfRefund
    <2> QED BY <2>1, <2>2
  <1>9. ASSUME dispute' # "none" PROVE \E i \in 1 .. n + 1 : sent'[i].type = "dispute.created"
    <2>1. CASE dispute = "none"
      BY <1>3, <1>4, <1>9, <2>1 DEF StripeSends
    <2>2. CASE dispute # "none"
      <3>1. PICK i \in 1 .. n : sent[i].type = "dispute.created"
        BY <1>2, <2>2 DEF StripeOrder, EventsTell
      <3> QED BY <1>3, <1>4, <3>1
    <2> QED BY <2>1, <2>2
  <1>10. ASSUME dispute' = "won" PROVE \E i \in 1 .. n + 1 : sent'[i].type = "dispute.won"
    <2>1. CASE dispute # "won"
      BY <1>3, <1>4, <1>10, <2>1 DEF StripeSends
    <2>2. CASE dispute = "won"
      <3>1. PICK i \in 1 .. n : sent[i].type = "dispute.won"
        BY <1>2, <2>2 DEF StripeOrder, EventsTell
      <3> QED BY <1>3, <1>4, <3>1
    <2> QED BY <2>1, <2>2
  <1>11. /\ (\E i \in 1 .. n + 1 : sent'[i].type = "charge.refunded") =>
              \E i \in 1 .. n + 1 :
                 /\ sent'[i].type = "charge.refunded" /\ sent'[i].total >= returned'
                 /\ \A j \in i + 1 .. n + 1 : sent'[j].type # "charge.refunded"
         /\ dispute' # "none" => \E i \in 1 .. n + 1 : sent'[i].type = "dispute.created"
         /\ dispute' = "won" => \E i \in 1 .. n + 1 : sent'[i].type = "dispute.won"
    BY <1>8, <1>9, <1>10, Zenon
  <1>12. \A i, j \in 1 .. n + 1 :
           /\ Follows(sent'[i], sent'[j]) => i < j
           /\ sent'[i].type = "dispute.won" /\ sent'[j].type = "dispute.won" => i = j
           /\ sent'[i].type \in OfDispute /\ sent'[j].type = "charge.refunded" /\ i < j =>
                \E w \in 1 .. n + 1 : w < j /\ sent'[w].type = "dispute.won"
    BY <1>7, Zenon
  <1>13. Len(sent') = n + 1
    BY <1>3
  <1>14. EventsOrder'
    BY <1>12, <1>13, Zenon DEF EventsOrder, Follows, OfRefund
  <1>15. EventsTell'
    BY <1>11, <1>13, Zenon DEF EventsTell, OfRefund
  <1> QED BY <1>14, <1>15 DEF StripeOrder

LEMMA OrderStep ==
    ASSUME StripeInv, StripeOrder, [Next]_vars
    PROVE  StripeOrder'
  <1>1. CASE UNCHANGED <<stripe, sent>>
    BY <1>1 DEF StripeOrder, EventsOrder, EventsTell, Follows, OfRefund, stripe
  <1>2. CASE Stripe
    BY <1>2, StripeStep, OrderSends DEF StripeInv
  <1>3. CASE CreateRefund
    BY <1>3, RefundSends, OrderSends DEF StripeInv
  <1>4. CASE Refund \/ RefundRefused \/ UNCHANGED vars
    BY <1>1, <1>4 DEF Refund, RefundRefused, vars, events
  <1>5. ASSUME NEW i \in Ids, Receive(i) \/ SendAgain(i) PROVE StripeOrder'
    BY <1>1, <1>5 DEF Receive, SendAgain
  <1>6. ASSUME NEW t \in Tasks, Ask(t) \/ Handle(t) \/ Fail(t) \/ Die(t) PROVE StripeOrder'
    BY <1>1, <1>6 DEF Ask, Handle, Fail, Die, Resolve, Pass, Write, Conflict, ConflictAgain, SumLedger,
       ApplyAmountPaid, Throws, events
  <1> QED BY <1>2, <1>3, <1>4, <1>5, <1>6 DEF Next

\* What was given back and what was disputed, only an event tells.
AsksOnly == \A t \in Tasks \ Ids : task[t].about.type \notin {"charge.refunded"} \cup OfDispute

LEMMA AsksStep ==
    ASSUME StripeInv, AsksOnly, [Next]_vars
    PROVE  AsksOnly'
  <1>0. task \in [Tasks -> Handling]
    BY DEF StripeInv, TasksOK
  <1>1. ASSUME NEW t \in Tasks, NEW k, task' = [task EXCEPT ![t] = k],
               t \in Ids \/ k.about.type \notin {"charge.refunded"} \cup OfDispute
        PROVE  AsksOnly'
    BY <1>0, <1>1 DEF AsksOnly
  <1>2. CASE UNCHANGED task
    BY <1>2 DEF AsksOnly
  <1>3. CASE Stripe \/ UNCHANGED vars
    BY <1>2, <1>3, StripeStep DEF StripeInv, Works, vars
  <1>4. ASSUME NEW i \in Ids, Receive(i) \/ SendAgain(i) PROVE AsksOnly'
    <2>1. CASE UNCHANGED task
      BY <1>2, <2>1
    <2>2. CASE ~UNCHANGED task
      BY <1>1, <1>4, <2>2 DEF Receive, SendAgain, Becomes, Tasks
    <2> QED BY <2>1, <2>2
  <1>5. ASSUME NEW t \in Tasks, Ask(t) PROVE AsksOnly'
    <2> PICK a : a = Event(Answer(t))
      OBVIOUS
    <2>p. PICK k : k = [Idle EXCEPT !.at = "resolve", !.about = a]
      OBVIOUS
    <2>1. a.type = Answer(t) /\ Answer(t) \notin {"charge.refunded"} \cup OfDispute
      BY DEF Event, Answer, StripeInv, StripeOK, Intents, OfDispute
    <2>2. k.about = a
      BY <2>p, IdleOK DEF Handling, Idle
    <2>3. task' = [task EXCEPT ![t] = k]
      BY <1>5, <2>p DEF Ask, Becomes
    <2> QED BY <1>1, <2>1, <2>2, <2>3
  <1>6. CASE Refund
    <2>1. PICK amount \in 1 .. Net(row) :
            Becomes(Desk, [Idle EXCEPT !.at = "refund", !.seen = row,
                               !.about = [type |-> "refund", total |-> amount]])
      BY <1>6 DEF Refund
    <2>p. PICK k : k = [Idle EXCEPT !.at = "refund", !.seen = row,
                               !.about = [type |-> "refund", total |-> amount]]
      OBVIOUS
    <2>2. k.about.type = "refund"
      BY <2>p DEF Idle
    <2>3. task' = [task EXCEPT ![Desk] = k] /\ Desk \in Tasks
      BY <2>1, <2>p DEF Becomes, Tasks
    <2> QED BY <1>1, <2>2, <2>3 DEF OfDispute
  <1>7. ASSUME NEW t \in Tasks,
               Resolve(t) \/ Conflict(t) \/ SumLedger(t) \/ (t = Desk /\ CreateRefund)
        PROVE  AsksOnly'
    <2>1. \E k : task' = [task EXCEPT ![t] = k] /\ k.about = task[t].about
      <3>0. task[t] \in Handling
        BY <1>0
      <3>1. CASE Resolve(t)
        <4>1. [task[t] EXCEPT !.at = "write", !.seen = row, !.current = TRUE].about = task[t].about
          BY <3>0 DEF Handling
        <4> QED BY <3>1, <4>1 DEF Resolve, Becomes
      <3>2. CASE Conflict(t)
        <4>1. [task[t] EXCEPT !.at = "resolve", !.conflicts = @ + 1].about = task[t].about
          BY <3>0 DEF Handling
        <4> QED BY <3>2, <4>1 DEF Conflict, Becomes
      <3>3. CASE SumLedger(t)
        <4>1. [task[t] EXCEPT !.at = "apply", !.sum = Net(row)].about = task[t].about
          BY <3>0 DEF Handling
        <4> QED BY <3>3, <4>1 DEF SumLedger, Becomes
      <3>4. CASE t = Desk /\ CreateRefund
        <4>1. [task[t] EXCEPT !.at = "write"].about = task[t].about
          BY <3>0 DEF Handling
        <4> QED BY <3>4, <4>1 DEF CreateRefund, Becomes
      <3> QED BY <1>7, <3>1, <3>2, <3>3, <3>4
    <2>2. PICK k : task' = [task EXCEPT ![t] = k] /\ k.about = task[t].about
      BY <2>1
    <2> QED BY <1>1, <2>2 DEF AsksOnly
  <1>8. ASSUME NEW t \in Tasks, Ends(t) PROVE AsksOnly'
    <2>1. Idle.about.type \notin {"charge.refunded"} \cup OfDispute
      BY DEF Idle, Nothing, OfDispute
    <2> QED BY <1>1, <1>8, <2>1 DEF Ends, Becomes
  <1>9. ASSUME NEW t \in Tasks, Pass(t) \/ ConflictAgain(t) \/ ApplyAmountPaid(t) \/ Fail(t) \/ Die(t)
                                \/ (t = Desk /\ RefundRefused)
        PROVE  AsksOnly'
    BY <1>8, <1>9 DEF Pass, ConflictAgain, ApplyAmountPaid, Fail, Die, RefundRefused, Throws
  <1>10. ASSUME NEW t \in Tasks, Write(t) PROVE AsksOnly'
    <2>1. ASSUME NEW u \in Tasks \ Ids PROVE task'[u].about.type \notin {"charge.refunded"} \cup OfDispute
      <3>1. task'[u].about \in {task[u].about, Nothing}
        BY <1>0, <1>10 DEF Write, Handling, Idle
      <3> QED BY <3>1 DEF AsksOnly, Nothing, OfDispute
    <2> QED BY <2>1 DEF AsksOnly
  <1>11. Desk \in Tasks
    BY DEF Tasks
  <1> QED BY <1>3, <1>4, <1>5, <1>6, <1>7, <1>9, <1>10, <1>11 DEF Next, Handle

---------------------------------------------------------------------------
(* The row of a payment whose events are handled one after the other. *)

Heard == ~dropped /\ ~early

\* None is handled before an earlier one is through, and none is given up.
InTurn ==
    /\ \A i \in 1 .. Len(sent) : i \in undelivered \/ i \in claimed
    /\ \A i \in Ids : task[i] # Idle => i \in claimed
    /\ \A i \in Ids, j \in claimed : i < j => i \in claimed /\ task[i] = Idle
    /\ \A i \in Ids : task[i].at \in {"resolve", "write"} => task[i].about = sent[i]

Handled(i) == i \in claimed /\ task[i].at \notin {"resolve", "write"}

\* What event i, once handled, has made of the row.
Told(i) ==
    /\ sent[i].type = "succeeded" => row.status \in Collected
    /\ OfRefund(i) =>
         row.refunded >= sent[i].total \/ \E j \in Ids : i < j /\ Handled(j) /\ OfRefund(j)
    /\ sent[i].type = "dispute.created" =>
         row.status = "reversed" \/ \E j \in Ids : Handled(j) /\ sent[j].type = "dispute.won"
    /\ sent[i].type = "dispute.won" => row.status # "reversed"

RowTold ==
    /\ intent = "succeeded" /\ (\A i \in 1 .. Len(sent) : sent[i].type = "succeeded" => Handled(i)) =>
          row.status \in Collected
    /\ \A i \in Ids : Handled(i) => Told(i)
    /\ row.status = "reversed" => \E i \in claimed : sent[i].type \in OfDispute
    /\ (\A i \in 1 .. Len(sent) : ~OfRefund(i)) => row.refunded >= returned

\* A row that is read for event i, and how it stands to the row now.
Reading(i, p) ==
    /\ p.refunded <= row.refunded
    /\ p.status = "reversed" => row.status = "reversed"
    /\ sent[i].type \in {"charge.refunded"} \cup OfDispute => p.status \in Collected
    /\ sent[i].type = "dispute.won" => p.status = "reversed"
    /\ sent[i].type = "charge.refunded" => p.status # "reversed"

CatchUp == InTurn /\ RowTold /\ \A i \in Ids : At(i, "write") => Reading(i, task[i].seen)

\* The invariant of the events, whether or not they are handled in turn.
EventsInv == StripeInv /\ OwnsTasks /\ AsksOnly /\ StripeOrder /\ (Heard => CatchUp)

LEMMA IdFacts ==
    ASSUME StripeInv
    PROVE  /\ Len(sent) \in Nat /\ Ids \subseteq Nat /\ Ids \subseteq Tasks
           /\ \A i \in 1 .. Len(sent) : i \in Ids
           /\ \A i \in claimed : i \in Ids /\ i \in 1 .. Len(sent)
           /\ \A i \in undelivered : i \in Ids /\ i \in 1 .. Len(sent)
           /\ Sweep \notin Ids /\ Phone \notin Ids /\ Desk \notin Ids
           /\ task \in [Tasks -> Handling]
           /\ \A t \in Tasks : TaskOK(task[t])
           /\ row \in Rows /\ row.refunded \in Nat
  <1>1. Len(sent) \in Nat /\ Len(sent) <= MaxEvents
    BY DEF StripeInv, SentOK
  <1>2. Ids \subseteq Nat /\ \A i \in 1 .. Len(sent) : i \in Ids
    BY <1>1, BoundsAssumption DEF Ids
  <1>3. Sweep \notin Ids /\ Phone \notin Ids /\ Desk \notin Ids /\ Ids \subseteq Tasks
    BY <1>2, TasksAssumption DEF Tasks
  <1> QED BY <1>1, <1>2, <1>3 DEF StripeInv, SentOK, TasksOK, RowOK, Rows

\* The row as it is read for event i, when every event before it has been handled.
LEMMA ReadsWell ==
    ASSUME StripeInv, StripeOrder, RowTold, NEW i \in 1 .. Len(sent), ~Handled(i),
           \A j \in Ids : j < i => Handled(j), \A j \in claimed : ~ i < j
    PROVE  Reading(i, row)
  <1>1. Sound(sent[i])
    BY EventSent DEF StripeInv
  <1>2. row.refunded <= row.refunded
    BY IdFacts
  <1>3. ASSUME NEW j \in 1 .. Len(sent), Follows(sent[j], sent[i]) PROVE Handled(j) /\ j \in Ids
    BY <1>3, IdFacts DEF StripeOrder, EventsOrder
  <1>4. ASSUME sent[i].type \in {"charge.refunded"} \cup OfDispute PROVE row.status \in Collected
    <2>1. intent = "succeeded"
      BY <1>1, <1>4 DEF Sound
    <2>2. \A j \in 1 .. Len(sent) : sent[j].type = "succeeded" => Handled(j)
      BY <1>3, <1>4 DEF Follows
    <2> QED BY <2>1, <2>2 DEF RowTold
  <1>5. ASSUME sent[i].type = "dispute.won" PROVE row.status = "reversed"
    <2>1. PICK c \in 1 .. Len(sent) : sent[c].type = "dispute.created"
      BY <1>1, <1>5 DEF Sound, StripeOrder, EventsTell
    <2>2. Told(c) /\ Handled(c)
      BY <1>3, <1>5, <2>1 DEF Follows, RowTold
    <2>3. ASSUME NEW j \in Ids, Handled(j), sent[j].type = "dispute.won" PROVE FALSE
      <3>1. j \in 1 .. Len(sent)
        BY <2>3, IdFacts DEF Handled
      <3>2. j = i
        BY <1>5, <2>3, <3>1 DEF StripeOrder, EventsOrder
      <3> QED BY <2>3, <3>2
    <2> QED BY <2>1, <2>2, <2>3 DEF Told
  <1>6. ASSUME sent[i].type = "charge.refunded" PROVE row.status # "reversed"
    <2> SUFFICES ASSUME row.status = "reversed" PROVE FALSE
      OBVIOUS
    <2>1. PICK c \in claimed : sent[c].type \in OfDispute
      BY DEF RowTold
    <2>2. c \in 1 .. Len(sent) /\ c \in Nat /\ i \in Nat /\ c # i
      BY <1>6, <2>1, IdFacts DEF OfDispute
    <2>3. c < i
      BY <2>2
    <2>4. PICK w \in 1 .. Len(sent) : w < i /\ sent[w].type = "dispute.won"
      BY <1>6, <2>1, <2>2, <2>3 DEF StripeOrder, EventsOrder, OfRefund
    <2>5. Told(w)
      BY <2>4, IdFacts DEF RowTold
    <2> QED BY <2>4, <2>5 DEF Told
  <1> QED BY <1>2, <1>4, <1>5, <1>6 DEF Reading

\* An event whose task has nothing to write is told by the row already.
LEMMA PassTold ==
    ASSUME StripeInv, NEW i \in Ids, Pass(i), task[i].about = sent[i], Reading(i, task[i].seen)
    PROVE  Told(i)
  <1>1. PICK k \in Handling : /\ k = task[i] /\ TaskOK(k) /\ k.at = "write" /\ k.about = sent[i]
                              /\ k.about.type # "none"
                              /\ Refuses(k) \/ ~Changes(k)
    BY IdFacts DEF Pass, At, TaskOK
  <1>2. /\ SeenOK(k) /\ k.seen \in Rows /\ k.seen.refunded \in Nat /\ k.seen.status \in Statuses
        /\ row.refunded \in Nat /\ k.about.total \in Nat /\ Charged \in Nat
    BY <1>1, IdFacts, ChargedAssumption DEF TaskOK, Handling, Rows, Abouts
  <1>3. Reading(i, k.seen)
    BY <1>1
  <1>4. PICK w : w = Wanted(k)
    OBVIOUS
  <1>5. /\ w.status = Status(k)
        /\ w.refunded = IF IsRefund(k) THEN RefundedTotal(k) ELSE k.seen.refunded
    BY <1>1, <1>4, WantedIs
  <1>6. /\ Changes(k) <=> w # k.seen
        /\ k.about.type \notin {"dispute.won", "refund"} =>
             (Refuses(k) <=> ~CanTransition(k.seen.status, Status(k)))
        /\ k.about.type = "dispute.won" => (Refuses(k) <=> k.seen.status # "reversed")
    BY <1>4, <1>5 DEF Changes, Refuses
  <1>7. ASSUME k.about.type = "succeeded" PROVE row.status \in Collected
    <2>1. Status(k) = "settled"
      BY <1>7 DEF Status
    <2>2. k.seen.status \in Collected
      BY <1>1, <1>2, <1>5, <1>6, <1>7, <2>1 DEF CanTransition, Statuses, Collected
    <2> QED BY <1>2, <2>2 DEF SeenOK
  <1>8. ASSUME k.about.type = "charge.refunded" PROVE row.refunded >= k.about.total
    <2>1. RefundedTotal(k) = k.about.total /\ IsRefund(k)
      BY <1>8 DEF RefundedTotal, IsRefund
    <2>2. Status(k) = IF k.about.total >= Charged THEN "refunded" ELSE "settled"
      BY <1>8, <2>1 DEF Status, StatusAfterRefund
    <2>3. k.seen.status \in {"settled", "refunded"} /\ k.seen.refunded <= row.refunded
      BY <1>1, <1>3, <1>8 DEF Reading, Collected
    <2>4. CASE Refuses(k)
      <3>1. k.seen.status = "refunded" /\ k.about.total < Charged
        BY <1>2, <1>6, <1>8, <2>2, <2>3, <2>4 DEF CanTransition
      <3>2. k.seen.refunded = Charged
        BY <1>2, <3>1 DEF SeenOK, Shape
      <3> QED BY <1>2, <2>3, <3>1, <3>2
    <2>5. CASE ~Changes(k)
      BY <1>2, <1>5, <1>6, <2>1, <2>3, <2>5
    <2> QED BY <1>1, <2>4, <2>5
  <1>9. ASSUME k.about.type = "dispute.created" PROVE row.status = "reversed"
    <2>1. Status(k) = "reversed"
      BY <1>9 DEF Status
    <2>2. k.seen.status \in Collected
      BY <1>1, <1>3, <1>9 DEF Reading, OfDispute
    <2>3. k.seen.status = "reversed"
      BY <1>1, <1>5, <1>6, <1>9, <2>1, <2>2 DEF CanTransition, Collected
    <2> QED BY <1>3, <2>3 DEF Reading
  <1>10. k.about.type # "dispute.won"
    <2>1. SUFFICES ASSUME k.about.type = "dispute.won" PROVE FALSE
      OBVIOUS
    <2>2. Status(k) = "settled" /\ k.seen.status = "reversed"
      BY <1>1, <1>3, <2>1 DEF Status, Reading
    <2> QED BY <1>1, <1>5, <1>6, <2>1, <2>2
  <1> QED BY <1>1, <1>7, <1>8, <1>9, <1>10 DEF Told, OfRefund

LEMMA SendsCatchUp ==
    ASSUME StripeInv, CatchUp, NEW a, StripeSends(a), UNCHANGED <<claimed, row>>,
           \A i \in Ids : task'[i] = task[i]
    PROVE  CatchUp'
  <1>1. /\ Len(sent') = Len(sent) + 1
        /\ \A i \in 1 .. Len(sent) : sent'[i] = sent[i]
        /\ sent'[Len(sent) + 1] = a
        /\ undelivered' = undelivered \cup {Len(sent) + 1}
    BY SentAfter DEF StripeInv, StripeSends, Sends
  <1>2. PICK n \in Nat : n = Len(sent)
    BY IdFacts
  <1>3. \A i \in 1 .. n + 1 : i \in 1 .. n \/ i = n + 1
    OBVIOUS
  <1>4. \A i \in 1 .. n : sent'[i] = sent[i] /\ i \in 1 .. n + 1
    BY <1>1, <1>2
  <1>5. \A i \in claimed : i \in Ids /\ i \in 1 .. n
    BY <1>2, IdFacts
  <1>6. \A i \in Ids : Handled(i)' <=> Handled(i)
    BY DEF Handled
  <1>7. \A i \in Ids : task[i] # Idle => sent'[i] = sent[i]
    BY <1>4, <1>5 DEF CatchUp, InTurn
  <1>8. InTurn'
    <2>1. \A i \in 1 .. n + 1 : i \in undelivered' \/ i \in claimed'
      BY <1>1, <1>2, <1>3 DEF CatchUp, InTurn
    <2>2. \A i \in Ids : task'[i].at \in {"resolve", "write"} => task'[i].about = sent'[i]
      BY <1>7, IdleOK DEF CatchUp, InTurn, Idle
    <2>3. Len(sent') = n + 1
      BY <1>1, <1>2
    <2> QED BY <1>5, <2>1, <2>2, <2>3 DEF CatchUp, InTurn
  <1>9. ASSUME NEW i \in Ids, Handled(i) PROVE Told(i)'
    <2>1. sent'[i] = sent[i] /\ Told(i)
      BY <1>4, <1>5, <1>9 DEF Handled, CatchUp, RowTold
    <2>2. ASSUME NEW j \in Ids, Handled(j), sent[j].type = "dispute.won"
          PROVE  \E l \in Ids : Handled(l)' /\ sent'[l].type = "dispute.won"
      BY <1>4, <1>5, <1>6, <2>2 DEF Handled
    <2>3. ASSUME NEW j \in Ids, i < j, Handled(j), OfRefund(j)
          PROVE  \E l \in Ids : i < l /\ Handled(l)' /\ OfRefund(l)'
      BY <1>4, <1>5, <1>6, <2>3 DEF Handled, OfRefund
    <2> QED BY <2>1, <2>2, <2>3 DEF Told, OfRefund
  <1>10. ASSUME intent' = "succeeded", \A i \in 1 .. n + 1 : sent'[i].type = "succeeded" => Handled(i)'
         PROVE  row.status \in Collected
    <2>1. n + 1 \notin claimed /\ n + 1 \in 1 .. n + 1
      BY <1>5
    <2>2. a.type # "succeeded"
      BY <1>1, <1>2, <1>10, <2>1 DEF Handled
    <2>3. intent = "succeeded"
      BY <1>10, <2>2 DEF StripeSends
    <2>4. ASSUME NEW i \in 1 .. n, sent[i].type = "succeeded" PROVE Handled(i)
      <3>1. Handled(i)'
        BY <1>4, <1>10, <2>4
      <3>2. i \in Ids
        BY <1>5, <3>1 DEF Handled
      <3> QED BY <1>6, <3>1, <3>2
    <2> QED BY <1>2, <2>3, <2>4 DEF CatchUp, RowTold
  <1>11. RowTold'
    <2>1. Len(sent') = n + 1
      BY <1>1, <1>2
    <2>2. row'.status = "reversed" => \E i \in claimed' : sent'[i].type \in OfDispute
      BY <1>4, <1>5 DEF CatchUp, RowTold
    <2>3. ASSUME \A i \in 1 .. n + 1 : ~OfRefund(i)' PROVE row'.refunded >= returned'
      <3>1. \A i \in 1 .. n : ~OfRefund(i)
        BY <1>4, <2>3 DEF OfRefund
      <3>2. a.type # "charge.refunded"
        BY <1>1, <1>2, <2>3 DEF OfRefund
      <3>3. row.refunded >= returned /\ returned' <= returned
        BY <1>2, <3>1, <3>2 DEF CatchUp, RowTold, StripeSends
      <3>4. row.refunded \in Nat /\ returned \in Nat /\ returned' \in Nat
        BY IdFacts, ChargedAssumption DEF StripeInv, StripeOK, StripeSends, Sends
      <3> QED BY <3>3, <3>4
    <2> QED BY <1>6, <1>9, <1>10, <2>1, <2>2, <2>3 DEF RowTold
  <1>12. ASSUME NEW i \in Ids, At(i, "write") PROVE Reading(i, task[i].seen)'
    <2>1. sent'[i] = sent[i] /\ Reading(i, task[i].seen)
      BY <1>7, <1>12, IdleOK DEF At, Idle, CatchUp
    <2> QED BY <2>1 DEF Reading
  <1> QED BY <1>8, <1>11, <1>12 DEF CatchUp, At

\* Nothing that concerns the events or the row.
LEMMA AsideCatchUp ==
    ASSUME StripeInv, CatchUp, UNCHANGED <<intent, returned, sent, row>>,
           undelivered \subseteq undelivered', \A i \in Ids : i \in claimed' <=> i \in claimed,
           claimed' \subseteq Ids, \A i \in Ids : task'[i] = task[i]
    PROVE  CatchUp'
  <1>1. claimed' = claimed
    BY IdFacts
  <1>2. \A i \in claimed : i \in Ids
    BY IdFacts
  <1>3. \A i : i \in Ids => (Handled(i)' <=> Handled(i))
    BY <1>1 DEF Handled
  <1>4. InTurn'
    BY <1>1, <1>2 DEF CatchUp, InTurn
  <1>5. ASSUME NEW i \in Ids, Told(i) PROVE Told(i)'
    BY <1>3, <1>5 DEF Told, OfRefund
  <1>6. (\A i \in 1 .. Len(sent) : sent[i].type = "succeeded" => Handled(i)')
          => (\A i \in 1 .. Len(sent) : sent[i].type = "succeeded" => Handled(i))
    BY <1>3, IdFacts
  <1>7. RowTold'
    BY <1>1, <1>3, <1>5, <1>6 DEF CatchUp, RowTold, OfRefund
  <1>8. ASSUME NEW i \in Ids, At(i, "write") PROVE Reading(i, task[i].seen)'
    BY <1>8 DEF CatchUp, Reading
  <1> QED BY <1>4, <1>7, <1>8 DEF CatchUp, At

\* Event i goes on; if it is through with its row, the row has been told.
LEMMA GoesOnCatchUp ==
    ASSUME StripeInv, CatchUp, UNCHANGED <<intent, returned, sent, row, undelivered, claimed>>,
           NEW i \in Ids, task[i] # Idle, NEW k \in Handling, task' = [task EXCEPT ![i] = k],
           k.at \in {"resolve", "write"} => task[i].at \in {"resolve", "write"} /\ k.about = sent[i],
           k.at = "write" => Reading(i, k.seen),
           k.at \notin {"resolve", "write"} /\ task[i].at \in {"resolve", "write"} => Told(i)
    PROVE  CatchUp'
  <1>1. task'[i] = k /\ \A j \in Ids : j # i => task'[j] = task[j]
    BY IdFacts
  <1>2. \A j \in Ids : Handled(j)' <=> IF j = i THEN j \in claimed /\ k.at \notin {"resolve", "write"} ELSE Handled(j)
    BY <1>1 DEF Handled
  <1>3. \A j \in Ids : Handled(j) => Handled(j)'
    BY <1>2 DEF Handled
  <1>4. InTurn'
    BY <1>1, IdFacts DEF CatchUp, InTurn
  <1>5. ASSUME NEW j \in Ids, Told(j) PROVE Told(j)'
    BY <1>3, <1>5 DEF Told, OfRefund
  <1>6. ASSUME NEW j \in Ids, Handled(j)' PROVE Told(j)
    <2>1. CASE Handled(j)
      BY <2>1 DEF CatchUp, RowTold, OfRefund
    <2>2. CASE ~Handled(j)
      BY <1>2, <1>6, <2>2 DEF Handled
    <2> QED BY <2>1, <2>2
  <1>7. ASSUME intent = "succeeded", \A j \in 1 .. Len(sent) : sent[j].type = "succeeded" => Handled(j)'
        PROVE  row.status \in Collected
    <2>1. CASE \A j \in 1 .. Len(sent) : sent[j].type = "succeeded" => Handled(j)
      BY <1>7, <2>1 DEF CatchUp, RowTold, OfRefund
    <2>2. CASE \E j \in 1 .. Len(sent) : sent[j].type = "succeeded" /\ ~Handled(j)
      <3>1. PICK j \in 1 .. Len(sent) : sent[j].type = "succeeded" /\ ~Handled(j)
        BY <2>2
      <3>2. j \in Ids /\ Handled(j)'
        BY <1>7, <3>1, IdFacts
      <3>3. Told(j)
        BY <1>6, <3>2
      <3> QED BY <3>1, <3>3 DEF Told, OfRefund
    <2> QED BY <2>1, <2>2
  <1>8. RowTold'
    BY <1>5, <1>6, <1>7 DEF CatchUp, RowTold, OfRefund
  <1>9. ASSUME NEW j \in Ids, At(j, "write")' PROVE Reading(j, task[j].seen)'
    <2>1. CASE j = i
      BY <1>1, <1>9, <2>1 DEF At, Reading
    <2>2. CASE j # i
      BY <1>1, <1>9, <2>2 DEF At, Reading, CatchUp
    <2> QED BY <2>1, <2>2
  <1> QED BY <1>4, <1>8, <1>9 DEF CatchUp

\* The next event begins, in its turn.
LEMMA BeginCatchUp ==
    ASSUME StripeInv, OwnsTasks, StripeOrder, CatchUp, NEW i \in Ids, Receive(i), Heard'
    PROVE  CatchUp'
  <1>1. /\ UNCHANGED <<intent, returned, sent, row>> /\ i \in undelivered /\ undelivered' = undelivered \ {i}
        /\ i \in 1 .. Len(sent)
    BY IdFacts DEF Receive, stripe
  <1>2. CASE i \in claimed
    <2>1. task' = task /\ claimed' = claimed
      BY <1>2 DEF Receive
    <2>2. InTurn'
      BY <1>1, <1>2, <2>1 DEF CatchUp, InTurn
    <2>3. RowTold'
      <3>1. \A j : Handled(j)' <=> Handled(j)
        BY <2>1 DEF Handled
      <3>2. \A j \in Ids : Told(j) => Told(j)'
        BY <1>1, <3>1 DEF Told, OfRefund
      <3> QED BY <1>1, <2>1, <3>1, <3>2 DEF CatchUp, RowTold, OfRefund
    <2> QED BY <1>1, <2>1, <2>2, <2>3 DEF CatchUp, At, Reading
  <1>3. CASE i \notin claimed
    <2>p. PICK k : k = [Idle EXCEPT !.at = "write", !.about = sent[i], !.seen = row]
      OBVIOUS
    <2>1. k.at = "write" /\ k.about = sent[i] /\ k.seen = row
      BY <2>p DEF Idle
    <2>2. /\ task' = [task EXCEPT ![i] = k] /\ claimed' = claimed \cup {i}
          /\ ~ComesEarly(i)
      BY <1>3, <2>p DEF Receive, Becomes, Heard
    <2>3. task'[i] = k /\ \A j \in Ids : j # i => task'[j] = task[j]
      BY <2>2, IdFacts
    <2>4. ASSUME NEW j \in Ids, j < i PROVE j \in claimed /\ task[j] = Idle
      <3>1. j \notin undelivered /\ task[j] = Idle
        BY <2>2, <2>4 DEF ComesEarly, InHand
      <3>2. j \in 1 .. Len(sent)
        BY <1>1, <2>4, IdFacts DEF Ids
      <3> QED BY <3>1, <3>2 DEF CatchUp, InTurn
    <2>5. ASSUME NEW j \in claimed PROVE ~ i < j
      BY <1>3 DEF CatchUp, InTurn
    <2>6. Reading(i, row)
      <3>1. \A j \in Ids : j < i => Handled(j)
        BY <2>4 DEF Handled, Idle
      <3> QED BY <1>1, <1>3, <2>5, <3>1, ReadsWell DEF CatchUp, Handled
    <2>7. InTurn'
      <3>1. \A j \in 1 .. Len(sent) : j \in undelivered' \/ j \in claimed'
        BY <1>1, <2>2 DEF CatchUp, InTurn
      <3>2. \A j \in Ids : task'[j] # Idle => j \in claimed'
        BY <2>2, <2>3 DEF CatchUp, InTurn
      <3>3. ASSUME NEW j \in Ids, NEW l \in claimed', j < l PROVE j \in claimed' /\ task'[j] = Idle
        <4>1. CASE l = i
          BY <2>2, <2>3, <2>4, <3>3, <4>1, IdFacts
        <4>2. CASE l # i
          <5>1. l \in claimed /\ j \in claimed /\ task[j] = Idle
            BY <2>2, <3>3, <4>2 DEF CatchUp, InTurn
          <5> QED BY <1>3, <2>2, <2>3, <5>1
        <4> QED BY <4>1, <4>2
      <3>4. \A j \in Ids : task'[j].at \in {"resolve", "write"} => task'[j].about = sent'[j]
        BY <1>1, <2>1, <2>3 DEF CatchUp, InTurn
      <3> QED BY <1>1, <3>1, <3>2, <3>3, <3>4 DEF InTurn
    <2>8. \A j \in Ids : Handled(j)' <=> Handled(j)
      BY <1>3, <2>1, <2>2, <2>3 DEF Handled
    <2>9. RowTold'
      <3>1. \A j \in Ids : Told(j) => Told(j)'
        BY <1>1, <2>8 DEF Told, OfRefund
      <3> QED BY <1>1, <2>2, <2>8, <3>1, IdFacts DEF CatchUp, RowTold, OfRefund
    <2>10. ASSUME NEW j \in Ids, At(j, "write")' PROVE Reading(j, task[j].seen)'
      <3>1. CASE j = i
        BY <1>1, <2>1, <2>3, <2>6, <3>1 DEF Reading
      <3>2. CASE j # i
        BY <1>1, <2>3, <2>10, <3>2 DEF At, Reading, CatchUp
      <3> QED BY <3>1, <3>2
    <2> QED BY <2>7, <2>9, <2>10 DEF CatchUp
  <1> QED BY <1>2, <1>3

\* A task asserts its status: an event tells the row, and nobody else takes back
\* what the events before told it.
LEMMA WriteCatchUp ==
    ASSUME StripeInv, AsksOnly, StripeOrder, CatchUp, NEW t \in Tasks, Write(t)
    PROVE  CatchUp'
  <1>1. Effect(task[t]) /\ row' \in Rows
    BY WriteEffect DEF RowOK
  <1>2. /\ UNCHANGED <<intent, returned, sent, undelivered, claimed>> /\ task[t].at = "write"
        /\ task'[t] = [Idle EXCEPT !.at = "sum"]
        /\ \A u \in Tasks : u # t =>
             task'[u] = IF HasRead(u) THEN [task[u] EXCEPT !.current = FALSE] ELSE task[u]
    BY DEF Write, At, stripe, events
  <1>3. task'[t].at = "sum"
    BY <1>2, IdleOK DEF Idle
  <1>4. ASSUME NEW u \in Tasks, u # t
        PROVE  /\ task'[u].at = task[u].at /\ task'[u].about = task[u].about /\ task'[u].seen = task[u].seen
               /\ task[u] = Idle => task'[u] = Idle
    <2>1. PICK k \in Handling : k = task[u]
      BY IdFacts
    <2>2. CASE HasRead(u)
      <3>1. /\ [k EXCEPT !.current = FALSE].at = k.at /\ [k EXCEPT !.current = FALSE].about = k.about
            /\ [k EXCEPT !.current = FALSE].seen = k.seen
        BY DEF Handling
      <3>2. task'[u] = [k EXCEPT !.current = FALSE] /\ task[u] # Idle
        BY <1>2, <1>4, <2>1, <2>2 DEF HasRead, Idle
      <3> QED BY <2>1, <3>1, <3>2
    <2>3. CASE ~HasRead(u)
      BY <1>2, <1>4, <2>3
    <2> QED BY <2>2, <2>3
  <1>5. t \in Ids => /\ t \in claimed /\ task[t].about = sent[t]
                     /\ \A j \in claimed : ~ t < j
                     /\ \A j \in Ids : j < t => j \in claimed /\ task[j] = Idle
    <2>1. task[t] # Idle
      BY <1>2 DEF Idle
    <2> QED BY <1>2, <2>1 DEF CatchUp, InTurn
  <1>6. t \notin Ids => task[t].about.type \notin {"charge.refunded"} \cup OfDispute
    BY DEF AsksOnly
  <1>7. \A j \in Ids : Handled(j)' <=> Handled(j) \/ (j = t)
    BY <1>2, <1>3, <1>4, <1>5, IdFacts DEF Handled
  <1>8. row.refunded \in Nat /\ row'.refunded \in Nat
    BY <1>1, IdFacts DEF Rows
  <1>9. Sound(task[t].about)
    BY DEF StripeInv, TasksOK, TaskOK
  <1>10. InTurn'
    <2>1. \A i \in Ids, j \in claimed : i < j => i \in claimed /\ task'[i] = Idle
      BY <1>2, <1>4, <1>5, IdFacts DEF CatchUp, InTurn
    <2>2. \A i \in Ids : task'[i] # Idle => i \in claimed
      BY <1>2, <1>4, <1>5, IdFacts DEF CatchUp, InTurn
    <2>3. \A i \in Ids : task'[i].at \in {"resolve", "write"} => task'[i].about = sent[i]
      BY <1>3, <1>4, IdFacts DEF CatchUp, InTurn
    <2> QED BY <1>2, <2>1, <2>2, <2>3 DEF CatchUp, InTurn
  <1>11. ASSUME NEW j \in Ids, Handled(j), j # t PROVE Told(j)'
    <2>1. Told(j) /\ j \in 1 .. Len(sent) /\ Sound(sent[j]) /\ sent[j].total \in Nat
      BY <1>11, IdFacts, EventSent DEF CatchUp, RowTold, Handled, StripeInv
    <2>2. sent[j].type = "succeeded" => row'.status \in Collected
      BY <1>1, <2>1 DEF Told, Effect
    <2>3. ASSUME OfRefund(j)
          PROVE  row'.refunded >= sent[j].total \/ \E l \in Ids : j < l /\ Handled(l)' /\ OfRefund(l)
      <3>1. CASE task[t].about.type = "charge.refunded"
        <4>1. t \in Ids /\ OfRefund(t)
          BY <1>5, <1>6, <3>1 DEF OfRefund
        <4>2. j < t
          BY <1>5, <1>11, <4>1, IdFacts DEF Handled
        <4> QED BY <1>7, <4>1, <4>2
      <3>2. CASE task[t].about.type # "charge.refunded"
        <4>1. row'.refunded >= row.refunded
          BY <1>1, <3>2 DEF Effect
        <4>2. CASE row.refunded >= sent[j].total
          BY <1>8, <2>1, <4>1, <4>2
        <4>3. CASE \E l \in Ids : j < l /\ Handled(l) /\ OfRefund(l)
          BY <1>7, <4>3
        <4> QED BY <2>1, <2>3, <4>2, <4>3 DEF Told
      <3> QED BY <3>1, <3>2
    <2>4. ASSUME sent[j].type = "dispute.created"
          PROVE  row'.status = "reversed" \/ \E l \in Ids : Handled(l)' /\ sent[l].type = "dispute.won"
      <3>1. CASE row.status = "reversed" /\ row'.status # "reversed"
        <4>1. task[t].about.type = "dispute.won"
          BY <1>1, <3>1 DEF Effect
        <4>2. t \in Ids /\ sent[t].type = "dispute.won"
          BY <1>5, <1>6, <4>1 DEF OfDispute
        <4> QED BY <1>7, <4>2
      <3>2. CASE row.status # "reversed"
        <4>1. PICK l \in Ids : Handled(l) /\ sent[l].type = "dispute.won"
          BY <2>1, <2>4, <3>2 DEF Told, OfRefund
        <4> QED BY <1>7, <4>1
      <3> QED BY <3>1, <3>2
    <2>5. ASSUME sent[j].type = "dispute.won", row'.status = "reversed" PROVE FALSE
      <3>1. row.status # "reversed"
        BY <2>1, <2>5 DEF Told, OfRefund
      <3>2. task[t].about.type \in {"dispute.created", "dispute.lost"}
        BY <1>1, <2>5, <3>1 DEF Effect
      <3>3. t \in Ids /\ t \in 1 .. Len(sent) /\ sent[t].type \in {"dispute.created", "dispute.lost"}
        BY <1>5, <1>6, <3>2, IdFacts DEF OfDispute
      <3>4. CASE sent[t].type = "dispute.created"
        <4>1. t < j
          BY <2>1, <2>5, <3>3, <3>4 DEF StripeOrder, EventsOrder, Follows
        <4> QED BY <1>5, <1>11, <3>3, <4>1 DEF Handled
      <3>5. CASE sent[t].type = "dispute.lost"
        <4>1. dispute = "lost" /\ dispute = "won"
          BY <1>5, <1>9, <2>1, <2>5, <3>3, <3>5 DEF Sound
        <4> QED BY <4>1
      <3> QED BY <3>3, <3>4, <3>5
    <2> QED BY <1>2, <2>2, <2>3, <2>4, <2>5 DEF Told, OfRefund
  <1>12. ASSUME t \in Ids PROVE Told(t)'
    <2>1. Effect(task[t]) /\ task[t].about = sent[t]
      BY <1>1, <1>5, <1>12
    <2>2. sent[t].type = "charge.refunded" => row'.refunded >= sent[t].total
      BY <1>8, <2>1 DEF Effect
    <2> QED BY <1>2, <2>1, <2>2 DEF Effect, Told, OfRefund
  <1>13. ASSUME intent = "succeeded", \A j \in 1 .. Len(sent) : sent[j].type = "succeeded" => Handled(j)'
         PROVE  row'.status \in Collected
    <2>1. CASE \A j \in 1 .. Len(sent) : sent[j].type = "succeeded" => Handled(j)
      BY <1>1, <1>13, <2>1 DEF CatchUp, RowTold, Effect
    <2>2. CASE \E j \in 1 .. Len(sent) : sent[j].type = "succeeded" /\ ~Handled(j)
      <3>1. PICK j \in 1 .. Len(sent) : sent[j].type = "succeeded" /\ ~Handled(j)
        BY <2>2
      <3>2. j \in Ids /\ j = t
        BY <1>7, <1>13, <3>1, IdFacts
      <3> QED BY <1>2, <1>12, <3>1, <3>2 DEF Told, OfRefund
    <2> QED BY <2>1, <2>2
  <1>14. RowTold'
    <2>1. ASSUME NEW j \in Ids, Handled(j)' PROVE Told(j)'
      BY <1>7, <1>11, <1>12, <2>1
    <2>2. ASSUME row'.status = "reversed" PROVE \E i \in claimed : sent[i].type \in OfDispute
      <3>1. CASE row.status = "reversed"
        BY <3>1 DEF CatchUp, RowTold, OfRefund
      <3>2. CASE row.status # "reversed"
        <4>1. task[t].about.type \in OfDispute
          BY <1>1, <2>2, <3>2 DEF Effect, OfDispute
        <4> QED BY <1>5, <1>6, <4>1
      <3> QED BY <3>1, <3>2
    <2>3. ASSUME \A j \in 1 .. Len(sent) : ~OfRefund(j) PROVE row'.refunded >= returned
      <3>1. task[t].about.type # "charge.refunded"
        BY <1>5, <1>6, <2>3, IdFacts DEF OfRefund
      <3>2. row'.refunded >= row.refunded /\ row.refunded >= returned /\ returned \in Nat
        BY <1>1, <2>3, <3>1, ChargedAssumption DEF Effect, CatchUp, RowTold, StripeInv, StripeOK
      <3> QED BY <1>8, <3>2
    <2> QED BY <1>2, <1>13, <2>1, <2>2, <2>3 DEF RowTold, OfRefund
  <1>15. ASSUME NEW i \in Ids, At(i, "write")' PROVE Reading(i, task[i].seen)'
    <2>1. i # t /\ task[i].at = "write" /\ task'[i].seen = task[i].seen
      BY <1>3, <1>4, <1>15, IdFacts DEF At
    <2>2. task[i] # Idle /\ task[t] # Idle
      BY <1>2, <2>1 DEF Idle
    <2>3. t \notin Ids
      BY <2>1, <2>2, IdFacts DEF CatchUp, InTurn
    <2>4. Reading(i, task[i].seen) /\ task[i].seen.refunded \in Nat
      BY <2>1, IdFacts DEF CatchUp, At, Handling, Rows
    <2>5. task[i].seen.refunded <= row'.refunded
      BY <1>1, <1>6, <1>8, <2>3, <2>4 DEF Effect, Reading
    <2>6. row.status = "reversed" => row'.status = "reversed"
      BY <1>1, <1>6, <2>3 DEF Effect, OfDispute
    <2> QED BY <1>2, <2>1, <2>4, <2>5, <2>6 DEF Reading
  <1> QED BY <1>10, <1>14, <1>15 DEF CatchUp

LEMMA HandlesCatchUp ==
    ASSUME StripeInv, OwnsTasks, StripeOrder, CatchUp, NEW i \in Ids,
           Resolve(i) \/ Pass(i) \/ Conflict(i) \/ SumLedger(i) \/ ApplyAmountPaid(i)
    PROVE  CatchUp'
  <1>0. task[i] # Idle /\ UNCHANGED <<intent, returned, sent, row, undelivered, claimed>>
    BY DEF Resolve, Pass, Conflict, SumLedger, ApplyAmountPaid, At, Idle, stripe, events
  <1>1. i \in claimed /\ i \in 1 .. Len(sent)
    BY <1>0, IdFacts DEF OwnsTasks
  <1>2. PICK k \in Handling : k = task[i]
    BY IdFacts
  <1>3. CASE Resolve(i)
    <2>p. PICK l : l = [k EXCEPT !.at = "write", !.seen = row, !.current = TRUE]
      OBVIOUS
    <2>1. l \in Handling /\ l.at = "write" /\ l.about = k.about /\ l.seen = row
      BY <2>p, IdFacts DEF Handling
    <2>2. task' = [task EXCEPT ![i] = l] /\ k.at = "resolve" /\ k.about = sent[i]
      BY <1>2, <1>3, <2>p DEF Resolve, Becomes, At, CatchUp, InTurn
    <2>3. ~Handled(i) /\ (\A j \in Ids : j < i => Handled(j)) /\ \A j \in claimed : ~ i < j
      BY <1>0, <1>1, <1>2, <2>2 DEF Handled, CatchUp, InTurn, Idle
    <2>4. Reading(i, row)
      BY <1>1, <2>3, ReadsWell DEF CatchUp
    <2> QED BY <1>0, <1>2, <2>1, <2>2, <2>4, GoesOnCatchUp
  <1>4. CASE Conflict(i)
    <2>p. PICK l : l = [k EXCEPT !.at = "resolve", !.conflicts = @ + 1]
      OBVIOUS
    <2>1. task' = [task EXCEPT ![i] = l] /\ k.at = "write" /\ k.conflicts < 1 /\ k.about = sent[i]
      BY <1>2, <1>4, <2>p DEF Conflict, Becomes, At, AnswersConflict, CatchUp, InTurn
    <2>2. k.conflicts + 1 \in {0, 1}
      <3>1. k.conflicts \in {0, 1}
        BY DEF Handling
      <3> QED BY <2>1, <3>1
    <2>3. l \in Handling /\ l.at = "resolve" /\ l.about = k.about
      BY <2>p, <2>2 DEF Handling
    <2> QED BY <1>0, <1>2, <2>1, <2>3, GoesOnCatchUp
  <1>5. CASE Pass(i)
    <2>1. task' = [task EXCEPT ![i] = Idle] /\ k.at = "write" /\ k.about = sent[i] /\ Reading(i, k.seen)
      BY <1>2, <1>5 DEF Pass, Ends, Becomes, At, CatchUp, InTurn
    <2>2. Told(i)
      BY <1>2, <1>5, <2>1, PassTold
    <2>3. Idle.at = "idle"
      BY DEF Idle
    <2> QED BY <1>0, <2>1, <2>2, <2>3, IdleOK, GoesOnCatchUp
  <1>6. CASE SumLedger(i)
    <2>p. PICK l : l = [k EXCEPT !.at = "apply", !.sum = Net(row)]
      OBVIOUS
    <2>1. Net(row) \in 0 .. Charged
      BY NetType, IdFacts
    <2>2. l \in Handling /\ l.at = "apply"
      BY <2>p, <2>1 DEF Handling
    <2>3. task' = [task EXCEPT ![i] = l] /\ k.at = "sum"
      BY <1>2, <1>6, <2>p DEF SumLedger, Becomes, At
    <2> QED BY <1>0, <1>2, <2>2, <2>3, GoesOnCatchUp
  <1>7. CASE ApplyAmountPaid(i)
    <2>1. task' = [task EXCEPT ![i] = Idle] /\ k.at = "apply"
      BY <1>2, <1>7 DEF ApplyAmountPaid, Ends, Becomes, At
    <2>2. Idle.at = "idle"
      BY DEF Idle
    <2> QED BY <1>0, <1>2, <2>1, <2>2, IdleOK, GoesOnCatchUp
  <1> QED BY <1>3, <1>4, <1>5, <1>6, <1>7

\* A step of the sweep, the phone or the desk that does not write the row.
LEMMA OthersCatchUp ==
    ASSUME StripeInv, CatchUp, NEW t \in Tasks \ Ids,
           \/ Ask(t) \/ Resolve(t) \/ Pass(t) \/ Conflict(t) \/ ConflictAgain(t) \/ SumLedger(t)
           \/ ApplyAmountPaid(t) \/ Fail(t) \/ Die(t) \/ (t = Desk /\ (Refund \/ RefundRefused))
    PROVE  CatchUp'
  <1>1. UNCHANGED <<intent, returned, sent, row, undelivered>>
    BY DEF Ask, Resolve, Pass, Conflict, ConflictAgain, SumLedger, ApplyAmountPaid, Fail, Die, Throws,
       Refund, RefundRefused, stripe, events
  <1>2. claimed' = claimed \/ claimed' = claimed \ {t}
    BY DEF Ask, Resolve, Pass, Conflict, ConflictAgain, SumLedger, ApplyAmountPaid, Fail, Die, Throws,
       Refund, RefundRefused
  <1>3. \E k : task' = [task EXCEPT ![t] = k]
    BY Zenon DEF Ask, Resolve, Pass, Conflict, ConflictAgain, SumLedger, ApplyAmountPaid, Fail, Die, Throws,
       Refund, RefundRefused, Ends, Becomes
  <1>4. \A i \in Ids : task'[i] = task[i]
    BY <1>3, IdFacts
  <1>5. claimed' \subseteq Ids /\ \A i \in Ids : i \in claimed' <=> i \in claimed
    BY <1>2, IdFacts
  <1> QED BY <1>1, <1>4, <1>5, AsideCatchUp

\* A step forgets nothing that was dropped or early.
LEMMA HeardBefore ==
    ASSUME StripeInv, [Next]_vars, Heard'
    PROVE  Heard
  <1>1. CASE UNCHANGED history
    BY <1>1, Zenon DEF Heard, history
  <1>2. CASE Stripe
    BY <1>1, <1>2, StripeStep DEF StripeInv, Works
  <1>3. ASSUME NEW i \in Ids, Receive(i) PROVE Heard
    <2>1. dropped' = dropped
      BY <1>3, Zenon DEF Receive
    <2>2. CASE i \in claimed
      <3>1. early' = early
        BY <1>3, <2>2, Zenon DEF Receive
      <3> QED BY <2>1, <3>1, Zenon DEF Heard
    <2>3. CASE i \notin claimed
      <3>1. early' = (early \/ ComesEarly(i))
        BY <1>3, <2>3, Zenon DEF Receive
      <3> QED BY <2>1, <3>1, Zenon DEF Heard
    <2> QED BY <2>2, <2>3
  <1>4. ASSUME NEW t \in Tasks, ConflictAgain(t) \/ Fail(t) \/ Die(t) PROVE Heard
    <2>1. early' = early /\ dropped' = (dropped \/ t \in Ids)
      BY <1>4, Zenon DEF ConflictAgain, Fail, Die, Throws
    <2> QED BY <2>1, Zenon DEF Heard
  <1>5. ASSUME NEW t \in Tasks, ApplyAmountPaid(t) PROVE Heard
    <2>1. early' = early /\ dropped' = dropped
      BY <1>5, Zenon DEF ApplyAmountPaid
    <2> QED BY <2>1, Zenon DEF Heard
  <1>6. ASSUME NEW i \in Ids, SendAgain(i) PROVE Heard
    BY <1>1, <1>6, Zenon DEF SendAgain
  <1>7. ASSUME NEW t \in Tasks,
               Ask(t) \/ Resolve(t) \/ Pass(t) \/ Write(t) \/ Conflict(t) \/ SumLedger(t)
        PROVE  Heard
    BY <1>1, <1>7, Zenon DEF Ask, Resolve, Pass, Write, Conflict, SumLedger
  <1>8. CASE Refund \/ CreateRefund \/ RefundRefused \/ UNCHANGED vars
    BY <1>1, <1>8, Zenon DEF Refund, CreateRefund, RefundRefused, vars
  <1> QED BY <1>2, <1>3, <1>4, <1>5, <1>6, <1>7, <1>8 DEF Next, Handle

LEMMA CatchUpStep ==
    ASSUME EventsInv, [Next]_vars, Heard'
    PROVE  CatchUp'
  <1>1. Heard
    BY HeardBefore DEF EventsInv
  <1>2. StripeInv /\ OwnsTasks /\ AsksOnly /\ StripeOrder /\ CatchUp
    BY <1>1 DEF EventsInv
  <1>3. claimed \subseteq Ids /\ Desk \in Tasks \ Ids
    BY <1>2, IdFacts DEF Tasks
  <1>4. CASE Stripe
    BY <1>2, <1>4, StripeStep, SendsCatchUp DEF StripeInv, Works
  <1>5. CASE CreateRefund
    <2>1. UNCHANGED <<claimed, row>> /\ \A i \in Ids : task'[i] = task[i]
      BY <1>2, <1>3, <1>5, IdFacts DEF CreateRefund, Becomes
    <2> QED BY <1>2, <1>5, <2>1, RefundSends, SendsCatchUp
  <1>6. CASE UNCHANGED vars
    BY <1>2, <1>3, <1>6, AsideCatchUp DEF vars, stripe, events
  <1>7. ASSUME NEW i \in Ids, Receive(i) PROVE CatchUp'
    BY <1>2, <1>7, BeginCatchUp
  <1>8. ASSUME NEW i \in Ids, SendAgain(i) PROVE CatchUp'
    BY <1>2, <1>3, <1>8, AsideCatchUp DEF SendAgain, stripe
  <1>9. ASSUME NEW t \in Tasks, Write(t) PROVE CatchUp'
    BY <1>2, <1>9, WriteCatchUp
  <1>10. ASSUME NEW i \in Ids, Ask(i) \/ ConflictAgain(i) \/ Fail(i) \/ Die(i) PROVE CatchUp'
    <2>1. i \notin {Sweep, Phone}
      BY <1>2, <1>10, IdFacts
    <2> QED BY <1>10, <2>1 DEF Ask, ConflictAgain, Fail, Die, Throws, Heard
  <1>11. ASSUME NEW t \in Tasks, Ask(t) \/ Handle(t) \/ Fail(t) \/ Die(t) PROVE CatchUp'
    BY <1>2, <1>9, <1>10, <1>11, HandlesCatchUp, OthersCatchUp DEF Handle
  <1>12. CASE Refund \/ RefundRefused
    BY <1>2, <1>3, <1>12, OthersCatchUp
  <1> QED BY <1>4, <1>5, <1>6, <1>7, <1>8, <1>11, <1>12 DEF Next

LEMMA InitEvents == Init => EventsInv
  <1> SUFFICES ASSUME Init PROVE EventsInv
    OBVIOUS
  <1>1. /\ Len(sent) = 0 /\ 1 .. 0 = {} /\ claimed = {} /\ undelivered = {} /\ dispute = "none"
        /\ intent = "succeeded" => row.status \in {"settled", "refunded"}
        /\ row.status # "reversed" /\ row.refunded = returned /\ returned \in Int
        /\ \A i \in Ids : task[i] = Idle
    BY ChargedAssumption DEF Init, NewRow, Tasks
  <1>2. StripeInv
    BY InitStripe
  <1>3. OwnsTasks /\ AsksOnly
    BY <1>1 DEF OwnsTasks, AsksOnly, Init, Idle, Nothing, OfDispute
  <1>4. StripeOrder
    BY <1>1 DEF StripeOrder, EventsOrder, EventsTell
  <1>5. InTurn
    <2>1. 1 .. Len(sent) = {} /\ \A i \in Ids : task[i].at \notin {"resolve", "write"}
      BY <1>1 DEF Idle
    <2> QED BY <1>1, <2>1 DEF InTurn
  <1>6. RowTold
    BY <1>1 DEF RowTold, Handled, Collected
  <1>7. \A i \in Ids : ~At(i, "write")
    BY <1>1 DEF At, Idle
  <1> QED BY <1>2, <1>3, <1>4, <1>5, <1>6, <1>7 DEF EventsInv, CatchUp

LEMMA EventsInvariant == Spec => []EventsInv
  <1>1. EventsInv /\ [Next]_vars => EventsInv'
    <2> SUFFICES ASSUME EventsInv, [Next]_vars PROVE EventsInv'
      OBVIOUS
    <2>1. StripeInv /\ OwnsTasks /\ AsksOnly /\ StripeOrder
      BY DEF EventsInv
    <2>2. StripeInv' /\ OwnsTasks' /\ AsksOnly' /\ StripeOrder'
      BY <2>1, NextInv, OwnsStep, AsksStep, OrderStep
    <2>3. Heard' => CatchUp'
      BY CatchUpStep
    <2> QED BY <2>2, <2>3 DEF EventsInv
  <1> QED BY <1>1, InitEvents, PTL DEF Spec

\* When every event is handled, each in its turn and none given up, the row of a
\* collected payment says what Stripe did, whatever the sweep, the phone and the
\* desk read and wrote meanwhile and wherever they stopped; but a refund that failed
\* later may still count as given back, and a payment that was given back in full
\* says "settled" when a dispute of it was won.
THEOREM RowFollows == Spec => []RowCatchesUp
  <1>1. EventsInv => RowCatchesUp
    <2> SUFFICES ASSUME EventsInv, Quiet, Heard, intent = "succeeded"
                 PROVE  /\ row.refunded \in returned .. Refunded
                        /\ \/ row.status = Outcome
                           \/ row.status = "settled" /\ row.refunded = Charged /\ dispute = "won"
      BY DEF RowCatchesUp, Heard
    <2>1. StripeInv /\ StripeOrder /\ InTurn /\ RowTold /\ RowOK /\ StripeOK
      BY DEF EventsInv, CatchUp, StripeInv
    <2>2. ASSUME NEW i \in 1 .. Len(sent) PROVE Handled(i) /\ i \in Ids /\ Told(i) /\ Sound(sent[i])
      <3>1. i \in Ids /\ i \in claimed /\ task[i] = Idle
        BY <2>1, IdFacts DEF Quiet, InTurn
      <3>2. Handled(i)
        BY <3>1 DEF Handled, Idle
      <3> QED BY <2>1, <3>1, <3>2, EventSent DEF RowTold, StripeInv
    <2>3. row.status \in Collected
      BY <2>1, <2>2 DEF RowTold
    <2>4. /\ row.refunded \in Nat /\ returned \in Nat /\ bounced \in Nat /\ Charged \in Nat
          /\ row.refunded <= Refunded /\ row.refunded <= Charged
      BY <2>1, IdFacts, ChargedAssumption DEF RowOK, Rows, LedgerIsTrue, StripeOK
    <2>5. row.refunded >= returned
      <3>1. CASE \E i \in 1 .. Len(sent) : OfRefund(i)
        <4>1. PICK i \in 1 .. Len(sent) : /\ OfRefund(i) /\ sent[i].total >= returned
                                          /\ \A j \in i + 1 .. Len(sent) : ~OfRefund(j)
          BY <2>1, <3>1 DEF StripeOrder, EventsTell
        <4>2. ASSUME NEW j \in Ids, i < j, Handled(j), OfRefund(j) PROVE FALSE
          <5>1. j \in 1 .. Len(sent)
            BY <2>1, <4>2, IdFacts DEF Handled
          <5>2. j \in i + 1 .. Len(sent)
            BY <4>2, <5>1
          <5> QED BY <4>1, <4>2, <5>2
        <4>3. row.refunded >= sent[i].total
          BY <2>2, <4>1, <4>2 DEF Told
        <4>4. sent[i].total \in Nat
          BY <2>1, EventSent DEF StripeInv
        <4> QED BY <2>4, <4>1, <4>3, <4>4
      <3>2. CASE \A i \in 1 .. Len(sent) : ~OfRefund(i)
        BY <2>1, <3>2 DEF RowTold
      <3> QED BY <3>1, <3>2
    <2>6. row.refunded \in returned .. Refunded
      BY <2>4, <2>5 DEF Refunded
    <2>7. CASE dispute = "none"
      <3>1. row.status \in {"settled", "refunded"}
        BY <2>1, <2>3, <2>7 DEF RowOK, LedgerIsTrue, Collected
      <3> QED BY <2>1, <2>4, <2>6, <2>7, <3>1 DEF RowOK, Shape, Outcome
    <2>8. CASE dispute = "won"
      <3>1. PICK i \in 1 .. Len(sent) : sent[i].type = "dispute.won"
        BY <2>1, <2>8 DEF StripeOrder, EventsTell
      <3>2. row.status # "reversed"
        BY <2>2, <3>1 DEF Told
      <3> QED BY <2>1, <2>3, <2>4, <2>6, <2>8, <3>2 DEF RowOK, Shape, Outcome, Collected
    <2>9. CASE dispute \in {"open", "lost"}
      <3>1. PICK i \in 1 .. Len(sent) : sent[i].type = "dispute.created"
        BY <2>1, <2>9 DEF StripeOrder, EventsTell
      <3>2. ASSUME NEW j \in Ids, Handled(j), sent[j].type = "dispute.won" PROVE FALSE
        <4>1. j \in 1 .. Len(sent)
          BY <2>1, <3>2, IdFacts DEF Handled
        <4> QED BY <2>2, <2>9, <3>2, <4>1 DEF Sound
      <3>3. row.status = "reversed"
        BY <2>2, <3>1, <3>2 DEF Told
      <3> QED BY <2>6, <2>9, <3>3 DEF Outcome
    <2> QED BY <2>1, <2>7, <2>8, <2>9 DEF StripeOK, Disputes
  <1> QED BY <1>1, EventsInvariant, PTL

---------------------------------------------------------------------------
(* What is being handled comes to an end. *)

LEMMA StepsAre ==
    ASSUME NEW k \in Handling
    PROVE  /\ StepsLeft(k) \in Nat
           /\ k.at = "idle" => StepsLeft(k) = 0
           /\ k.at = "refund" => StepsLeft(k) = 7
           /\ k.at = "resolve" => StepsLeft(k) = 4 + 2 * (1 - k.conflicts)
           /\ k.at = "write" => StepsLeft(k) = 3 + 2 * (1 - k.conflicts)
           /\ k.at = "sum" => StepsLeft(k) = 2
           /\ k.at = "apply" => StepsLeft(k) = 1
           /\ k.at # "idle" => StepsLeft(k) > 0
  <1>1. k.at \in {"idle", "refund", "resolve", "write", "sum", "apply"} /\ k.conflicts \in {0, 1}
    BY DEF Handling
  <1> QED BY <1>1 DEF StepsLeft

\* However a step leaves the tasks, one that was busy is nearer to its end, or only
\* lost the version it read.
Ending(t) ==
    task[t].at # "idle" =>
       \/ task'[t] \in {task[t], [task[t] EXCEPT !.current = FALSE]}
       \/ StepsLeft(task'[t]) \in 0 .. StepsLeft(task[t]) - 1

LEMMA OneEnds ==
    ASSUME StripeInv, StripeInv', NEW t \in Tasks, NEW to, Becomes(t, to),
           task[t].at = "idle" \/ StepsLeft(to) < StepsLeft(task[t])
    PROVE  \A u \in Tasks : Ending(u)
  <1>1. task \in [Tasks -> Handling] /\ task' \in [Tasks -> Handling]
    BY DEF StripeInv, TasksOK
  <1>2. task'[t] = to /\ to \in Handling /\ \A u \in Tasks \ {t} : task'[u] = task[u]
    BY <1>1 DEF Becomes
  <1>3. StepsLeft(to) \in Nat /\ StepsLeft(task[t]) \in Nat
    BY <1>1, <1>2, StepsAre
  <1>4. Ending(t)
    BY <1>2, <1>3 DEF Ending
  <1> QED BY <1>2, <1>4 DEF Ending

LEMMA IdleEnds ==
    ASSUME StripeInv, StripeInv', NEW t \in Tasks, Ends(t)
    PROVE  \A u \in Tasks : Ending(u)
  <1>1. task \in [Tasks -> Handling] /\ Idle \in Handling
    BY IdleOK DEF StripeInv, TasksOK
  <1>2. StepsLeft(Idle) = 0
    BY <1>1, StepsAre DEF Idle
  <1>3. task[t].at = "idle" \/ StepsLeft(Idle) < StepsLeft(task[t])
    BY <1>1, <1>2, StepsAre
  <1> QED BY <1>3, OneEnds DEF Ends

LEMMA HandleEnds ==
    ASSUME StripeInv, StripeInv', NEW t \in Tasks, Handle(t)
    PROVE  \A u \in Tasks : Ending(u)
  <1> DEFINE k == task[t]
  <1>1. k \in Handling /\ k.conflicts \in {0, 1} /\ task' \in [Tasks -> Handling]
    BY DEF StripeInv, TasksOK, Handling
  <1>2. CASE Pass(t) \/ ConflictAgain(t) \/ ApplyAmountPaid(t)
    BY <1>2, IdleEnds DEF Pass, ConflictAgain, Throws, ApplyAmountPaid
  <1>3. ASSUME NEW to, Becomes(t, to) PROVE to \in Handling
    BY <1>1, <1>3 DEF Becomes, StripeInv, TasksOK
  <1>4. CASE Resolve(t)
    <2> DEFINE to == [k EXCEPT !.at = "write", !.seen = row, !.current = TRUE]
    <2>1. k.at = "resolve" /\ Becomes(t, to)
      BY <1>4 DEF Resolve, At
    <2>2. to.at = "write" /\ to.conflicts = k.conflicts
      BY <1>1 DEF Handling
    <2>3. to \in Handling
      BY <1>3, <2>1
    <2> HIDE DEF k, to
    <2>4. StepsLeft(to) < StepsLeft(k)
      BY <1>1, <2>1, <2>2, <2>3, StepsAre
    <2> QED BY <2>1, <2>4, OneEnds DEF k
  <1>5. CASE Conflict(t)
    <2> DEFINE to == [k EXCEPT !.at = "resolve", !.conflicts = k.conflicts + 1]
    <2>1. k.at = "write" /\ Becomes(t, to) /\ k.conflicts < 1
      BY <1>5 DEF Conflict, At, AnswersConflict
    <2>2. to.at = "resolve" /\ to.conflicts = k.conflicts + 1
      BY <1>1 DEF Handling
    <2>3. to \in Handling
      BY <1>3, <2>1
    <2> HIDE DEF k, to
    <2>4. StepsLeft(to) = 4 /\ StepsLeft(k) = 5
      BY <1>1, <2>1, <2>2, <2>3, StepsAre
    <2>5. StepsLeft(to) < StepsLeft(k)
      BY <2>4
    <2> QED BY <2>1, <2>5, OneEnds DEF k
  <1>6. CASE SumLedger(t)
    <2> DEFINE to == [k EXCEPT !.at = "apply", !.sum = Net(row)]
    <2>1. k.at = "sum" /\ Becomes(t, to)
      BY <1>6 DEF SumLedger, At
    <2>2. to.at = "apply"
      BY <1>1 DEF Handling
    <2>3. to \in Handling
      BY <1>3, <2>1
    <2> HIDE DEF k, to
    <2>4. StepsLeft(to) < StepsLeft(k)
      BY <1>1, <2>1, <2>2, <2>3, StepsAre
    <2> QED BY <2>1, <2>4, OneEnds DEF k
  <1>7. CASE Write(t)
    <2>1. /\ k.at = "write" /\ task'[t] = [Idle EXCEPT !.at = "sum"]
          /\ \A u \in Tasks \ {t} : task'[u] \in {task[u], [task[u] EXCEPT !.current = FALSE]}
      BY <1>7 DEF Write, At
    <2>2. task'[t].at = "sum" /\ task'[t] \in Handling
      BY <1>1, <2>1 DEF Idle
    <2>3. StepsLeft(task'[t]) = 2
      BY <2>2, StepsAre
    <2>4. StepsLeft(k) \in {3, 5}
      <3> HIDE DEF k
      <3> QED BY <1>1, <2>1, StepsAre
    <2>5. Ending(t)
      <3>1. 2 \in 0 .. 3 - 1 /\ 2 \in 0 .. 5 - 1
        OBVIOUS
      <3> QED BY <2>3, <2>4, <3>1 DEF Ending
    <2> QED BY <2>1, <2>5 DEF Ending
  <1> QED BY <1>2, <1>4, <1>5, <1>6, <1>7 DEF Handle

\* Whatever others write and Stripe sends meanwhile, an event, an answer or a refund
\* is done with in a few steps: a conflict is answered by reading again once, and
\* an event that comes again does not start over one that is being handled.
THEOREM HandlingComesToAnEnd == Spec => HandlingEnds
  <1>1. ASSUME StripeInv, StripeInv', OwnsTasks, [Next]_vars PROVE (\A t \in Tasks : Ending(t)) \/ UNCHANGED vars
    <2>1. ASSUME task' = task PROVE \A t \in Tasks : Ending(t)
      BY <2>1 DEF Ending
    <2>2. CASE Stripe \/ \E i \in Ids : SendAgain(i)
      BY <2>1, <2>2 DEF Stripe, IntentProcesses, IntentDeclined, IntentCanceled, IntentSucceeds,
         RefundedInDashboard, RefundFails, DisputeOpens, DisputeCloses, Works, SendAgain
    <2>3. ASSUME NEW i \in Ids, Receive(i) PROVE \A t \in Tasks : Ending(t)
      <3>1. CASE i \in claimed
        BY <2>1, <2>3, <3>1 DEF Receive
      <3>2. CASE i \notin claimed
        <4>1. task[i] = Idle
          BY <1>1, <2>3, <3>2 DEF OwnsTasks
        <4>2. i \in Tasks /\ \E to : Becomes(i, to)
          BY <2>3, <3>2 DEF Receive, Tasks
        <4> QED BY <1>1, <4>1, <4>2, OneEnds DEF Idle
      <3> QED BY <3>1, <3>2
    <2>4. ASSUME NEW t \in Tasks, Ask(t) \/ Fail(t) \/ Die(t) PROVE \A u \in Tasks : Ending(u)
      <3>1. CASE Ask(t)
        <4>1. task[t].at = "idle" /\ \E to : Becomes(t, to)
          BY <3>1 DEF Ask, At
        <4> QED BY <1>1, <4>1, OneEnds
      <3>2. CASE Fail(t) \/ Die(t)
        BY <1>1, <3>2, IdleEnds DEF Fail, Die, Throws
      <3> QED BY <2>4, <3>1, <3>2
    <2>5. CASE Refund \/ CreateRefund \/ RefundRefused
      <3> DEFINE k == task[Desk]
      <3>1. Desk \in Tasks /\ k \in Handling
        BY <1>1 DEF Tasks, StripeInv, TasksOK
      <3>2. CASE Refund
        <4>1. task[Desk].at = "idle" /\ \E to : Becomes(Desk, to)
          BY <3>2 DEF Refund, At
        <4> QED BY <1>1, <3>1, <4>1, OneEnds
      <3>3. CASE CreateRefund
        <4> DEFINE to == [k EXCEPT !.at = "write"]
        <4>1. k.at = "refund" /\ Becomes(Desk, to)
          BY <3>3 DEF CreateRefund, At
        <4>2. to.at = "write" /\ to.conflicts \in {0, 1} /\ to \in Handling
          BY <3>1 DEF Handling
        <4> HIDE DEF k, to
        <4>3. StepsLeft(to) < StepsLeft(k)
          BY <3>1, <4>1, <4>2, StepsAre
        <4> QED BY <1>1, <3>1, <4>1, <4>3, OneEnds DEF k
      <3>4. CASE RefundRefused
        BY <1>1, <3>1, <3>4, IdleEnds DEF RefundRefused
      <3> QED BY <2>5, <3>2, <3>3, <3>4
    <2>6. CASE UNCHANGED vars
      BY <2>6
    <2> QED BY <1>1, <2>2, <2>3, <2>4, <2>5, <2>6, HandleEnds DEF Next
  <1>2. StripeInv /\ StripeInv' /\ OwnsTasks /\ [Next]_vars =>
           [\A t \in Tasks : task[t].at # "idle" =>
               \/ task'[t] \in {task[t], [task[t] EXCEPT !.current = FALSE]}
               \/ StepsLeft(task'[t]) \in 0 .. StepsLeft(task[t]) - 1]_vars
    BY <1>1 DEF Ending
  <1>3. Init => OwnsTasks
    BY DEF Init, OwnsTasks, Tasks
  <1>4. StripeInv /\ OwnsTasks /\ [Next]_vars => OwnsTasks'
    BY OwnsStep
  <1> QED BY <1>2, <1>3, <1>4, StripeInvariant, PTL DEF Spec, HandlingEnds
=============================================================================
