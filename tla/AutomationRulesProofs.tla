----------------------- MODULE AutomationRulesProofs -----------------------
(***************************************************************************)
(* What the rule engine promises, for any number of rules, changes of the  *)
(* job, instances, deliveries and faults.                                  *)
(***************************************************************************)
EXTENDS AutomationRules, FiniteSetTheorems, TLAPS

USE RulesAssumption, TimesAssumption

---------------------------------------------------------------------------
(* Which actions touch which part of the state. *)

Messaging(i) == Receive(i) \/ ReceiveMisread(i) \/ ReceiveFails(i) \/ Delete(i)

LEMMA MessageFrame ==
    ASSUME [Next]_vars
    PROVE  \/ UNCHANGED <<message, deal>>
           \/ ChangeStatus \/ Reschedule
           \/ (\E e \in Events : Expire(e)) /\ UNCHANGED deal
           \/ (\E i \in Instances : Messaging(i)) /\ UNCHANGED deal
  <1>1. CASE Tick \/ UNCHANGED vars
    BY <1>1 DEF Tick, vars, deal
  <1>2. ASSUME NEW i \in Instances, HandlerStep(i)
        PROVE  UNCHANGED deal /\ (UNCHANGED message \/ Messaging(i))
    BY <1>2, Zenon DEF HandlerStep, Messaging, Receive, ReceiveMisread, ReceiveFails, Take, Takes, Claim,
       ClaimFails, Arm, ArmFails, Release, ReleaseFails, Run, RunFails, Delete
  <1>3. ASSUME NEW i \in Instances, SweepStep(i) \/ SweepFault(i) \/ Crash(i)
        PROVE  UNCHANGED <<message, deal>>
    BY <1>3, Zenon DEF SweepStep, SweepFault, Crash, StartSweep, Read, TakeOff, Look, ReleaseStale, Rearm,
       RunTimer, ReadFails, TakeOffFails, LookMisread, ReleaseStaleFails, RearmFails, FireFails, Judge
  <1>4. ASSUME NEW e \in Events, Expire(e) PROVE UNCHANGED deal
    BY <1>4, Zenon DEF Expire
  <1> QED BY <1>1, <1>2, <1>3, <1>4, Zenon DEF Next

LEMMA HandlerFrame ==
    ASSUME [Next]_vars
    PROVE  UNCHANGED handler \/ \E i \in Instances : HandlerStep(i) \/ Crash(i)
  <1>1. CASE Tick \/ ChangeStatus \/ Reschedule \/ UNCHANGED vars
    BY <1>1, Zenon DEF Tick, ChangeStatus, Reschedule, Publish, vars
  <1>2. ASSUME NEW i \in Instances, SweepStep(i) \/ SweepFault(i)
        PROVE  UNCHANGED handler
    BY <1>2, Zenon DEF SweepStep, SweepFault, StartSweep, Read, TakeOff, Look, ReleaseStale, Rearm,
       RunTimer, ReadFails, TakeOffFails, LookMisread, ReleaseStaleFails, RearmFails, FireFails, Judge
  <1>3. ASSUME NEW e \in Events, Expire(e) PROVE UNCHANGED handler
    BY <1>3, Zenon DEF Expire
  <1> QED BY <1>1, <1>2, <1>3, Zenon DEF Next

LEMMA SweepFrame ==
    ASSUME [Next]_vars
    PROVE  \/ UNCHANGED <<scheduler, jumped>> /\ (Tick \/ UNCHANGED clock)
           \/ (\E i \in Instances : SweepStep(i) \/ SweepFault(i) \/ Crash(i)) /\ UNCHANGED clock
  <1>1. CASE Tick \/ ChangeStatus \/ Reschedule \/ UNCHANGED vars
    BY <1>1, Zenon DEF Tick, ChangeStatus, Reschedule, Publish, vars, losses
  <1>2. ASSUME NEW i \in Instances, HandlerStep(i)
        PROVE  UNCHANGED <<scheduler, jumped, clock>>
    BY <1>2, Zenon DEF HandlerStep, Receive, ReceiveMisread, ReceiveFails, Take, Takes, Claim, losses,
       ClaimFails, Arm, ArmFails, Release, ReleaseFails, Run, RunFails, Delete
  <1>3. ASSUME NEW i \in Instances, SweepStep(i) \/ SweepFault(i) \/ Crash(i)
        PROVE  UNCHANGED clock
    BY <1>3, Zenon DEF SweepStep, SweepFault, Crash, StartSweep, Read, TakeOff, Look, ReleaseStale, Rearm,
       RunTimer, ReadFails, TakeOffFails, LookMisread, ReleaseStaleFails, RearmFails, FireFails, Judge
  <1>4. ASSUME NEW e \in Events, Expire(e) PROVE UNCHANGED <<scheduler, jumped, clock>>
    BY <1>4, Zenon DEF Expire
  <1> QED BY <1>1, <1>2, <1>3, <1>4, Zenon DEF Next

---------------------------------------------------------------------------
(* The job and its events. *)

QueueTypeOK == job \in Jobs /\ older \in Jobs /\ message \in [Events -> Messages]

MessagesInShape ==
    \A e \in Events :
        /\ message[e].state = "visible" => message[e].receives < MaxReceives
        /\ message[e].state = "none" => message[e].receives = 0
        /\ message[e].to \in Statuses => message[e].from \in Statuses

PublishedInOrder ==
    \A d, e \in Events : d < e /\ message[e].state # "none" => message[d].state # "none"

\* The event of the job's last change.
IsLast(e) == message[e].state # "none" /\ \A d \in Events : d > e => message[d].state = "none"

QueueInv == QueueTypeOK /\ MessagesInShape /\ PublishedInOrder /\ \E e \in Events : IsLast(e)

LEMMA InitQueue == Init => QueueInv
  <1> SUFFICES ASSUME Init PROVE QueueInv
    OBVIOUS
  <1>1. 1 \in Events /\ 0 \in 0 .. MaxReceives
    BY DEF Events
  <1>2. QueueTypeOK
    BY <1>1 DEF Init, QueueTypeOK, Jobs, Messages
  <1>3. \A e \in Events : /\ message[e].to = None
                          /\ message[e].receives = 0
                          /\ message[e].state # "none" <=> e = 1
    BY DEF Init
  <1> HIDE DEF Init
  <1>4. MessagesInShape
    <2> SUFFICES ASSUME NEW e \in Events
                 PROVE  /\ message[e].receives = 0 /\ 0 < MaxReceives
                        /\ message[e].to \notin Statuses
      BY DEF MessagesInShape
    <2>2. None \notin Statuses
      BY Zenon
    <2>3. 0 < MaxReceives
      OBVIOUS
    <2> QED BY <1>3, <2>2, <2>3
  <1>6. PublishedInOrder
    <2>1. \A d \in Events : ~ d < 1
      BY DEF Events
    <2> QED BY <1>3, <2>1 DEF PublishedInOrder
  <1>7. IsLast(1)
    BY <1>1, <1>3 DEF IsLast, Events
  <1> QED BY <1>1, <1>2, <1>4, <1>6, <1>7 DEF QueueInv

\* An event that was published is received, set aside or deleted.
LEMMA HandledQueue ==
    ASSUME QueueInv, UNCHANGED deal, NEW e \in Events, NEW m \in Messages,
           message' = [message EXCEPT ![e] = m],
           message[e].state # "none", m.state # "none",
           m.from = message[e].from, m.to = message[e].to,
           m.state = "visible" => m.receives < MaxReceives
    PROVE  QueueInv' /\ \A d \in Events : IsLast(d)' <=> IsLast(d)
  <1>1. QueueTypeOK'
    BY DEF QueueInv, QueueTypeOK, deal
  <1>2. /\ message'[e] = m
        /\ \A d \in Events : d # e => message'[d] = message[d]
    BY DEF QueueInv, QueueTypeOK
  <1>3. MessagesInShape'
    BY <1>2 DEF QueueInv, MessagesInShape
  <1>4. PublishedInOrder' /\ \A d \in Events : IsLast(d)' <=> IsLast(d)
    BY <1>2 DEF QueueInv, PublishedInOrder, IsLast
  <1> QED BY <1>1, <1>3, <1>4 DEF QueueInv

LEMMA PublishQueue ==
    ASSUME QueueInv, NEW e \in Events, NEW to \in Statuses \cup {None}, job' \in Jobs, Publish(e, to)
    PROVE  QueueInv' /\ IsLast(e)' /\ message'[e].state = "visible"
  <1> DEFINE m == [from |-> job.status, to |-> to, receives |-> message[e].receives, state |-> "visible"]
  <1>1. job \in Jobs /\ message[e] \in Messages /\ message \in [Events -> Messages]
    BY DEF QueueInv, QueueTypeOK
  <1>2. m \in Messages
    BY <1>1 DEF Jobs, Messages
  <1>3. message' = [message EXCEPT ![e] = m]
    BY <1>1 DEF Publish, Messages
  <1>4. message'[e] = m /\ \A d \in Events : d # e => message'[d] = message[d]
    BY <1>1, <1>3
  <1>5. QueueTypeOK'
    BY <1>1, <1>2, <1>3 DEF Publish, QueueTypeOK
  <1>6. message[e].state = "none" /\ \A d \in Events : d < e => message[d].state # "none"
    BY DEF Publish, Events
  <1>7. MessagesInShape'
    BY <1>1, <1>4, <1>6 DEF QueueInv, MessagesInShape, Jobs
  <1>8. PublishedInOrder' /\ IsLast(e)'
    BY <1>4, <1>6 DEF QueueInv, PublishedInOrder, IsLast, Events
  <1> QED BY <1>4, <1>5, <1>7, <1>8 DEF QueueInv

\* A consumer has the delivery of an event in hand.
HandlesPublished ==
    \A i \in Instances : handler[i].at # "idle" =>
        handler[i].event \in Events /\ message[handler[i].event].state # "none"

LEMMA TakesQueue ==
    ASSUME QueueInv, NEW i \in Instances, NEW e \in Events, Takes(i, e), UNCHANGED deal
    PROVE  QueueInv' /\ \A d \in Events : IsLast(d)' <=> IsLast(d)
  <1> DEFINE m == [from |-> message[e].from, to |-> message[e].to,
                   receives |-> message[e].receives + 1, state |-> "inflight"]
  <1>1. message[e] \in Messages /\ message[e].state = "visible" /\ message[e].receives < MaxReceives
    BY DEF QueueInv, QueueTypeOK, MessagesInShape, Takes
  <1>2. m \in Messages /\ m.state = "inflight" /\ m.from = message[e].from /\ m.to = message[e].to
    BY <1>1 DEF Messages
  <1>3. message' = [message EXCEPT ![e] = m]
    BY <1>1 DEF Takes, QueueInv, QueueTypeOK, Messages
  <1> HIDE DEF m
  <1> QED BY <1>1, <1>2, <1>3, HandledQueue

LEMMA ExpireQueue ==
    ASSUME QueueInv, NEW e \in Events, Expire(e), UNCHANGED deal
    PROVE  QueueInv' /\ \A d \in Events : IsLast(d)' <=> IsLast(d)
  <1> DEFINE m == [message[e] EXCEPT !.state =
                      IF message[e].receives = MaxReceives THEN "dead" ELSE "visible"]
  <1>1. message[e] \in Messages /\ message[e].state = "inflight"
    BY DEF QueueInv, QueueTypeOK, Expire
  <1>2. m \in Messages /\ m.state # "none" /\ m.from = message[e].from /\ m.to = message[e].to
        /\ (m.state = "visible" => m.receives < MaxReceives)
    BY <1>1 DEF Messages
  <1>3. message' = [message EXCEPT ![e] = m]
    BY <1>1 DEF Expire, QueueInv, QueueTypeOK, Messages
  <1> HIDE DEF m
  <1> QED BY <1>1, <1>2, <1>3, HandledQueue

LEMMA DeleteQueue ==
    ASSUME QueueInv, HandlesPublished, NEW i \in Instances, Delete(i), UNCHANGED deal
    PROVE  QueueInv' /\ \A d \in Events : IsLast(d)' <=> IsLast(d)
  <1> DEFINE e == handler[i].event
             m == [message[e] EXCEPT !.state = "deleted"]
  <1>1. handler[i].at # "idle" /\ e \in Events /\ message[e].state # "none"
    BY DEF HandlesPublished, Delete, Handles
  <1>2. CASE UNCHANGED message
    BY <1>2 DEF QueueInv, QueueTypeOK, MessagesInShape, PublishedInOrder, IsLast, deal
  <1>3. CASE message' # message
    <2>1. message[e] \in Messages
      BY <1>1 DEF QueueInv, QueueTypeOK
    <2>2. m \in Messages /\ m.state = "deleted" /\ m.from = message[e].from /\ m.to = message[e].to
      BY <2>1 DEF Messages
    <2>3. message' = [message EXCEPT ![e] = m]
      BY <1>1, <1>3, <2>1 DEF Delete, QueueInv, QueueTypeOK, Messages
    <2> HIDE DEF m, e
    <2> QED BY <1>1, <2>2, <2>3, HandledQueue
  <1> QED BY <1>2, <1>3

LEMMA NextQueue ==
    ASSUME QueueInv, HandlesPublished, [Next]_vars
    PROVE  QueueInv'
  <1>1. CASE UNCHANGED <<message, deal>>
    BY <1>1 DEF QueueInv, QueueTypeOK, MessagesInShape, PublishedInOrder, IsLast, deal
  <1>2. CASE ChangeStatus
    <2>1. PICK e \in Events, to \in Statuses \ {job.status} :
            job' = [job EXCEPT !.status = to, !.stamp = e] /\ Publish(e, to)
      BY <1>2 DEF ChangeStatus
    <2>2. job' \in Jobs
      BY <2>1 DEF QueueInv, QueueTypeOK, Jobs
    <2> QED BY <2>1, <2>2, PublishQueue
  <1>3. CASE Reschedule
    <2>1. PICK e \in Events, date \in (Dates \cup {None}) \ {job.date} :
            job' = [job EXCEPT !.date = date] /\ Publish(e, None)
      BY <1>3 DEF Reschedule
    <2>2. job' \in Jobs
      BY <2>1 DEF QueueInv, QueueTypeOK, Jobs
    <2> QED BY <2>1, <2>2, PublishQueue
  <1>4. ASSUME NEW e \in Events, Expire(e), UNCHANGED deal PROVE QueueInv'
    BY <1>4, ExpireQueue
  <1>5. ASSUME NEW i \in Instances, Messaging(i), UNCHANGED deal PROVE QueueInv'
    <2>1. CASE Delete(i)
      BY <1>5, <2>1, DeleteQueue
    <2>2. CASE Receive(i) \/ ReceiveMisread(i) \/ ReceiveFails(i)
      <3>1. PICK e \in Events : Takes(i, e)
        BY <2>2 DEF Receive, ReceiveMisread, ReceiveFails, Take
      <3> QED BY <1>5, <3>1, TakesQueue
    <2> QED BY <1>5, <2>1, <2>2 DEF Messaging
  <1> QED BY <1>1, <1>2, <1>3, <1>4, <1>5, MessageFrame

---------------------------------------------------------------------------
(* Firings, and the state of the handlers. *)

LEMMA OccurrenceTypes ==
    /\ OfCreation \in Occurrences
    /\ \A from \in Statuses, n \in Nat : <<from, n>> \in Occurrences
    /\ \A date \in Dates : OfDate(date) \in Occurrences
  BY DEF Occurrences, OfCreation, OfDate

LEMMA FiredType ==
    ASSUME QueueInv, clock \in Minutes, NEW e \in Events, NEW seen \in Jobs \cup {Unread},
           NEW receipt \in 0 .. MaxReceives
    PROVE  \A f \in Fired(e, seen, receipt) : f \in Firings \cup AtOnce /\ f.rule \in Listeners
  <1>1. Stamp(e, seen, receipt) \in Nat
    <2>1. MaxEvents \in Nat /\ MaxReceives \in Nat /\ e - 1 \in Nat /\ receipt \in Nat
      BY DEF Events
    <2>2. (e - 1) * MaxReceives \in Nat
      BY <2>1
    <2>3. CASE seen = Unread
      BY <2>1, <2>2, <2>3 DEF Stamp
    <2>4. CASE seen # Unread
      BY <2>4 DEF Stamp, Jobs, Events
    <2> QED BY <2>3, <2>4
  <1> SUFFICES ASSUME NEW r \in Listeners, Triggers(e, seen)
               PROVE  [rule |-> r, due |-> DueOf(r, clock),
                       occurrence |-> IF e = 1 THEN OfCreation
                                      ELSE <<message[e].from, Stamp(e, seen, receipt)>>]
                         \in Firings \cup AtOnce
    BY DEF Fired
  <1> DEFINE o == IF e = 1 THEN OfCreation ELSE <<message[e].from, Stamp(e, seen, receipt)>>
  <1>2. o \in Occurrences
    <2>1. CASE e = 1
      BY <2>1, OccurrenceTypes
    <2>2. CASE e # 1
      <3>1. message[e].to = Trigger /\ Trigger \in Statuses
        BY <2>2 DEF Triggers
      <3>2. message[e].from \in Statuses
        BY <3>1 DEF QueueInv, MessagesInShape
      <3> QED BY <1>1, <2>2, <3>2, OccurrenceTypes
    <2> QED BY <2>1, <2>2
  <1>3. \/ DueOf(r, clock) \in Nat
        \/ DueOf(r, clock) = None /\ r \in Notices
    BY DEF DueOf, Listeners, Minutes
  <1> HIDE DEF o
  <1>4. [rule |-> r, due |-> DueOf(r, clock), occurrence |-> o] \in Firings \cup AtOnce
    BY <1>2, <1>3 DEF Firings, AtOnce, Rules
  <1> QED BY <1>4 DEF o

LEMMA DateTypes == \A d \in Dates : d \in Nat /\ d - Before \in Nat
  <1> SUFFICES ASSUME NEW d \in Dates PROVE d \in Nat /\ d - Before \in Nat
    OBVIOUS
  <1>1. d \in 0 .. End /\ d >= Before
    BY DEF Minutes
  <1>2. Before \in Nat /\ End \in Nat
    OBVIOUS
  <1> HIDE RulesAssumption, TimesAssumption
  <1> QED BY <1>1, <1>2

LEMMA OneDate == \A d1, d2 : OfDate(d1) = OfDate(d2) => d1 = d2
  <1> SUFFICES ASSUME NEW d1, NEW d2, <<"date", d1>> = <<"date", d2>> PROVE d1 = d2
    BY DEF OfDate
  <1> QED OBVIOUS

\* A reminder waits for its minute before the date it is for.
RightDue(f) ==
    f.rule \in Reminders => \A date \in Dates : f.occurrence = OfDate(date) => f.due = date - Before

LEMMA RemindedType ==
    ASSUME NEW seen \in Jobs \cup {Unread}
    PROVE  \A f \in Reminded(seen) : f \in Firings /\ RightDue(f)
  <1> SUFFICES ASSUME NEW r \in Reminders, seen.date # None
               PROVE  LET f == [rule |-> r, occurrence |-> OfDate(seen.date), due |-> seen.date - Before]
                      IN  f \in Firings /\ RightDue(f)
    BY DEF Reminded
  <1>1. seen.date \in Dates
    BY DEF Jobs, Unread
  <1>2. seen.date - Before \in Nat
    BY <1>1, DateTypes
  <1>3. OfDate(seen.date) \in Occurrences
    BY <1>1, OccurrenceTypes
  <1> DEFINE f == [rule |-> r, occurrence |-> OfDate(seen.date), due |-> seen.date - Before]
  <1>4. f \in Firings
    BY <1>2, <1>3 DEF Firings, Rules
  <1>5. RightDue(f)
    <2>1. f.due = seen.date - Before /\ f.occurrence = OfDate(seen.date)
      OBVIOUS
    <2> HIDE DEF f
    <2> SUFFICES ASSUME NEW date \in Dates, f.occurrence = OfDate(date) PROVE f.due = date - Before
      BY DEF RightDue
    <2>2. date = seen.date
      BY <2>1, OneDate
    <2> QED BY <2>1, <2>2
  <1> QED BY <1>4, <1>5

HandlerOK(h) ==
    /\ h \in Handlers
    /\ IF h.at \in {"arm", "release", "run"} THEN \E f \in h.hand : h.hand = {f} ELSE h.hand = {}
    /\ h.at \in {"arm", "release"} => h.hand \subseteq Firings
    /\ h.at # "idle" => h.event \in Events
    /\ \A f \in h.todo \cup h.hand : RightDue(f)

HandlersOK == handler \in [Instances -> Handlers] /\ \A i \in Instances : HandlerOK(handler[i])

\* Of the handlers only that of i changes, and now holds F.
HandlerTo(i, F) ==
    /\ HandlersOK'
    /\ handler'[i].hand = F
    /\ \A j \in Instances : j # i => handler'[j] = handler[j]

LEMMA SetHandler ==
    ASSUME HandlersOK, NEW i \in Instances, NEW h, HandlerOK(h), handler' = [handler EXCEPT ![i] = h]
    PROVE  HandlerTo(i, h.hand) /\ handler'[i] = h
  <1>1. h \in Handlers
    BY DEF HandlerOK
  <1>2. handler' \in [Instances -> Handlers] /\ \A j \in Instances : handler'[j] = IF j = i THEN h ELSE handler[j]
    BY <1>1 DEF HandlersOK
  <1>3. HandlersOK'
    BY <1>2 DEF HandlersOK
  <1> QED BY <1>2, <1>3 DEF HandlerTo

LEMMA StaysPublished ==
    ASSUME QueueInv, [Next]_vars, NEW e \in Events, message[e].state # "none"
    PROVE  message'[e].state # "none"
  <1>1. message \in [Events -> Messages]
    BY DEF QueueInv, QueueTypeOK
  <1>2. ASSUME NEW d \in Events, NEW to, Publish(d, to) PROVE message'[e].state # "none"
    BY <1>1, <1>2 DEF Publish, Messages
  <1>3. ASSUME NEW d \in Events, Expire(d) PROVE message'[e].state # "none"
    BY <1>1, <1>3 DEF Expire, Messages
  <1>4. ASSUME NEW i \in Instances, NEW d \in Events, Takes(i, d) PROVE message'[e].state # "none"
    BY <1>1, <1>4 DEF Takes, Messages
  <1>5. ASSUME NEW i \in Instances, Delete(i) PROVE message'[e].state # "none"
    BY <1>1, <1>5 DEF Delete, Messages
  <1> QED BY <1>2, <1>3, <1>4, <1>5, MessageFrame, Zenon
          DEF ChangeStatus, Reschedule, Messaging, Receive, ReceiveMisread, ReceiveFails, Take

LEMMA TakeHandler ==
    ASSUME QueueInv, HandlersOK, clock \in Minutes, NEW i \in Instances, NEW e \in Events,
           NEW seen \in Jobs \cup {Unread}, Take(i, e, seen)
    PROVE  /\ HandlerTo(i, {}) /\ handler[i].hand = {}
           /\ handler'[i].event = e /\ handler'[i].at = "claim" /\ Reminded(seen) \subseteq handler'[i].todo
  <1> DEFINE receipt == message[e].receives + 1
             todo == Fired(e, seen, receipt) \cup Reminded(seen)
             h == [at |-> "claim", event |-> e, receipt |-> receipt, todo |-> todo, hand |-> {}]
  <1>1. receipt \in 0 .. MaxReceives
    BY DEF Take, Takes, QueueInv, QueueTypeOK, MessagesInShape, Messages
  <1>2. \A f \in todo : f \in Firings \cup AtOnce /\ RightDue(f)
    BY <1>1, FiredType, RemindedType DEF RightDue
  <1>3. handler' = [handler EXCEPT ![i] = h] /\ handler[i].at = "idle"
    BY DEF Take, Takes
  <1>4. Reminded(seen) \subseteq todo
    OBVIOUS
  <1> HIDE DEF todo, receipt
  <1>5. HandlerOK(h)
    BY <1>1, <1>2 DEF HandlerOK, Handlers
  <1>6. h.hand = {} /\ h.event = e /\ h.at = "claim" /\ h.todo = todo
    OBVIOUS
  <1> HIDE DEF h
  <1>7. HandlerTo(i, h.hand) /\ handler'[i] = h
    BY <1>3, <1>5, SetHandler
  <1>8. handler[i].hand = {}
    BY <1>3 DEF HandlersOK, HandlerOK
  <1> QED BY <1>4, <1>6, <1>7, <1>8

LEMMA DropsHandler ==
    ASSUME HandlersOK, NEW i \in Instances, NEW f, handler[i].at = "claim", Drops(i, f)
    PROVE  HandlerTo(i, {}) /\ handler[i].hand = {}
  <1> DEFINE h == [handler[i] EXCEPT !.todo = @ \ {f}]
  <1>1. handler[i] \in Handlers /\ HandlerOK(handler[i])
    BY DEF HandlersOK
  <1>2. HandlerOK(h) /\ h.hand = {} /\ handler[i].hand = {}
    <2>1. h \in Handlers
      BY <1>1 DEF Handlers
    <2>2. /\ h.at = "claim" /\ h.event = handler[i].event
          /\ h.todo = handler[i].todo \ {f} /\ h.hand = handler[i].hand
      BY <1>1 DEF Handlers
    <2> HIDE DEF h
    <2> QED BY <1>1, <2>1, <2>2 DEF HandlerOK
  <1>3. handler' = [handler EXCEPT ![i] = h]
    BY DEF Drops
  <1> HIDE DEF h
  <1> QED BY <1>2, <1>3, SetHandler

LEMMA ResumeHandler ==
    ASSUME HandlersOK, NEW i \in Instances, handler[i].at # "idle", Resume(i)
    PROVE  HandlerTo(i, {})
  <1> DEFINE h == [handler[i] EXCEPT !.at = "claim", !.hand = {}]
  <1>1. handler[i] \in Handlers /\ HandlerOK(handler[i])
    BY DEF HandlersOK
  <1>2. HandlerOK(h) /\ h.hand = {}
    <2>1. h \in Handlers
      BY <1>1 DEF Handlers
    <2>2. /\ h.at = "claim" /\ h.event = handler[i].event
          /\ h.todo = handler[i].todo /\ h.hand = {}
      BY <1>1 DEF Handlers
    <2> HIDE DEF h
    <2> QED BY <1>1, <2>1, <2>2 DEF HandlerOK
  <1>3. handler' = [handler EXCEPT ![i] = h]
    BY DEF Resume
  <1> HIDE DEF h
  <1>4. HandlerTo(i, h.hand)
    BY <1>2, <1>3, SetHandler
  <1> QED BY <1>2, <1>4, Zenon

LEMMA ClaimHandler ==
    ASSUME HandlersOK, NEW i \in Instances, handler[i].at = "claim", NEW f \in handler[i].todo,
           handler' = [handler EXCEPT ![i].at = IF f.due = None THEN "run" ELSE "arm",
                                      ![i].todo = @ \ {f}, ![i].hand = {f}]
    PROVE  HandlerTo(i, {f}) /\ handler[i].hand = {} /\ f \in Firings \cup AtOnce
  <1> DEFINE at == IF f.due = None THEN "run" ELSE "arm"
             h == [handler[i] EXCEPT !.at = at, !.todo = @ \ {f}, !.hand = {f}]
  <1>1. handler[i] \in Handlers /\ HandlerOK(handler[i]) /\ f \in Firings \cup AtOnce
    BY DEF HandlersOK, Handlers
  <1>2. at \in {"run", "arm"} /\ (at = "arm" => f \in Firings)
    BY <1>1 DEF AtOnce
  <1>3. handler' = [handler EXCEPT ![i] = h]
    OBVIOUS
  <1>4. HandlerOK(h) /\ h.hand = {f}
    <2> HIDE DEF at
    <2>1. h \in Handlers
      BY <1>1, <1>2 DEF Handlers
    <2>2. /\ h.at = at /\ h.event = handler[i].event
          /\ h.todo = handler[i].todo \ {f} /\ h.hand = {f}
      BY <1>1 DEF Handlers
    <2> HIDE DEF h
    <2> QED BY <1>1, <1>2, <2>1, <2>2 DEF HandlerOK
  <1>5. handler[i].hand = {}
    BY <1>1 DEF HandlerOK
  <1> HIDE DEF h
  <1>6. HandlerTo(i, h.hand)
    BY <1>3, <1>4, SetHandler
  <1> QED BY <1>1, <1>4, <1>5, <1>6

LEMMA ArmFailsHandler ==
    ASSUME HandlersOK, NEW i \in Instances, handler[i].at = "arm",
           handler' = [handler EXCEPT ![i].at = AfterArmFails,
                                      ![i].hand = IF AfterArmFails = "claim" THEN {} ELSE @]
    PROVE  HandlerTo(i, handler[i].hand)
  <1> DEFINE h == [handler[i] EXCEPT !.at = "release"]
  <1>1. handler[i] \in Handlers /\ HandlerOK(handler[i])
    BY DEF HandlersOK
  <1>2. handler' = [handler EXCEPT ![i] = h]
    BY <1>1 DEF AfterArmFails, Handlers
  <1>3. HandlerOK(h) /\ h.hand = handler[i].hand
    <2>1. h \in Handlers
      BY <1>1 DEF Handlers
    <2>2. /\ h.at = "release" /\ h.event = handler[i].event
          /\ h.todo = handler[i].todo /\ h.hand = handler[i].hand
      BY <1>1 DEF Handlers
    <2> HIDE DEF h
    <2> QED BY <1>1, <2>1, <2>2 DEF HandlerOK
  <1> HIDE DEF h
  <1> QED BY <1>2, <1>3, SetHandler

LEMMA RestHandler ==
    ASSUME HandlersOK, NEW i \in Instances, handler' = [handler EXCEPT ![i] = Resting]
    PROVE  HandlerTo(i, {})
  <1>1. HandlerOK(Resting)
    BY DEF HandlerOK, Handlers, Resting
  <1>2. Resting.hand = {}
    BY DEF Resting
  <1> QED BY <1>1, <1>2, SetHandler

---------------------------------------------------------------------------
(* The state of the sweeps. *)

SweeperOK(s) ==
    /\ s \in Sweepers
    /\ IF s.at \in {"look", "release", "rearm", "run"} THEN \E f \in s.hand : s.hand = {f} ELSE s.hand = {}
    /\ s.at \in {"idle", "read"} => s.todo = {}
    /\ s.at # "idle" => s.cursor < s.now
    /\ \A f \in s.todo \cup s.hand : f.due = s.cursor

SweepersOK ==
    /\ sweep \in [Instances -> Sweepers] /\ swept \in [Instances -> Minutes \cup {None}]
    /\ \A i \in Instances : SweeperOK(sweep[i])

\* Of the sweeps only that of i changes, and now holds F.
SweepTo(i, F) ==
    /\ SweepersOK'
    /\ sweep'[i].hand = F
    /\ \A j \in Instances : j # i => sweep'[j] = sweep[j] /\ swept'[j] = swept[j]

LEMMA SetSweep ==
    ASSUME SweepersOK, NEW i \in Instances, NEW s, SweeperOK(s), NEW m \in Minutes \cup {None},
           sweep' = [sweep EXCEPT ![i] = s],
           \/ swept' = [swept EXCEPT ![i] = m]
           \/ UNCHANGED swept /\ m = swept[i]
    PROVE  SweepTo(i, s.hand) /\ sweep'[i] = s /\ swept'[i] = m
  <1>1. s \in Sweepers
    BY DEF SweeperOK
  <1>2. sweep' \in [Instances -> Sweepers] /\ \A j \in Instances : sweep'[j] = IF j = i THEN s ELSE sweep[j]
    BY <1>1 DEF SweepersOK
  <1>3. /\ swept' \in [Instances -> Minutes \cup {None}]
        /\ \A j \in Instances : swept'[j] = IF j = i THEN m ELSE swept[j]
    BY DEF SweepersOK
  <1>4. SweepersOK'
    BY <1>2, <1>3 DEF SweepersOK
  <1> QED BY <1>2, <1>3, <1>4 DEF SweepTo

LEMMA RestSweep ==
    ASSUME SweepersOK, NEW i \in Instances, NEW m \in Minutes \cup {None},
           sweep' = [sweep EXCEPT ![i] = Waiting], swept' = [swept EXCEPT ![i] = m]
    PROVE  SweepTo(i, {}) /\ sweep'[i].at = "idle" /\ swept'[i] = m
  <1>1. SweeperOK(Waiting)
    BY DEF SweeperOK, Sweepers, Waiting, Minutes
  <1>2. Waiting.hand = {} /\ Waiting.at = "idle"
    BY DEF Waiting
  <1>3. SweepTo(i, Waiting.hand) /\ sweep'[i] = Waiting /\ swept'[i] = m
    BY <1>1, SetSweep
  <1> QED BY <1>2, <1>3

\* Where a sweep is once it has gone on.
ProceedsTo(i, todo) ==
    \/ /\ sweep'[i].at = "take" /\ sweep'[i].todo = todo /\ swept'[i] = swept[i]
       /\ sweep'[i].cursor = sweep[i].cursor /\ sweep'[i].now = sweep[i].now
    \/ /\ sweep'[i].at = "read" /\ todo = {} /\ swept'[i] = swept[i]
       /\ sweep'[i].cursor = sweep[i].cursor + 1 /\ sweep'[i].now = sweep[i].now
    \/ /\ sweep'[i].at = "idle" /\ todo = {} /\ swept'[i] = sweep[i].now
       /\ sweep[i].now = sweep[i].cursor + 1

LEMMA ProceedSweep ==
    ASSUME SweepersOK, NEW i \in Instances, sweep[i].at # "idle",
           NEW todo \in SUBSET Firings, \A f \in todo : f.due = sweep[i].cursor, Proceed(i, todo)
    PROVE  SweepTo(i, {}) /\ ProceedsTo(i, todo)
  <1> DEFINE s == sweep[i]
  <1>1. s \in Sweepers /\ s.cursor \in Minutes /\ s.now \in Minutes /\ s.cursor < s.now /\ SweeperOK(s)
    BY DEF SweepersOK, SweeperOK, Sweepers
  <1>2. swept[i] \in Minutes \cup {None}
    BY DEF SweepersOK
  <1>3. CASE todo # {}
    <2> DEFINE t == [s EXCEPT !.at = "take", !.todo = todo, !.hand = {}]
    <2>1. sweep' = [sweep EXCEPT ![i] = t] /\ UNCHANGED swept
      BY <1>3 DEF Proceed
    <2>2. t \in Sweepers
      BY <1>1 DEF Sweepers
    <2>3. t.at = "take" /\ t.now = s.now /\ t.cursor = s.cursor /\ t.todo = todo /\ t.hand = {}
      BY <1>1 DEF Sweepers
    <2> HIDE DEF t
    <2>4. SweeperOK(t)
      BY <1>1, <2>2, <2>3 DEF SweeperOK
    <2>5. SweepTo(i, t.hand) /\ sweep'[i] = t /\ swept'[i] = swept[i]
      BY <1>2, <2>1, <2>4, SetSweep
    <2> QED BY <2>3, <2>5 DEF ProceedsTo
  <1>4. CASE todo = {} /\ s.cursor + 1 < s.now
    <2> DEFINE c == s.cursor + 1
               t == [s EXCEPT !.at = "read", !.cursor = c, !.todo = {}, !.hand = {}]
    <2>1. sweep' = [sweep EXCEPT ![i] = t] /\ UNCHANGED swept
      BY <1>4 DEF Proceed
    <2>2. c \in Minutes /\ c < s.now
      BY <1>1, <1>4 DEF Minutes
    <2> HIDE DEF c
    <2>3. t \in Sweepers
      BY <1>1, <2>2 DEF Sweepers
    <2>4. t.at = "read" /\ t.now = s.now /\ t.cursor = c /\ t.todo = {} /\ t.hand = {}
      BY <1>1 DEF Sweepers
    <2> HIDE DEF t
    <2>5. SweeperOK(t)
      BY <2>2, <2>3, <2>4 DEF SweeperOK
    <2>6. SweepTo(i, t.hand) /\ sweep'[i] = t /\ swept'[i] = swept[i]
      BY <1>2, <2>1, <2>5, SetSweep
    <2> QED BY <1>4, <2>4, <2>6 DEF ProceedsTo, c
  <1>5. CASE todo = {} /\ ~(s.cursor + 1 < s.now)
    <2>1. sweep' = [sweep EXCEPT ![i] = Waiting] /\ swept' = [swept EXCEPT ![i] = s.now]
      BY <1>5 DEF Proceed
    <2>2. s.now = s.cursor + 1
      BY <1>1, <1>5 DEF Minutes
    <2>3. SweepTo(i, {}) /\ sweep'[i].at = "idle" /\ swept'[i] = s.now
      BY <1>1, <2>1, RestSweep
    <2> QED BY <1>5, <2>2, <2>3 DEF ProceedsTo
  <1> QED BY <1>3, <1>4, <1>5

---------------------------------------------------------------------------
(* The board, and what a sweep leaves behind. *)

\* What is new on the board waits for a minute to come, or is known to be late.
BoardStep ==
    /\ board' \subseteq Firings
    /\ overlooked \subseteq overlooked'
    /\ \A f \in board' : f \in board \/ f \in overlooked' \/ ~ f.due < clock

LEMMA ArmsBoard ==
    ASSUME board \subseteq Firings, NEW F \in SUBSET Firings, Arms(F)
    PROVE  BoardStep
  BY DEF Arms, BoardStep

LEMMA HeldType ==
    ASSUME SweepersOK, NEW i \in Instances, sweep[i].at \in {"look", "release", "rearm", "run"}
    PROVE  /\ sweep[i].hand = {InTurn(i)} /\ InTurn(i) \in Firings
           /\ InTurn(i).due = sweep[i].cursor
           /\ [InTurn(i) EXCEPT !.due = QuietTo] \in Firings
           /\ Key([InTurn(i) EXCEPT !.due = QuietTo]) = Key(InTurn(i))
  <1>1. SweeperOK(sweep[i]) /\ sweep[i].hand \subseteq Firings
    BY DEF SweepersOK, Sweepers
  <1>2. PICK f \in sweep[i].hand : sweep[i].hand = {f}
    BY <1>1 DEF SweeperOK
  <1>3. InTurn(i) = f
    BY <1>2 DEF InTurn
  <1>4. f \in Firings /\ f.due = sweep[i].cursor
    BY <1>1, <1>2 DEF SweeperOK
  <1>5. [f EXCEPT !.due = QuietTo] \in Firings
    BY <1>4 DEF Firings
  <1>6. Key([f EXCEPT !.due = QuietTo]) = Key(f)
    BY <1>4 DEF Firings, Key
  <1> QED BY <1>2, <1>3, <1>4, <1>5, <1>6

LEMMA NextBoard == ASSUME board \subseteq Firings, HandlersOK, SweepersOK, [Next]_vars PROVE BoardStep
  <1>1. CASE UNCHANGED <<board, overlooked>>
    BY <1>1 DEF BoardStep
  <1>2. CASE Tick \/ ChangeStatus \/ Reschedule \/ UNCHANGED vars
    BY <1>1, <1>2 DEF Tick, ChangeStatus, Reschedule, Publish, vars, table, losses
  <1>3. CASE \E e \in Events : Expire(e)
    BY <1>1, <1>3 DEF Expire, table
  <1>4. ASSUME NEW i \in Instances, HandlerStep(i) PROVE BoardStep
    <2>1. CASE Arm(i) \/ ArmFails(i)
      <3>1. handler[i].hand \subseteq Firings
        BY <2>1 DEF Arm, ArmFails, Handles, HandlersOK, HandlerOK
      <3> QED BY <1>1, <2>1, <3>1, ArmsBoard, Zenon DEF Arm, ArmFails
    <2>2. CASE ~(Arm(i) \/ ArmFails(i))
      BY <1>1, <1>4, <2>2, Zenon DEF HandlerStep, Receive, ReceiveMisread, ReceiveFails, Take, Takes, Claim,
         losses, table, ClaimFails, Release, ReleaseFails, Run, RunFails, Delete
    <2> QED BY <2>1, <2>2
  <1>5. ASSUME NEW i \in Instances, SweepStep(i) \/ SweepFault(i) \/ Crash(i) PROVE BoardStep
    <2>1. CASE TakeOff(i)
      BY <2>1 DEF TakeOff, BoardStep, losses
    <2>2. CASE TakeOffFails(i)
      BY <2>2 DEF TakeOffFails, BoardStep
    <2>3. CASE Rearm(i) \/ RearmFails(i)
      <3>1. Held(i) \subseteq Firings
        BY <2>3, HeldType DEF Rearm, RearmFails, Sweeps, Held
      <3> QED BY <1>1, <2>3, <3>1, ArmsBoard, Zenon DEF Rearm, RearmFails
    <2>4. CASE ~(TakeOff(i) \/ TakeOffFails(i) \/ Rearm(i) \/ RearmFails(i))
      BY <1>1, <1>5, <2>4, Zenon DEF SweepStep, SweepFault, Crash, StartSweep, Read, Look, ReleaseStale,
         RunTimer, ReadFails, LookMisread, ReleaseStaleFails, FireFails, Judge, losses, table
    <2> QED BY <2>1, <2>2, <2>3, <2>4
  <1> QED BY <1>2, <1>3, <1>4, <1>5 DEF Next

Excused(i, f) == f \in overlooked \/ f.due \in jumped[i]

\* Instance i has passed minute m and left nothing behind.
Past(i, m) == \A f \in board : f.due < m => Excused(i, f)

\* A sweep of i has passed the minutes before its cursor, and of the firings of
\* its cursor those are still on the board that it has to do.
BehindOK(i) ==
    /\ swept[i] # None => swept[i] <= clock /\ Past(i, swept[i])
    /\ sweep[i].at # "idle" => sweep[i].now <= clock /\ Past(i, sweep[i].cursor)
    /\ sweep[i].at \notin {"idle", "read"} =>
         \A f \in board : f.due = sweep[i].cursor => Excused(i, f) \/ f \in sweep[i].todo

SweepInv ==
    /\ clock \in Minutes /\ board \subseteq Firings /\ jumped \in [Instances -> SUBSET Minutes]
    /\ SweepersOK
    /\ \A i \in Instances : BehindOK(i)

LEMMA SweepFacts ==
    ASSUME SweepInv, NEW i \in Instances
    PROVE  /\ clock \in Nat /\ (swept[i] # None => swept[i] \in Nat)
           /\ sweep[i].cursor \in Nat /\ sweep[i].now \in Nat
           /\ \A f \in board : f.due \in Nat
           /\ sweep[i].todo \subseteq Firings /\ sweep[i].hand \subseteq Firings
           /\ SweeperOK(sweep[i])
  BY DEF SweepInv, SweepersOK, SweeperOK, Sweepers, Minutes, Firings

LEMMA PastStays ==
    ASSUME SweepInv, BoardStep, NEW i \in Instances, jumped[i] \subseteq jumped'[i],
           NEW m \in Nat, m <= clock, Past(i, m)
    PROVE  Past(i, m)'
  <1> SUFFICES ASSUME NEW f \in board', f.due < m PROVE Excused(i, f)'
    BY DEF Past
  <1>1. CASE f \in board
    BY <1>1 DEF Past, Excused, BoardStep
  <1>2. CASE f \notin board
    <2>1. ~ f.due < clock \/ f \in overlooked'
      BY <1>2 DEF BoardStep
    <2>2. f.due \in Nat
      BY DEF BoardStep, Firings
    <2> QED BY <2>1, <2>2, SweepFacts DEF Excused
  <1> QED BY <1>1, <1>2

LEMMA BehindStays ==
    ASSUME SweepInv, BoardStep, NEW i \in Instances, UNCHANGED <<sweep[i], swept[i], jumped[i]>>,
           clock' \in Minutes, clock <= clock'
    PROVE  BehindOK(i)'
  <1>1. clock' \in Nat /\ BehindOK(i)
    BY DEF Minutes, SweepInv
  <1>2. swept[i] # None => swept[i] <= clock' /\ Past(i, swept[i])'
    BY <1>1, SweepFacts, PastStays DEF BehindOK
  <1>3. sweep[i].at # "idle" => sweep[i].cursor < sweep[i].now /\ sweep[i].now <= clock
    BY <1>1, SweepFacts DEF BehindOK, SweeperOK
  <1>4. sweep[i].at # "idle" => sweep[i].now <= clock' /\ Past(i, sweep[i].cursor)'
    BY <1>1, <1>3, SweepFacts, PastStays DEF BehindOK
  <1>5. ASSUME sweep[i].at \notin {"idle", "read"}, NEW f \in board', f.due = sweep[i].cursor
        PROVE  Excused(i, f)' \/ f \in sweep[i].todo
    <2>1. f.due < clock
      BY <1>3, <1>5, SweepFacts
    <2> QED BY <1>1, <1>5, <2>1 DEF BehindOK, BoardStep, Excused
  <1> QED BY <1>2, <1>4, <1>5 DEF BehindOK

LEMMA BehindProceeds ==
    ASSUME SweepInv, BoardStep, NEW i \in Instances, sweep[i].at # "idle", UNCHANGED <<clock, jumped[i]>>,
           NEW todo, ProceedsTo(i, todo),
           \A f \in board' : f.due = sweep[i].cursor => Excused(i, f)' \/ f \in todo
    PROVE  BehindOK(i)'
  <1>0. PICK c, n : c = sweep[i].cursor /\ n = sweep[i].now
    OBVIOUS
  <1>1. c \in Nat /\ n \in Nat /\ clock \in Nat /\ c < n /\ n <= clock /\ Past(i, c)
    BY <1>0, SweepFacts DEF SweepInv, BehindOK, SweeperOK
  <1>2. Past(i, c)' /\ (swept[i] # None => swept[i] <= clock /\ \A f \in board' : f.due < swept[i] => Excused(i, f)')
    BY <1>1, SweepFacts, PastStays DEF SweepInv, BehindOK, Past
  <1>3. todo = {} => Past(i, c + 1)'
    <2> SUFFICES ASSUME todo = {}, NEW f \in board', f.due < c + 1 PROVE Excused(i, f)'
      BY DEF Past
    <2>1. f.due \in Nat
      BY DEF BoardStep, Firings
    <2>2. CASE f.due < c
      BY <1>2, <2>2 DEF Past
    <2>3. CASE f.due = c
      BY <1>0, <2>3
    <2> QED BY <1>1, <2>1, <2>2, <2>3
  <1>4. CASE /\ sweep'[i].at = "take" /\ sweep'[i].todo = todo /\ swept'[i] = swept[i]
             /\ sweep'[i].cursor = c /\ sweep'[i].now = n
    BY <1>0, <1>1, <1>2, <1>4 DEF BehindOK, Past
  <1>5. CASE /\ sweep'[i].at = "read" /\ todo = {} /\ swept'[i] = swept[i]
             /\ sweep'[i].cursor = c + 1 /\ sweep'[i].now = n
    BY <1>0, <1>1, <1>2, <1>3, <1>5 DEF BehindOK, Past
  <1>6. CASE /\ sweep'[i].at = "idle" /\ todo = {} /\ swept'[i] = n /\ n = c + 1
    BY <1>0, <1>1, <1>2, <1>3, <1>6 DEF BehindOK, Past
  <1> QED BY <1>0, <1>4, <1>5, <1>6 DEF ProceedsTo

\* A sweep takes its next step with the same minute.
LEMMA BehindGoesOn ==
    ASSUME SweepInv, BoardStep, NEW i \in Instances, sweep[i].at \notin {"idle", "read"},
           UNCHANGED <<clock, jumped[i], swept[i]>>, sweep'[i].at \notin {"idle", "read"},
           sweep'[i].cursor = sweep[i].cursor, sweep'[i].now = sweep[i].now,
           sweep[i].todo \cap board' \subseteq sweep'[i].todo
    PROVE  BehindOK(i)'
  <1>1. BehindOK(i) /\ sweep[i].cursor < sweep[i].now /\ sweep[i].now <= clock
    BY SweepFacts DEF SweepInv, SweeperOK, BehindOK
  <1>2. Past(i, sweep[i].cursor)' /\ (swept[i] # None => swept[i] <= clock /\ Past(i, swept[i])')
    BY <1>1, SweepFacts, PastStays DEF BehindOK
  <1>3. ASSUME NEW f \in board', f.due = sweep[i].cursor
        PROVE  Excused(i, f)' \/ f \in sweep'[i].todo
    <2>1. f.due < clock
      BY <1>1, <1>3, SweepFacts
    <2> QED BY <1>1, <1>3, <2>1 DEF BehindOK, BoardStep, Excused
  <1> QED BY <1>1, <1>2, <1>3 DEF BehindOK

---------------------------------------------------------------------------
(* Where an occurrence can be: what an instance has in hand, for an event  *)
(* or for a timer, and what waits on the board; and the ways it moves.     *)

Slots == {"event", "timer"} \X Instances
Hand(x) == IF x[1] = "event" THEN handler[x[2]].hand ELSE sweep[x[2]].hand

Becomes(x, F) == Hand(x)' = F /\ \A y \in Slots : y # x => Hand(y)' = Hand(y)
Stay == \A y \in Slots : Hand(y)' = Hand(y)

ClaimIn(x) == \E f \in Firings \cup AtOnce :
    /\ Hand(x) = {} /\ Becomes(x, {f})
    /\ Key(f) \notin once /\ once' = once \cup {Key(f)}
    /\ UNCHANGED <<board, over, again, doubted>>

FinishIn(x) ==
    /\ Becomes(x, {})
    /\ over' = over \cup Keys(Hand(x))
    /\ again' = again \/ again' = again \cup (Keys(Hand(x)) \cap over)
    /\ UNCHANGED <<once, board, doubted>>

ReturnIn(x) ==
    /\ Becomes(x, {})
    /\ once' = once \ Keys(Hand(x))
    /\ UNCHANGED <<board, over, again, doubted>>

BoardIn(x) == \E f, g \in Firings :
    /\ Hand(x) = {f} /\ Becomes(x, {})
    /\ Key(f) = Key(g) /\ board' = board \cup {g}
    /\ UNCHANGED <<once, over, again, doubted>>

DoubtIn(x) == \E f \in Firings :
    /\ Hand(x) = {f} /\ Stay
    /\ board' = board \cup {f} /\ doubted' = doubted \cup {Key(f)}
    /\ UNCHANGED <<once, over, again>>

TakeIn(x) == \E f \in board :
    /\ Hand(x) = {} /\ Becomes(x, {f})
    /\ board' = board \ {f}
    /\ UNCHANGED <<once, over, again, doubted>>

LoseRow == \E f \in board :
    /\ Stay
    /\ board' = board \ {f} /\ over' = over \cup {Key(f)}
    /\ UNCHANGED <<once, again, doubted>>

LoseClaim == \E k \in Claims \ once :
    /\ Stay
    /\ once' = once \cup {k} /\ over' = over \cup {k}
    /\ UNCHANGED <<board, again, doubted>>

StopIn(i) ==
    /\ \A y \in Slots : Hand(y)' = IF y[2] = i THEN {} ELSE Hand(y)
    /\ over' = over \cup {Key(f) : f \in handler[i].hand \cup sweep[i].hand}
    /\ UNCHANGED <<once, board, again, doubted>>

NoMove == Stay /\ UNCHANGED <<once, board, over, again, doubted>>

Move ==
    \/ NoMove \/ LoseRow \/ LoseClaim
    \/ \E i \in Instances : StopIn(i)
    \/ \E x \in Slots : \/ ClaimIn(x) \/ FinishIn(x) \/ ReturnIn(x)
                        \/ BoardIn(x) \/ DoubtIn(x) \/ TakeIn(x)

LEMMA HandOf ==
    ASSUME NEW i \in Instances
    PROVE  /\ <<"event", i>> \in Slots /\ Hand(<<"event", i>>) = handler[i].hand
           /\ <<"timer", i>> \in Slots /\ Hand(<<"timer", i>>) = sweep[i].hand
  BY DEF Slots, Hand

LEMMA EventHand ==
    ASSUME NEW i \in Instances, NEW F, HandlerTo(i, F), UNCHANGED sweep
    PROVE  Becomes(<<"event", i>>, F)
  <1>1. Hand(<<"event", i>>)' = F
    BY DEF Hand, HandlerTo
  <1>2. ASSUME NEW y \in Slots, y # <<"event", i>> PROVE Hand(y)' = Hand(y)
    <2>1. PICK c \in {"event", "timer"}, j \in Instances : y = <<c, j>>
      BY DEF Slots
    <2>2. c = "event" => j # i
      BY <1>2, <2>1
    <2>3. handler'[j] = handler[j] \/ c # "event"
      BY <2>2 DEF HandlerTo
    <2> QED BY <2>1, <2>3 DEF Hand
  <1> QED BY <1>1, <1>2 DEF Becomes

LEMMA TimerHand ==
    ASSUME NEW i \in Instances, NEW F, SweepTo(i, F), UNCHANGED handler
    PROVE  Becomes(<<"timer", i>>, F)
  <1>1. Hand(<<"timer", i>>)' = F
    BY DEF Hand, SweepTo
  <1>2. ASSUME NEW y \in Slots, y # <<"timer", i>> PROVE Hand(y)' = Hand(y)
    <2>1. PICK c \in {"event", "timer"}, j \in Instances : y = <<c, j>>
      BY DEF Slots
    <2>2. c = "timer" => j # i
      BY <1>2, <2>1
    <2>3. sweep'[j] = sweep[j] \/ c # "timer"
      BY <2>2 DEF SweepTo
    <2> QED BY <2>1, <2>3 DEF Hand
  <1> QED BY <1>1, <1>2 DEF Becomes

LEMMA SameHand ==
    ASSUME NEW x \in Slots, Becomes(x, Hand(x))
    PROVE  Stay
  BY DEF Becomes, Stay

LEMMA KeysOf ==
    /\ Keys({}) = {}
    /\ \A f : Keys({f}) = {Key(f)}
  BY DEF Keys

---------------------------------------------------------------------------
(* An occurrence that is not doubted is in one place at most. *)

HandsOK ==
    \A x \in Slots : Hand(x) \subseteq Firings \cup AtOnce /\ \A f, g \in Hand(x) : f = g

TablesOK ==
    once \subseteq Claims /\ over \subseteq Claims /\ doubted \subseteq Claims /\ board \subseteq Firings

\* Taken, and not over.
Live(k) == k \in doubted \/ (k \in once /\ k \notin over)

OnePlace ==
    /\ \A f, g \in board : Key(f) = Key(g) => f = g \/ Key(f) \in doubted
    /\ \A f \in board, x \in Slots : \A g \in Hand(x) : Key(f) = Key(g) => Key(f) \in doubted
    /\ \A x, y \in Slots : \A f \in Hand(x), g \in Hand(y) : Key(f) = Key(g) => x = y \/ Key(f) \in doubted

OccurrenceInv ==
    /\ HandsOK /\ TablesOK /\ OnePlace
    /\ \A f \in board : Live(Key(f))
    /\ \A x \in Slots : \A f \in Hand(x) : Live(Key(f))
    /\ over \subseteq once \cup doubted
    /\ again \subseteq doubted
    /\ \A k \in once : \/ k \in over
                       \/ \E f \in board : k = Key(f)
                       \/ \E x \in Slots : \E f \in Hand(x) : k = Key(f)

LEMMA KeyType == \A f \in Firings \cup AtOnce : Key(f) \in Claims
  BY DEF Firings, AtOnce, Key, Claims, Rules, Listeners

LEMMA ClaimKeeps ==
    ASSUME OccurrenceInv, NEW x \in Slots, ClaimIn(x)
    PROVE  OccurrenceInv'
  <1>1. PICK f \in Firings \cup AtOnce :
          /\ Hand(x) = {} /\ Becomes(x, {f}) /\ Key(f) \notin once
          /\ once' = once \cup {Key(f)} /\ UNCHANGED <<board, over, again, doubted>>
    BY DEF ClaimIn
  <1>2. Hand(x)' = {f} /\ \A y \in Slots : y # x => Hand(y)' = Hand(y)
    BY <1>1 DEF Becomes
  <1>3. Key(f) \in Claims
    BY KeyType
  <1>4. HandsOK'
    BY <1>2 DEF OccurrenceInv, HandsOK
  <1>5. TablesOK'
    BY <1>1, <1>3 DEF OccurrenceInv, TablesOK
  <1>6. OnePlace'
    BY <1>1, <1>2 DEF OccurrenceInv, OnePlace, Live
  <1>7. Live(Key(f))' /\ \A k : Live(k) => Live(k)'
    BY <1>1 DEF OccurrenceInv, Live
  <1>8. \A k \in once' : \/ k \in over'
                         \/ \E g \in board' : k = Key(g)
                         \/ \E y \in Slots : \E g \in Hand(y)' : k = Key(g)
    BY <1>1, <1>2 DEF OccurrenceInv
  <1> QED BY <1>1, <1>2, <1>4, <1>5, <1>6, <1>7, <1>8 DEF OccurrenceInv

LEMMA FinishKeeps ==
    ASSUME OccurrenceInv, NEW x \in Slots, FinishIn(x)
    PROVE  OccurrenceInv'
  <1>1. Hand(x)' = {} /\ \A y \in Slots : y # x => Hand(y)' = Hand(y)
    BY DEF FinishIn, Becomes
  <1>2. /\ over' = over \cup Keys(Hand(x))
        /\ again' \subseteq again \cup (Keys(Hand(x)) \cap over)
        /\ UNCHANGED <<once, board, doubted>>
    BY DEF FinishIn
  <1>3. \A f \in Hand(x) : Key(f) \in Claims /\ Live(Key(f))
    BY KeyType DEF OccurrenceInv, HandsOK
  <1>4. \A k : k \in Keys(Hand(x)) <=> \E f \in Hand(x) : k = Key(f)
    BY DEF Keys
  <1>5. HandsOK' /\ TablesOK'
    BY <1>1, <1>2, <1>3, <1>4 DEF OccurrenceInv, HandsOK, TablesOK
  <1>6. OnePlace'
    BY <1>1, <1>2 DEF OccurrenceInv, OnePlace
  <1>7. /\ \A f \in board : Live(Key(f))'
        /\ \A y \in Slots : \A f \in Hand(y)' : Live(Key(f))'
    BY <1>1, <1>2, <1>4 DEF OccurrenceInv, OnePlace, Live
  <1>8. over' \subseteq once \cup doubted /\ again' \subseteq doubted
    BY <1>2, <1>3, <1>4 DEF OccurrenceInv, Live
  <1>9. \A k \in once : \/ k \in over'
                        \/ \E g \in board : k = Key(g)
                        \/ \E y \in Slots : \E g \in Hand(y)' : k = Key(g)
    BY <1>1, <1>2, <1>4 DEF OccurrenceInv
  <1> QED BY <1>2, <1>5, <1>6, <1>7, <1>8, <1>9 DEF OccurrenceInv

LEMMA ReturnKeeps ==
    ASSUME OccurrenceInv, NEW x \in Slots, ReturnIn(x)
    PROVE  OccurrenceInv'
  <1>1. Hand(x)' = {} /\ \A y \in Slots : y # x => Hand(y)' = Hand(y)
    BY DEF ReturnIn, Becomes
  <1>2. once' = once \ Keys(Hand(x)) /\ UNCHANGED <<over, again, board, doubted>>
    BY DEF ReturnIn
  <1>3. \A f \in Hand(x) : Live(Key(f))
    BY DEF OccurrenceInv
  <1>4. \A k : k \in Keys(Hand(x)) <=> \E f \in Hand(x) : k = Key(f)
    BY DEF Keys
  <1>5. HandsOK' /\ TablesOK'
    BY <1>1, <1>2 DEF OccurrenceInv, HandsOK, TablesOK
  <1>6. OnePlace'
    BY <1>1, <1>2 DEF OccurrenceInv, OnePlace
  <1>7. /\ \A f \in board : Live(Key(f))'
        /\ \A y \in Slots : \A f \in Hand(y)' : Live(Key(f))'
    BY <1>1, <1>2, <1>4 DEF OccurrenceInv, OnePlace, Live
  <1>8. over \subseteq once' \cup doubted
    BY <1>2, <1>3, <1>4 DEF OccurrenceInv, Live
  <1>9. \A k \in once' : \/ k \in over
                         \/ \E g \in board : k = Key(g)
                         \/ \E y \in Slots : \E g \in Hand(y)' : k = Key(g)
    BY <1>1, <1>2, <1>4 DEF OccurrenceInv
  <1> QED BY <1>2, <1>5, <1>6, <1>7, <1>8, <1>9 DEF OccurrenceInv

LEMMA BoardKeeps ==
    ASSUME OccurrenceInv, NEW x \in Slots, BoardIn(x)
    PROVE  OccurrenceInv'
  <1>1. PICK f, g \in Firings :
          /\ Hand(x) = {f} /\ Becomes(x, {}) /\ Key(f) = Key(g)
          /\ board' = board \cup {g} /\ UNCHANGED <<once, over, again, doubted>>
    BY DEF BoardIn
  <1>2. Hand(x)' = {} /\ \A y \in Slots : y # x => Hand(y)' = Hand(y)
    BY <1>1 DEF Becomes
  <1>3. Live(Key(g)) /\ \A k : Live(k)' <=> Live(k)
    BY <1>1 DEF OccurrenceInv, Live
  <1>4. HandsOK' /\ TablesOK'
    BY <1>1, <1>2 DEF OccurrenceInv, HandsOK, TablesOK
  <1>5. OnePlace'
    BY <1>1, <1>2 DEF OccurrenceInv, OnePlace
  <1>6. \A k \in once : \/ k \in over
                        \/ \E h \in board' : k = Key(h)
                        \/ \E y \in Slots : \E h \in Hand(y)' : k = Key(h)
    BY <1>1, <1>2 DEF OccurrenceInv
  <1> QED BY <1>1, <1>2, <1>3, <1>4, <1>5, <1>6 DEF OccurrenceInv

LEMMA DoubtKeeps ==
    ASSUME OccurrenceInv, NEW x \in Slots, DoubtIn(x)
    PROVE  OccurrenceInv'
  <1>1. PICK f \in Firings :
          /\ Hand(x) = {f} /\ Stay /\ board' = board \cup {f}
          /\ doubted' = doubted \cup {Key(f)} /\ UNCHANGED <<once, over, again>>
    BY DEF DoubtIn
  <1>2. \A y \in Slots : Hand(y)' = Hand(y)
    BY <1>1 DEF Stay
  <1>3. Key(f) \in Claims
    BY KeyType
  <1>4. HandsOK' /\ TablesOK'
    BY <1>1, <1>2, <1>3 DEF OccurrenceInv, HandsOK, TablesOK
  <1>5. OnePlace'
    BY <1>1, <1>2 DEF OccurrenceInv, OnePlace
  <1>6. Live(Key(f))' /\ \A k : Live(k) => Live(k)'
    BY <1>1 DEF Live
  <1>7. \A k \in once : \/ k \in over
                        \/ \E h \in board' : k = Key(h)
                        \/ \E y \in Slots : \E h \in Hand(y)' : k = Key(h)
    BY <1>1, <1>2 DEF OccurrenceInv
  <1> QED BY <1>1, <1>2, <1>4, <1>5, <1>6, <1>7 DEF OccurrenceInv

LEMMA TakeKeeps ==
    ASSUME OccurrenceInv, NEW x \in Slots, TakeIn(x)
    PROVE  OccurrenceInv'
  <1>1. PICK f \in board :
          /\ Hand(x) = {} /\ Becomes(x, {f}) /\ board' = board \ {f}
          /\ UNCHANGED <<once, over, again, doubted>>
    BY DEF TakeIn
  <1>2. Hand(x)' = {f} /\ \A y \in Slots : y # x => Hand(y)' = Hand(y)
    BY <1>1 DEF Becomes
  <1>3. Live(Key(f)) /\ \A k : Live(k)' <=> Live(k)
    BY <1>1 DEF OccurrenceInv, Live
  <1>4. HandsOK' /\ TablesOK'
    BY <1>1, <1>2 DEF OccurrenceInv, HandsOK, TablesOK
  <1>5. OnePlace'
    BY <1>1, <1>2 DEF OccurrenceInv, OnePlace
  <1>6. \A k \in once : \/ k \in over
                        \/ \E h \in board' : k = Key(h)
                        \/ \E y \in Slots : \E h \in Hand(y)' : k = Key(h)
    BY <1>1, <1>2 DEF OccurrenceInv
  <1> QED BY <1>1, <1>2, <1>3, <1>4, <1>5, <1>6 DEF OccurrenceInv

LEMMA LossKeeps ==
    ASSUME OccurrenceInv, LoseRow \/ LoseClaim
    PROVE  OccurrenceInv'
  <1>1. \A y \in Slots : Hand(y)' = Hand(y)
    BY DEF LoseRow, LoseClaim, Stay
  <1>2. CASE LoseRow
    <2>1. PICK f \in board : /\ board' = board \ {f} /\ over' = over \cup {Key(f)}
                             /\ UNCHANGED <<once, again, doubted>>
      BY <1>2 DEF LoseRow
    <2>2. Key(f) \in Claims /\ Live(Key(f))
      BY KeyType DEF OccurrenceInv, TablesOK
    <2>3. HandsOK' /\ TablesOK' /\ OnePlace'
      BY <1>1, <2>1, <2>2 DEF OccurrenceInv, HandsOK, TablesOK, OnePlace
    <2>4. /\ \A g \in board' : Live(Key(g))'
          /\ \A y \in Slots : \A g \in Hand(y)' : Live(Key(g))'
      BY <1>1, <2>1 DEF OccurrenceInv, OnePlace, Live
    <2>5. \A k \in once : \/ k \in over'
                          \/ \E h \in board' : k = Key(h)
                          \/ \E y \in Slots : \E h \in Hand(y)' : k = Key(h)
      BY <1>1, <2>1 DEF OccurrenceInv
    <2> QED BY <2>1, <2>2, <2>3, <2>4, <2>5 DEF OccurrenceInv, Live
  <1>3. CASE LoseClaim
    <2>1. PICK k \in Claims \ once : /\ once' = once \cup {k} /\ over' = over \cup {k}
                                      /\ UNCHANGED <<board, again, doubted>>
      BY <1>3 DEF LoseClaim
    <2>2. HandsOK' /\ TablesOK' /\ OnePlace'
      BY <1>1, <2>1 DEF OccurrenceInv, HandsOK, TablesOK, OnePlace
    <2>3. \A l : Live(l) => Live(l)'
      BY <2>1 DEF Live
    <2>4. \A l \in once' : \/ l \in over'
                           \/ \E h \in board' : l = Key(h)
                           \/ \E y \in Slots : \E h \in Hand(y)' : l = Key(h)
      BY <1>1, <2>1 DEF OccurrenceInv
    <2> QED BY <1>1, <2>1, <2>2, <2>3, <2>4 DEF OccurrenceInv
  <1> QED BY <1>2, <1>3

LEMMA StopKeeps ==
    ASSUME OccurrenceInv, NEW i \in Instances, StopIn(i)
    PROVE  OccurrenceInv'
  <1> DEFINE F == handler[i].hand \cup sweep[i].hand
  <1>1. /\ \A y \in Slots : Hand(y)' = IF y[2] = i THEN {} ELSE Hand(y)
        /\ over' = over \cup {Key(f) : f \in F}
        /\ UNCHANGED <<once, board, again, doubted>>
    BY DEF StopIn
  <1>2. \A f \in F : \E x \in Slots : x[2] = i /\ f \in Hand(x)
    BY HandOf
  <1>3. \A y \in Slots : y[2] = i => Hand(y) \subseteq F
    BY DEF Slots, Hand
  <1> HIDE DEF F
  <1>4. \A f \in F : Key(f) \in Claims /\ Live(Key(f))
    BY <1>2, KeyType DEF OccurrenceInv, HandsOK
  <1>5. HandsOK' /\ TablesOK' /\ OnePlace'
    BY <1>1, <1>4 DEF OccurrenceInv, HandsOK, TablesOK, OnePlace
  <1>6. /\ \A f \in board : Live(Key(f))'
        /\ \A y \in Slots : \A f \in Hand(y)' : Live(Key(f))'
    BY <1>1, <1>2 DEF OccurrenceInv, OnePlace, Live
  <1>7. over' \subseteq once \cup doubted
    BY <1>1, <1>4 DEF OccurrenceInv, Live
  <1>8. \A k \in once : \/ k \in over'
                        \/ \E g \in board : k = Key(g)
                        \/ \E y \in Slots : \E g \in Hand(y)' : k = Key(g)
    BY <1>1, <1>3 DEF OccurrenceInv
  <1> QED BY <1>1, <1>5, <1>6, <1>7, <1>8 DEF OccurrenceInv

LEMMA MoveKeeps ==
    ASSUME OccurrenceInv, Move
    PROVE  OccurrenceInv'
  <1>1. CASE NoMove
    <2>1. \A y \in Slots : Hand(y)' = Hand(y)
      BY <1>1 DEF NoMove, Stay
    <2> QED BY <1>1, <2>1 DEF NoMove, OccurrenceInv, HandsOK, TablesOK, OnePlace, Live
  <1> QED BY <1>1, ClaimKeeps, FinishKeeps, ReturnKeeps, BoardKeeps, DoubtKeeps, TakeKeeps,
             LossKeeps, StopKeeps DEF Move

---------------------------------------------------------------------------
(* Every step is one of the moves. *)

LEMMA StayOfTables ==
    ASSUME UNCHANGED <<handler, sweep, once, board, ends, doubted>>
    PROVE  Move
  BY DEF Move, NoMove, Stay, Hand, ends

LEMMA TakesMoves ==
    ASSUME QueueInv, HandlersOK, clock \in Minutes, NEW i \in Instances, NEW e \in Events,
           NEW seen \in Jobs \cup {Unread}, Take(i, e, seen)
    PROVE  HandlersOK' /\ Move
  <1>0. HandlerTo(i, {}) /\ handler[i].hand = {}
    BY TakeHandler
  <1>1. HandlerTo(i, Hand(<<"event", i>>))
    BY <1>0, HandOf
  <1>2. UNCHANGED <<sweep, once, board, over, again, doubted>>
    BY DEF Take, Takes, table, scheduler, ends
  <1>3. Stay
    BY <1>1, <1>2, EventHand, SameHand, HandOf
  <1> QED BY <1>1, <1>2, <1>3 DEF HandlerTo, Move, NoMove

LEMMA ClaimMoves ==
    ASSUME HandlersOK, NEW i \in Instances, Claim(i)
    PROVE  HandlersOK' /\ Move
  <1> DEFINE x == <<"event", i>>
  <1>1. handler[i].at = "claim" /\ UNCHANGED <<sweep, board, over, again, doubted>>
    BY DEF Claim, Handles, scheduler, ends
  <1>2. PICK f \in handler[i].todo :
          IF Taken(Key(f))
          THEN Drops(i, f) /\ UNCHANGED once
          ELSE /\ once' = once \cup {Key(f)}
               /\ handler' = [handler EXCEPT ![i].at = IF f.due = None THEN "run" ELSE "arm",
                                             ![i].todo = @ \ {f}, ![i].hand = {f}]
    BY DEF Claim, NextUp
  <1>3. CASE Taken(Key(f))
    <2>1. HandlerTo(i, Hand(x))
      BY <1>1, <1>2, <1>3, DropsHandler, HandOf
    <2>2. Stay
      BY <1>1, <2>1, EventHand, SameHand, HandOf
    <2> QED BY <1>1, <1>2, <1>3, <2>1, <2>2 DEF HandlerTo, Move, NoMove
  <1>4. CASE ~Taken(Key(f))
    <2>1. HandlerTo(i, {f}) /\ Hand(x) = {} /\ f \in Firings \cup AtOnce
      BY <1>1, <1>2, <1>4, ClaimHandler, HandOf
    <2>2. Becomes(x, {f})
      BY <1>1, <2>1, EventHand
    <2>3. ClaimIn(x) /\ x \in Slots
      BY <1>1, <1>2, <1>4, <2>1, <2>2, HandOf DEF ClaimIn, Taken
    <2> QED BY <2>1, <2>3 DEF HandlerTo, Move
  <1> QED BY <1>3, <1>4

LEMMA ClaimFailsMoves ==
    ASSUME HandlersOK, NEW i \in Instances, ClaimFails(i)
    PROVE  HandlersOK' /\ Move
  <1>1. handler[i].at = "claim" /\ UNCHANGED <<sweep, board, again, doubted>>
    BY DEF ClaimFails, Handles, scheduler
  <1>2. PICK f \in handler[i].todo :
          /\ Drops(i, f) /\ Key(f) \notin once
          /\ \/ UNCHANGED <<once, over>>
             \/ once' = once \cup {Key(f)} /\ over' = over \cup {Key(f)}
    BY DEF ClaimFails, NextUp, Taken
  <1>3. HandlerTo(i, Hand(<<"event", i>>))
    BY <1>1, <1>2, DropsHandler, HandOf
  <1>4. Stay
    BY <1>1, <1>3, EventHand, SameHand, HandOf
  <1>5. f \in Firings \cup AtOnce
    BY DEF HandlersOK, Handlers
  <1>6. Key(f) \in Claims \ once
    BY <1>2, <1>5, KeyType
  <1>7. NoMove \/ LoseClaim
    BY <1>1, <1>2, <1>4, <1>6 DEF NoMove, LoseClaim
  <1> QED BY <1>3, <1>7 DEF HandlerTo, Move

LEMMA ArmMoves ==
    ASSUME HandlersOK, NEW i \in Instances, Arm(i) \/ ArmFails(i)
    PROVE  HandlersOK' /\ Move
  <1> DEFINE x == <<"event", i>>
  <1>1. handler[i].at = "arm" /\ UNCHANGED <<sweep, once, over, again>>
    BY DEF Arm, ArmFails, Handles, scheduler, ends
  <1>2. PICK f \in Firings : Hand(x) = {f}
    BY <1>1, HandOf DEF HandlersOK, HandlerOK
  <1>3. x \in Slots /\ handler[i].hand = {f} /\ Keys({f}) = {Key(f)}
    BY <1>2, HandOf, KeysOf
  <1>4. CASE Arm(i)
    <2>1. HandlerTo(i, {})
      BY <1>1, <1>4, ResumeHandler DEF Arm
    <2>2. Becomes(x, {})
      BY <1>1, <2>1, EventHand
    <2>3. board' = board \cup {f} /\ UNCHANGED doubted
      BY <1>3, <1>4 DEF Arm, Arms
    <2>4. BoardIn(x)
      BY <1>1, <1>2, <2>2, <2>3 DEF BoardIn
    <2> QED BY <1>3, <2>1, <2>4 DEF HandlerTo, Move
  <1>5. CASE ArmFails(i)
    <2>1. HandlerTo(i, Hand(x))
      BY <1>1, <1>5, ArmFailsHandler, HandOf DEF ArmFails
    <2>2. Stay
      BY <1>1, <1>3, <2>1, EventHand, SameHand
    <2>3. \/ UNCHANGED <<board, doubted>>
          \/ board' = board \cup {f} /\ doubted' = doubted \cup {Key(f)}
      BY <1>3, <1>5 DEF ArmFails, Arms
    <2>4. NoMove \/ DoubtIn(x)
      BY <1>1, <1>2, <2>2, <2>3 DEF NoMove, DoubtIn
    <2> QED BY <1>3, <2>1, <2>4 DEF HandlerTo, Move
  <1> QED BY <1>4, <1>5

LEMMA ResumeMoves ==
    ASSUME HandlersOK, NEW i \in Instances,
           Release(i) \/ ReleaseFails(i) \/ Run(i) \/ RunFails(i)
    PROVE  HandlersOK' /\ Move
  <1> DEFINE x == <<"event", i>>
  <1>1. handler[i].at # "idle" /\ Resume(i) /\ UNCHANGED <<sweep, board, doubted>>
    BY DEF Release, ReleaseFails, Run, RunFails, Handles, scheduler, table, losses
  <1>2. HandlerTo(i, {})
    BY <1>1, ResumeHandler
  <1>3. Becomes(x, {}) /\ x \in Slots /\ Hand(x) = handler[i].hand
    BY <1>1, <1>2, EventHand, HandOf
  <1>4. CASE Release(i)
    <2>1. ReturnIn(x)
      BY <1>1, <1>3, <1>4 DEF Release, ReturnIn, ends
    <2> QED BY <1>2, <1>3, <2>1 DEF HandlerTo, Move
  <1>5. CASE ReleaseFails(i) \/ Run(i) \/ RunFails(i)
    <2>1. FinishIn(x)
      BY <1>1, <1>3, <1>5 DEF ReleaseFails, Run, RunFails, Runs, FinishIn, table
    <2> QED BY <1>2, <1>3, <2>1 DEF HandlerTo, Move
  <1> QED BY <1>4, <1>5

LEMMA HandlerMoves ==
    ASSUME QueueInv, HandlersOK, clock \in Minutes, NEW i \in Instances, HandlerStep(i)
    PROVE  HandlersOK' /\ Move
  <1>1. CASE Receive(i) \/ ReceiveMisread(i)
    <2>1. job \in Jobs /\ older \in Jobs
      BY DEF QueueInv, QueueTypeOK
    <2>2. PICK e \in Events, seen \in Jobs \cup {Unread} : Take(i, e, seen)
      BY <1>1, <2>1 DEF Receive, ReceiveMisread
    <2> QED BY <2>2, TakesMoves
  <1>2. CASE ReceiveFails(i)
    <2>1. UNCHANGED <<handler, sweep, once, board, ends, doubted>>
      BY <1>2 DEF ReceiveFails, Takes, table, scheduler
    <2>2. HandlersOK'
      BY <2>1 DEF HandlersOK
    <2> QED BY <2>1, <2>2, StayOfTables
  <1>3. CASE Delete(i)
    <2>1. UNCHANGED <<sweep, once, board, over, again, doubted>> /\ handler[i].at = "claim"
          /\ handler' = [handler EXCEPT ![i] = Resting]
      BY <1>3 DEF Delete, scheduler, table, ends, losses, Handles
    <2>2. handler[i].hand = {}
      BY <2>1 DEF HandlersOK, HandlerOK
    <2>3. HandlerTo(i, {})
      BY <2>1, RestHandler
    <2>4. Stay
      BY <2>1, <2>2, <2>3, EventHand, SameHand, HandOf
    <2> QED BY <2>1, <2>3, <2>4 DEF HandlerTo, Move, NoMove
  <1> QED BY <1>1, <1>2, <1>3, ClaimMoves, ClaimFailsMoves, ArmMoves, ResumeMoves DEF HandlerStep

\* What every step of a sweep does.
Goes(i) == (\E F : SweepTo(i, F)) /\ BehindOK(i)' /\ Move

LEMMA StillToDo ==
    ASSUME SweepInv, BoardStep, NEW i \in Instances, sweep[i].at \notin {"idle", "read"}, UNCHANGED jumped
    PROVE  \A f \in board' : f.due = sweep[i].cursor => Excused(i, f)' \/ f \in sweep[i].todo
  <1>1. BehindOK(i) /\ sweep[i].cursor < sweep[i].now /\ sweep[i].now <= clock
    BY SweepFacts DEF SweepInv, SweeperOK, BehindOK
  <1> SUFFICES ASSUME NEW f \in board', f.due = sweep[i].cursor PROVE Excused(i, f)' \/ f \in sweep[i].todo
    OBVIOUS
  <1>2. f.due < clock
    BY <1>1, SweepFacts
  <1> QED BY <1>1, <1>2 DEF BehindOK, BoardStep, Excused

LEMMA ProceedGoes ==
    ASSUME SweepInv, BoardStep, NEW i \in Instances, sweep[i].at # "idle", UNCHANGED <<clock, jumped, handler>>,
           NEW todo \in SUBSET Firings, \A f \in todo : f.due = sweep[i].cursor, Proceed(i, todo),
           \A f \in board' : f.due = sweep[i].cursor => Excused(i, f)' \/ f \in todo
    PROVE  SweepTo(i, {}) /\ BehindOK(i)' /\ Becomes(<<"timer", i>>, {})
  <1>1. SweepTo(i, {}) /\ ProceedsTo(i, todo)
    BY ProceedSweep DEF SweepInv
  <1>2. BehindOK(i)'
    BY <1>1, BehindProceeds
  <1> QED BY <1>1, <1>2, TimerHand

LEMMA InHandGoes ==
    ASSUME SweepInv, BoardStep, NEW i \in Instances, sweep[i].at \in {"look", "release", "rearm", "run"},
           UNCHANGED <<clock, jumped, handler>>, Proceed(i, sweep[i].todo)
    PROVE  SweepTo(i, {}) /\ BehindOK(i)' /\ Becomes(<<"timer", i>>, {})
  <1>1. PICK todo \in SUBSET Firings : todo = sweep[i].todo
    BY SweepFacts
  <1>2. \A f \in todo : f.due = sweep[i].cursor
    BY <1>1, SweepFacts DEF SweeperOK
  <1>3. \A f \in board' : f.due = sweep[i].cursor => Excused(i, f)' \/ f \in todo
    BY <1>1, StillToDo
  <1> QED BY <1>1, <1>2, <1>3, ProceedGoes

LEMMA StartGoes ==
    ASSUME SweepInv, BoardStep, NEW i \in Instances, StartSweep(i)
    PROVE  Goes(i)
  <1>1. /\ sweep[i].at = "idle" /\ UNCHANGED <<clock, handler, once, board, over, again, doubted, overlooked>>
        /\ jumped' = [jumped EXCEPT ![i] =
                        @ \cup {m \in Minutes : m < Start(i) /\ (swept[i] # None => m >= swept[i])}]
        /\ \/ /\ Start(i) < clock /\ UNCHANGED swept
              /\ sweep' = [sweep EXCEPT ![i].at = "read", ![i].now = clock, ![i].cursor = Start(i)]
           \/ ~ Start(i) < clock /\ swept' = [swept EXCEPT ![i] = clock] /\ UNCHANGED sweep
    BY DEF StartSweep, table, ends
  <1>2. clock \in Nat /\ clock \in Minutes /\ (swept[i] # None => swept[i] \in Nat /\ swept[i] <= clock /\ Past(i, swept[i]))
    BY SweepFacts DEF SweepInv, BehindOK
  <1>3. Start(i) \in Nat /\ Start(i) <= clock
    <2>1. Back(clock, Lookback) \in Nat /\ Back(clock, Lookback) <= clock
      BY <1>2 DEF Back
    <2> QED BY <1>2, <2>1 DEF Start
  <1>4. PICK start \in Nat : start = Start(i) /\ start <= clock
    BY <1>3
  <1>5. Past(i, start)'
    <2> SUFFICES ASSUME NEW f \in board, f.due < start PROVE Excused(i, f)'
      BY <1>1 DEF Past
    <2>1. f.due \in Minutes
      BY <1>2, <1>4, SweepFacts DEF Minutes
    <2>2. CASE swept[i] # None /\ f.due < swept[i]
      BY <1>1, <1>2, <2>2 DEF Past, Excused, SweepInv
    <2>3. CASE ~(swept[i] # None /\ f.due < swept[i])
      <3>1. swept[i] # None => f.due >= swept[i]
        BY <1>2, <2>1, <2>3 DEF Minutes
      <3>2. f.due \in jumped'[i]
        BY <1>1, <1>4, <2>1, <3>1 DEF SweepInv
      <3> QED BY <3>2 DEF Excused
    <2> QED BY <2>2, <2>3
  <1>6. jumped[i] \subseteq jumped'[i]
    BY <1>1 DEF SweepInv
  <1>7. SweeperOK(sweep[i]) /\ sweep[i] \in Sweepers /\ sweep[i].hand = {} /\ sweep[i].todo = {}
    BY <1>1, SweepFacts DEF SweeperOK
  <1>8. CASE start < clock
    <2> DEFINE s == [sweep[i] EXCEPT !.at = "read", !.now = clock, !.cursor = start]
    <2>0. start \in Minutes
      BY <1>2, <1>4 DEF Minutes
    <2>1. sweep' = [sweep EXCEPT ![i] = s] /\ UNCHANGED swept
      BY <1>1, <1>4, <1>8, <2>0
    <2>2. s \in Sweepers
      BY <1>2, <1>7, <2>0 DEF Sweepers
    <2>3. s.at = "read" /\ s.now = clock /\ s.cursor = start /\ s.hand = {} /\ s.todo = {}
      BY <1>7 DEF Sweepers
    <2> HIDE DEF s
    <2>4. SweeperOK(s)
      BY <1>8, <2>2, <2>3 DEF SweeperOK
    <2>5. SweepersOK /\ swept[i] \in Minutes \cup {None}
      BY DEF SweepInv, SweepersOK
    <2>6. SweepTo(i, s.hand) /\ sweep'[i] = s /\ swept'[i] = swept[i]
      BY <2>1, <2>4, <2>5, SetSweep
    <2>7. swept[i] # None => \A f \in board' : f.due < swept[i] => Excused(i, f)'
      BY <1>1, <1>2, <1>6 DEF Past, Excused
    <2>8. BehindOK(i)'
      BY <1>1, <1>2, <1>5, <2>3, <2>6, <2>7 DEF BehindOK, Past
    <2>9. Stay
      BY <1>1, <1>7, <2>3, <2>6, TimerHand, SameHand, HandOf
    <2> QED BY <1>1, <2>3, <2>6, <2>8, <2>9 DEF Goes, Move, NoMove
  <1>9. CASE ~ start < clock
    <2>1. swept' = [swept EXCEPT ![i] = clock] /\ UNCHANGED sweep /\ start = clock
      BY <1>1, <1>2, <1>4, <1>9
    <2>2. SweepersOK /\ sweep' = [sweep EXCEPT ![i] = sweep[i]]
      BY <2>1 DEF SweepInv, SweepersOK
    <2>3. PICK s : s = sweep[i]
      OBVIOUS
    <2>4. SweepTo(i, s.hand) /\ sweep'[i] = s /\ swept'[i] = clock
      BY <1>2, <1>7, <2>1, <2>2, <2>3, SetSweep
    <2>5. BehindOK(i)'
      BY <1>1, <1>2, <1>5, <2>1, <2>3, <2>4 DEF BehindOK, Past
    <2>6. Stay
      BY <1>1, <2>1 DEF Stay, Hand
    <2> QED BY <1>1, <2>4, <2>5, <2>6 DEF Goes, Move, NoMove
  <1> QED BY <1>8, <1>9

LEMMA ReadGoes ==
    ASSUME SweepInv, BoardStep, NEW i \in Instances, Read(i)
    PROVE  Goes(i)
  <1>1. /\ sweep[i].at = "read" /\ Proceed(i, {f \in board : f.due = sweep[i].cursor})
        /\ UNCHANGED <<clock, jumped, handler, once, board, over, again, doubted>>
    BY DEF Read, Sweeps, table, ends, losses
  <1>2. PICK todo : todo = {f \in board : f.due = sweep[i].cursor}
    OBVIOUS
  <1>3. todo \in SUBSET Firings
    BY <1>2 DEF SweepInv
  <1>4. SweepTo(i, {}) /\ BehindOK(i)' /\ Becomes(<<"timer", i>>, {})
    BY <1>1, <1>2, <1>3, ProceedGoes
  <1>5. Hand(<<"timer", i>>) = {}
    BY <1>1, SweepFacts, HandOf DEF SweeperOK
  <1>6. Stay
    BY <1>4, <1>5, SameHand, HandOf
  <1> QED BY <1>1, <1>4, <1>6 DEF Goes, Move, NoMove

LEMMA ReadFailsGoes ==
    ASSUME SweepInv, BoardStep, NEW i \in Instances, ReadFails(i)
    PROVE  Goes(i)
  <1>1. /\ sweep[i].at = "read" /\ UNCHANGED <<clock, jumped, handler, once, board, over, again, doubted, overlooked>>
        /\ sweep' = [sweep EXCEPT ![i] = Waiting] /\ swept' = [swept EXCEPT ![i] = sweep[i].cursor]
    BY DEF ReadFails, Sweeps, table, ends, losses, ResumeAt
  <1>2. PICK c \in Minutes : c = sweep[i].cursor
    BY DEF SweepInv, SweepersOK, Sweepers
  <1>3. SweepTo(i, {}) /\ sweep'[i].at = "idle" /\ swept'[i] = c
    BY <1>1, <1>2, RestSweep DEF SweepInv
  <1>4. BehindOK(i) /\ c < sweep[i].now /\ sweep[i].now <= clock
    BY <1>1, <1>2, SweepFacts DEF SweepInv, SweeperOK, BehindOK
  <1>5. Past(i, c)'
    BY <1>1, <1>2, <1>4 DEF Past, Excused, BehindOK
  <1>6. c <= clock
    BY <1>2, <1>4, SweepFacts
  <1>7. BehindOK(i)'
    BY <1>1, <1>3, <1>5, <1>6 DEF BehindOK, Past
  <1>8. Hand(<<"timer", i>>) = {}
    BY <1>1, SweepFacts, HandOf DEF SweeperOK
  <1>9. Stay
    BY <1>1, <1>3, <1>8, TimerHand, SameHand, HandOf
  <1> QED BY <1>1, <1>3, <1>7, <1>9 DEF Goes, Move, NoMove

LEMMA TakeOffGoes ==
    ASSUME SweepInv, BoardStep, NEW i \in Instances, TakeOff(i)
    PROVE  Goes(i)
  <1> DEFINE x == <<"timer", i>>
  <1>1. /\ sweep[i].at = "take"
        /\ UNCHANGED <<clock, jumped, overlooked, handler, once, over, again, doubted>>
    BY DEF TakeOff, Sweeps, ends, losses
  <1>2. PICK f \in sweep[i].todo :
          IF Present(f)
          THEN /\ board' = board \ {f} /\ UNCHANGED swept
               /\ sweep' = [sweep EXCEPT ![i].at = "look", ![i].todo = @ \ {f}, ![i].hand = {f}]
          ELSE Proceed(i, sweep[i].todo \ {f}) /\ UNCHANGED board
    BY DEF TakeOff
  <1>3. /\ SweeperOK(sweep[i]) /\ sweep[i] \in Sweepers /\ sweep[i].todo \subseteq Firings
        /\ Hand(x) = {} /\ x \in Slots
    BY <1>1, SweepFacts, HandOf DEF SweeperOK
  <1>4. CASE f \in board
    <2> DEFINE s == [sweep[i] EXCEPT !.at = "look", !.todo = @ \ {f}, !.hand = {f}]
    <2>1. sweep' = [sweep EXCEPT ![i] = s] /\ UNCHANGED swept /\ board' = board \ {f}
      BY <1>2, <1>4 DEF Present
    <2>2. s \in Sweepers
      BY <1>2, <1>3 DEF Sweepers
    <2>3. /\ s.at = "look" /\ s.now = sweep[i].now /\ s.cursor = sweep[i].cursor
          /\ s.hand = {f} /\ s.todo = sweep[i].todo \ {f}
      BY <1>3 DEF Sweepers
    <2> HIDE DEF s
    <2>4. SweeperOK(s)
      BY <1>1, <1>2, <1>3, <2>2, <2>3 DEF SweeperOK
    <2>5. SweepersOK /\ swept[i] \in Minutes \cup {None}
      BY DEF SweepInv, SweepersOK
    <2>6. SweepTo(i, s.hand) /\ sweep'[i] = s /\ swept'[i] = swept[i]
      BY <2>1, <2>4, <2>5, SetSweep
    <2>7. sweep[i].todo \cap board' \subseteq sweep'[i].todo
      BY <2>1, <2>3, <2>6
    <2>8. BehindOK(i)'
      BY <1>1, <2>3, <2>6, <2>7, BehindGoesOn
    <2>9. Becomes(x, {f})
      BY <1>1, <2>3, <2>6, TimerHand
    <2>10. TakeIn(x)
      BY <1>1, <1>3, <1>4, <2>1, <2>9 DEF TakeIn
    <2> QED BY <1>3, <2>6, <2>8, <2>10 DEF Goes, Move
  <1>5. CASE f \notin board
    <2>1. PICK todo : todo = sweep[i].todo \ {f}
      OBVIOUS
    <2>2. Proceed(i, todo) /\ UNCHANGED board
      BY <1>2, <1>5, <2>1 DEF Present
    <2>3. todo \in SUBSET Firings /\ \A g \in todo : g.due = sweep[i].cursor
      BY <1>3, <2>1 DEF SweeperOK
    <2>4. \A g \in board' : g.due = sweep[i].cursor => Excused(i, g)' \/ g \in todo
      BY <1>1, <1>5, <2>1, <2>2, StillToDo
    <2>5. SweepTo(i, {}) /\ BehindOK(i)' /\ Becomes(x, {})
      BY <1>1, <2>2, <2>3, <2>4, ProceedGoes
    <2>6. Stay
      BY <1>3, <2>5, SameHand
    <2> QED BY <1>1, <2>2, <2>5, <2>6 DEF Goes, Move, NoMove
  <1> QED BY <1>4, <1>5

LEMMA TakeOffFailsGoes ==
    ASSUME SweepInv, BoardStep, NEW i \in Instances, TakeOffFails(i)
    PROVE  Goes(i)
  <1> DEFINE x == <<"timer", i>>
  <1>1. /\ sweep[i].at = "take"
        /\ UNCHANGED <<clock, jumped, handler, once, again, doubted>>
    BY DEF TakeOffFails, Sweeps
  <1>2. PICK f \in sweep[i].todo \cap board :
          /\ Proceed(i, sweep[i].todo \ {f})
          /\ \/ overlooked' = overlooked \cup {f} /\ UNCHANGED <<board, over>>
             \/ board' = board \ {f} /\ over' = over \cup {Key(f)} /\ UNCHANGED overlooked
    BY DEF TakeOffFails
  <1>3. /\ SweeperOK(sweep[i]) /\ sweep[i].todo \subseteq Firings
        /\ Hand(x) = {} /\ x \in Slots
    BY <1>1, SweepFacts, HandOf DEF SweeperOK
  <1>4. PICK todo : todo = sweep[i].todo \ {f}
    OBVIOUS
  <1>5. todo \in SUBSET Firings /\ \A g \in todo : g.due = sweep[i].cursor
    BY <1>3, <1>4 DEF SweeperOK
  <1>6. \A g \in board' : g.due = sweep[i].cursor => Excused(i, g)' \/ g \in sweep[i].todo
    BY <1>1, StillToDo
  <1>7. f \in board' => Excused(i, f)'
    BY <1>2 DEF Excused
  <1>8. \A g \in board' : g.due = sweep[i].cursor => Excused(i, g)' \/ g \in todo
    BY <1>4, <1>6, <1>7
  <1>9. SweepTo(i, {}) /\ BehindOK(i)' /\ Becomes(x, {})
    BY <1>1, <1>2, <1>4, <1>5, <1>8, ProceedGoes
  <1>10. Stay
    BY <1>3, <1>9, SameHand
  <1>11. NoMove \/ LoseRow
    BY <1>1, <1>2, <1>10 DEF NoMove, LoseRow
  <1> QED BY <1>9, <1>11 DEF Goes, Move

LEMMA InHandMoves ==
    ASSUME SweepInv, BoardStep, NEW i \in Instances,
           ReleaseStale(i) \/ ReleaseStaleFails(i) \/ Rearm(i) \/ RearmFails(i) \/ RunTimer(i) \/ FireFails(i)
    PROVE  Goes(i)
  <1> DEFINE x == <<"timer", i>>
  <1>1. /\ sweep[i].at \in {"look", "release", "rearm", "run"} /\ Proceed(i, sweep[i].todo)
        /\ UNCHANGED <<clock, jumped, doubted, handler>>
    BY DEF ReleaseStale, ReleaseStaleFails, Rearm, RearmFails, RunTimer, FireFails, Sweeps, losses
  <1>2. SweepTo(i, {}) /\ BehindOK(i)' /\ Becomes(x, {})
    BY <1>1, InHandGoes
  <1>3. PICK f \in Firings : f = InTurn(i) /\ Hand(x) = {f} /\ sweep[i].hand = {f}
    BY <1>1, HeldType, HandOf DEF SweepInv
  <1>4. Keys(Hand(x)) = {Key(f)} /\ x \in Slots
    BY <1>3, KeysOf, HandOf
  <1>5. CASE ReleaseStale(i)
    <2>1. ReturnIn(x)
      BY <1>2, <1>3, <1>4, <1>5 DEF ReleaseStale, ReturnIn, ends, losses
    <2> QED BY <1>2, <1>4, <2>1 DEF Goes, Move
  <1>6. CASE ReleaseStaleFails(i) \/ FireFails(i)
    <2>1. FinishIn(x)
      BY <1>1, <1>2, <1>3, <1>4, <1>6 DEF ReleaseStaleFails, FireFails, FinishIn, table
    <2> QED BY <1>2, <1>4, <2>1 DEF Goes, Move
  <1>7. CASE RunTimer(i)
    <2>1. FinishIn(x)
      BY <1>1, <1>2, <1>3, <1>4, <1>7 DEF RunTimer, Runs, FinishIn, table
    <2> QED BY <1>2, <1>4, <2>1 DEF Goes, Move
  <1>8. CASE Rearm(i) \/ RearmFails(i)
    <2> DEFINE g == [f EXCEPT !.due = QuietTo]
    <2>1. g \in Firings /\ Key(g) = Key(f) /\ Held(i) = {g}
      BY <1>1, <1>3, HeldType DEF SweepInv, Held
    <2> HIDE DEF g
    <2>2. \/ board' = board \cup {g} /\ UNCHANGED over
          \/ board' = board /\ over' = over \cup {Key(f)}
      BY <1>3, <1>8, <2>1 DEF Rearm, RearmFails, Arms, ends
    <2>3. UNCHANGED <<once, again>>
      BY <1>8 DEF Rearm, RearmFails, ends
    <2>4. BoardIn(x) \/ FinishIn(x)
      BY <1>1, <1>2, <1>3, <1>4, <2>1, <2>2, <2>3 DEF BoardIn, FinishIn
    <2> QED BY <1>2, <1>4, <2>4 DEF Goes, Move
  <1> QED BY <1>5, <1>6, <1>7, <1>8

LEMMA JudgeGoes ==
    ASSUME SweepInv, BoardStep, NEW i \in Instances, NEW seen, Judge(i, seen)
    PROVE  Goes(i)
  <1> DEFINE x == <<"timer", i>>
  <1>1. /\ sweep[i].at = "look"
        /\ UNCHANGED <<clock, jumped, overlooked, handler, once, board, again, doubted>>
    BY DEF Judge, Sweeps, table, losses
  <1>2. PICK f \in Firings : f = InTurn(i) /\ Hand(x) = {f}
    <2>1. sweep[i].hand = {InTurn(i)} /\ InTurn(i) \in Firings
      BY <1>1, HeldType DEF SweepInv
    <2>2. Hand(x) = sweep[i].hand
      BY HandOf
    <2> QED BY <2>1, <2>2
  <1>3. \/ Proceed(i, sweep[i].todo) /\ over' = over \cup {Key(f)}
        \/ \E step \in {"release", "rearm", "run"} :
             sweep' = [sweep EXCEPT ![i].at = step] /\ UNCHANGED <<swept, over>>
    BY <1>2 DEF Judge
  <1>4. Keys(Hand(x)) = {Key(f)} /\ x \in Slots
    BY <1>2, KeysOf, HandOf
  <1>5. CASE Proceed(i, sweep[i].todo) /\ over' = over \cup {Key(f)}
    <2>1. SweepTo(i, {}) /\ BehindOK(i)' /\ Becomes(x, {})
      BY <1>1, <1>5, InHandGoes
    <2>2. FinishIn(x)
      BY <1>1, <1>4, <1>5, <2>1 DEF FinishIn
    <2> QED BY <1>4, <2>1, <2>2 DEF Goes, Move
  <1>6. ASSUME NEW step \in {"release", "rearm", "run"},
               sweep' = [sweep EXCEPT ![i].at = step], UNCHANGED <<swept, over>>
        PROVE  Goes(i)
    <2> DEFINE s == [sweep[i] EXCEPT !.at = step]
    <2>0. SweeperOK(sweep[i]) /\ sweep[i] \in Sweepers
      BY SweepFacts DEF SweeperOK
    <2>1. sweep' = [sweep EXCEPT ![i] = s]
      BY <1>6
    <2>2. s \in Sweepers
      BY <2>0 DEF Sweepers
    <2>3. /\ s.at = step /\ s.now = sweep[i].now /\ s.cursor = sweep[i].cursor
          /\ s.hand = sweep[i].hand /\ s.todo = sweep[i].todo
      BY <2>0 DEF Sweepers
    <2> HIDE DEF s
    <2>4. SweeperOK(s)
      BY <1>1, <2>0, <2>2, <2>3 DEF SweeperOK
    <2>5. SweepersOK /\ swept[i] \in Minutes \cup {None}
      BY DEF SweepInv, SweepersOK
    <2>6. SweepTo(i, s.hand) /\ sweep'[i] = s /\ swept'[i] = swept[i]
      BY <1>6, <2>1, <2>4, <2>5, SetSweep
    <2>7. BehindOK(i)'
      BY <1>1, <1>6, <2>3, <2>6, BehindGoesOn
    <2>8. Stay
      BY <1>1, <2>3, <2>6, TimerHand, SameHand, HandOf
    <2> QED BY <1>1, <1>6, <2>6, <2>7, <2>8 DEF Goes, Move, NoMove
  <1> QED BY <1>3, <1>5, <1>6

LEMMA SweepGoes ==
    ASSUME SweepInv, BoardStep, NEW i \in Instances, SweepStep(i) \/ SweepFault(i)
    PROVE  Goes(i)
  BY StartGoes, ReadGoes, ReadFailsGoes, TakeOffGoes, TakeOffFailsGoes, InHandMoves, JudgeGoes
     DEF SweepStep, SweepFault, Look, LookMisread

LEMMA CrashGoes ==
    ASSUME HandlersOK, SweepInv, NEW i \in Instances, Crash(i)
    PROVE  HandlersOK' /\ Goes(i)
  <1>1. /\ handler' = [handler EXCEPT ![i] = Resting]
        /\ sweep' = [sweep EXCEPT ![i] = Waiting] /\ swept' = [swept EXCEPT ![i] = None]
        /\ over' = over \cup Keys(handler[i].hand \cup sweep[i].hand)
        /\ UNCHANGED <<clock, once, board, again, doubted>>
    BY DEF Crash, table, losses
  <1>2. HandlerTo(i, {})
    BY <1>1, RestHandler
  <1>3. SweepTo(i, {}) /\ sweep'[i].at = "idle" /\ swept'[i] = None
    BY <1>1, RestSweep DEF SweepInv
  <1>4. BehindOK(i)'
    BY <1>3 DEF BehindOK
  <1>5. ASSUME NEW y \in Slots PROVE Hand(y)' = IF y[2] = i THEN {} ELSE Hand(y)
    <2>1. PICK c \in {"event", "timer"}, j \in Instances : y = <<c, j>>
      BY DEF Slots
    <2>2. CASE j = i
      BY <1>2, <1>3, <2>1, <2>2 DEF Hand, HandlerTo, SweepTo
    <2>3. CASE j # i
      <3>1. handler'[j] = handler[j] /\ sweep'[j] = sweep[j]
        BY <1>2, <1>3, <2>3 DEF HandlerTo, SweepTo
      <3> QED BY <2>1, <2>3, <3>1 DEF Hand
    <2> QED BY <2>2, <2>3
  <1>6. StopIn(i)
    BY <1>1, <1>5 DEF StopIn, Keys
  <1> QED BY <1>2, <1>3, <1>4, <1>6 DEF HandlerTo, Goes, Move

LEMMA NextHandlers ==
    ASSUME QueueInv, HandlersOK, SweepInv, [Next]_vars
    PROVE  HandlersOK' /\ Move
  <1>1. CASE Tick \/ ChangeStatus \/ Reschedule \/ UNCHANGED vars
    <2>1. UNCHANGED <<handler, sweep, once, board, ends, doubted>>
      BY <1>1, Zenon DEF Tick, ChangeStatus, Reschedule, Publish, vars, losses, table, scheduler
    <2> QED BY <2>1, StayOfTables DEF HandlersOK
  <1>2. ASSUME NEW e \in Events, Expire(e) PROVE HandlersOK' /\ Move
    <2>1. UNCHANGED <<handler, sweep, once, board, ends, doubted>>
      BY <1>2, Zenon DEF Expire, table, scheduler
    <2> QED BY <2>1, StayOfTables DEF HandlersOK
  <1>3. ASSUME NEW i \in Instances, HandlerStep(i) PROVE HandlersOK' /\ Move
    BY <1>3, HandlerMoves DEF SweepInv
  <1>4. ASSUME NEW i \in Instances, SweepStep(i) \/ SweepFault(i) PROVE HandlersOK' /\ Move
    <2>1. BoardStep
      BY NextBoard DEF SweepInv
    <2>2. Move
      BY <1>4, <2>1, SweepGoes DEF Goes
    <2>3. UNCHANGED handler
      BY <1>4, Zenon DEF SweepStep, SweepFault, StartSweep, Read, TakeOff, Look, ReleaseStale, Rearm,
         RunTimer, ReadFails, TakeOffFails, LookMisread, ReleaseStaleFails, RearmFails, FireFails, Judge
    <2> QED BY <2>2, <2>3 DEF HandlersOK
  <1>5. ASSUME NEW i \in Instances, Crash(i) PROVE HandlersOK' /\ Move
    BY <1>5, CrashGoes DEF Goes
  <1> QED BY <1>1, <1>2, <1>3, <1>4, <1>5 DEF Next

LEMMA NextSweep ==
    ASSUME HandlersOK, SweepInv, [Next]_vars
    PROVE  SweepInv'
  <1>1. BoardStep
    BY NextBoard DEF SweepInv
  <1>2. board' \subseteq Firings
    BY <1>1 DEF BoardStep
  <1>3. CASE UNCHANGED <<scheduler, jumped>> /\ (Tick \/ UNCHANGED clock)
    <2>1. UNCHANGED <<sweep, swept, jumped>>
      BY <1>3 DEF scheduler
    <2>2. clock' \in Minutes /\ clock <= clock'
      BY <1>3 DEF Tick, SweepInv, Minutes
    <2>3. SweepersOK'
      BY <2>1 DEF SweepInv, SweepersOK
    <2>4. \A i \in Instances : BehindOK(i)'
      BY <1>1, <2>1, <2>2, BehindStays
    <2> QED BY <1>2, <2>1, <2>2, <2>3, <2>4 DEF SweepInv
  <1>4. ASSUME NEW i \in Instances, SweepStep(i) \/ SweepFault(i) \/ Crash(i), UNCHANGED clock
        PROVE  SweepInv'
    <2>1. Goes(i)
      BY <1>1, <1>4, SweepGoes, CrashGoes
    <2>2. /\ SweepersOK' /\ BehindOK(i)'
          /\ \A j \in Instances : j # i => sweep'[j] = sweep[j] /\ swept'[j] = swept[j]
      BY <2>1 DEF Goes, SweepTo
    <2>3. \/ UNCHANGED jumped
          \/ \E M \in SUBSET Minutes : jumped' = [jumped EXCEPT ![i] = M]
      <3>1. CASE StartSweep(i)
        <4> DEFINE M == {m \in Minutes : m < Start(i) /\ (swept[i] # None => m >= swept[i])}
        <4>1. jumped' = [jumped EXCEPT ![i] = @ \cup M]
          BY <3>1 DEF StartSweep
        <4>2. jumped[i] \cup M \in SUBSET Minutes
          BY DEF SweepInv
        <4> HIDE DEF M
        <4> QED BY <4>1, <4>2
      <3>2. CASE ~ StartSweep(i)
        BY <1>4, <3>2, Zenon DEF SweepStep, SweepFault, Crash, Read, TakeOff, Look, ReleaseStale, Rearm,
           RunTimer, ReadFails, TakeOffFails, LookMisread, ReleaseStaleFails, RearmFails, FireFails,
           Judge, losses
      <3> QED BY <3>1, <3>2
    <2>4. jumped' \in [Instances -> SUBSET Minutes] /\ \A j \in Instances : j # i => jumped'[j] = jumped[j]
      BY <2>3 DEF SweepInv
    <2>5. clock \in Minutes /\ clock' \in Minutes /\ clock <= clock'
      BY <1>4, SweepFacts DEF SweepInv, Minutes
    <2>6. ASSUME NEW j \in Instances, j # i PROVE BehindOK(j)'
      BY <1>1, <2>2, <2>4, <2>5, <2>6, BehindStays
    <2> QED BY <1>2, <2>2, <2>4, <2>5, <2>6 DEF SweepInv
  <1> QED BY <1>3, <1>4, SweepFrame

---------------------------------------------------------------------------
(* The inductive invariant, and the theorems. *)

EngineInv ==
    /\ faults \in 0 .. MaxFaults
    /\ QueueInv /\ HandlersOK /\ HandlesPublished
    /\ SweepInv /\ OccurrenceInv

LEMMA NextFaults ==
    ASSUME faults \in 0 .. MaxFaults, [Next]_vars
    PROVE  faults' \in 0 .. MaxFaults
  <1>1. UNCHANGED faults \/ Fault
    <2>1. CASE Tick \/ ChangeStatus \/ Reschedule \/ (\E e \in Events : Expire(e)) \/ UNCHANGED vars
      BY <2>1, Zenon DEF Tick, ChangeStatus, Reschedule, Publish, Expire, vars
    <2>2. ASSUME NEW i \in Instances, HandlerStep(i) PROVE UNCHANGED faults \/ Fault
      BY <2>2, Zenon DEF HandlerStep, Receive, ReceiveMisread, ReceiveFails, Claim, ClaimFails,
         Arm, ArmFails, Release, ReleaseFails, Run, RunFails, Delete
    <2>3. ASSUME NEW i \in Instances, SweepStep(i) \/ SweepFault(i) \/ Crash(i) PROVE UNCHANGED faults \/ Fault
      BY <2>3, Zenon DEF SweepStep, SweepFault, Crash, StartSweep, Read, TakeOff, Look, ReleaseStale, Rearm,
         RunTimer, ReadFails, TakeOffFails, LookMisread, ReleaseStaleFails, RearmFails, FireFails
    <2> QED BY <2>1, <2>2, <2>3 DEF Next
  <1> QED BY <1>1 DEF Fault

LEMMA NextPublished ==
    ASSUME QueueInv, HandlersOK, HandlesPublished, SweepInv, [Next]_vars
    PROVE  HandlesPublished'
  <1>1. HandlersOK'
    BY NextHandlers
  <1> SUFFICES ASSUME NEW i \in Instances, handler'[i].at # "idle"
               PROVE  /\ handler'[i].event \in Events
                      /\ message'[handler'[i].event].state # "none"
    BY DEF HandlesPublished
  <1>2. handler'[i].event \in Events
    BY <1>1 DEF HandlersOK, HandlerOK
  <1>3. \/ message[handler'[i].event].state # "none"
        \/ \E e \in Events, seen \in Jobs \cup {Unread} : Take(i, e, seen)
    <2>1. CASE UNCHANGED handler
      BY <2>1 DEF HandlesPublished
    <2>2. ASSUME NEW j \in Instances, HandlerStep(j) \/ Crash(j), ~ UNCHANGED handler
          PROVE  \/ handler'[i].event = handler[i].event /\ handler[i].at # "idle"
                 \/ \E e \in Events, seen \in Jobs \cup {Unread} : Take(i, e, seen)
      <3>0. handler \in [Instances -> Handlers] /\ handler' \in [Instances -> Handlers]
        BY <1>1 DEF HandlersOK
      <3>1. CASE Receive(j) \/ ReceiveMisread(j)
        <4>1. job \in Jobs /\ older \in Jobs
          BY DEF QueueInv, QueueTypeOK
        <4>2. PICK e \in Events, seen \in Jobs \cup {Unread} : Take(j, e, seen)
          BY <3>1, <4>1 DEF Receive, ReceiveMisread
        <4>3. i # j => handler'[i] = handler[i]
          BY <3>0, <4>2 DEF Take
        <4> QED BY <4>2, <4>3
      <3>2. CASE ReceiveFails(j)
        BY <2>2, <3>2 DEF ReceiveFails
      <3>3. CASE Crash(j) \/ Delete(j)
        BY <3>0, <3>3 DEF Crash, Delete, Resting
      <3>4. CASE Claim(j)
        BY <3>0, <3>4 DEF Claim, Drops, Handles, Handlers
      <3>5. CASE ClaimFails(j)
        BY <3>0, <3>5 DEF ClaimFails, Drops, Handles, Handlers
      <3>6. CASE ArmFails(j)
        BY <3>0, <3>6 DEF ArmFails, Handles, Handlers
      <3>7. CASE Arm(j) \/ Release(j) \/ ReleaseFails(j) \/ Run(j) \/ RunFails(j)
        <4>1. Resume(j) /\ handler[j].at # "idle"
          BY <3>7 DEF Arm, Release, ReleaseFails, Run, RunFails, Handles
        <4> QED BY <3>0, <4>1 DEF Resume, Handlers
      <3> QED BY <2>2, <3>1, <3>2, <3>3, <3>4, <3>5, <3>6, <3>7 DEF HandlerStep
    <2> QED BY <2>1, <2>2, HandlerFrame DEF HandlesPublished
  <1>4. CASE message[handler'[i].event].state # "none"
    BY <1>2, <1>4, StaysPublished
  <1>5. ASSUME NEW e \in Events, NEW seen \in Jobs \cup {Unread}, Take(i, e, seen)
        PROVE  message'[handler'[i].event].state # "none"
    <2>1. handler'[i].event = e /\ message[e].state = "visible"
      BY <1>5, TakeHandler DEF SweepInv, Take, Takes
    <2> QED BY <2>1, StaysPublished
  <1> QED BY <1>2, <1>3, <1>4, <1>5

LEMMA InitEngine == Init => EngineInv
  <1> SUFFICES ASSUME Init PROVE EngineInv
    OBVIOUS
  <1>1. QueueInv /\ faults \in 0 .. MaxFaults
    BY InitQueue DEF Init
  <1>2. handler = [i \in Instances |-> Resting] /\ HandlerOK(Resting) /\ Resting \in Handlers
        /\ Resting.at = "idle" /\ Resting.hand = {}
    BY DEF Init, HandlerOK, Handlers, Resting
  <1>3. HandlersOK /\ HandlesPublished
    BY <1>2 DEF HandlersOK, HandlesPublished
  <1>4. sweep = [i \in Instances |-> Waiting] /\ SweeperOK(Waiting) /\ Waiting \in Sweepers
        /\ Waiting.at = "idle" /\ Waiting.hand = {}
    BY DEF Init, SweeperOK, Sweepers, Waiting, Minutes
  <1>5. swept = [i \in Instances |-> None] /\ clock \in Minutes /\ board = {}
        /\ jumped \in [Instances -> SUBSET Minutes]
    BY DEF Init, Minutes
  <1>6. SweepInv
    BY <1>4, <1>5 DEF SweepInv, SweepersOK, BehindOK
  <1>7. \A x \in Slots : Hand(x) = {}
    BY <1>2, <1>4 DEF Slots, Hand
  <1>8. once = {} /\ over = {} /\ again = {} /\ doubted = {} /\ board = {}
    BY DEF Init
  <1>9. OccurrenceInv
    BY <1>7, <1>8 DEF OccurrenceInv, HandsOK, TablesOK, OnePlace
  <1> QED BY <1>1, <1>3, <1>6, <1>9 DEF EngineInv

LEMMA NextEngine == EngineInv /\ [Next]_vars => EngineInv'
  BY NextFaults, NextQueue, NextHandlers, NextPublished, NextSweep, MoveKeeps DEF EngineInv

LEMMA EngineInvariant == Spec => []EngineInv
  <1> QED BY InitEngine, NextEngine, PTL DEF Spec

\* The rows of the two tables, the deliveries, and what each consumer and each
\* sweep has in hand, are always of their types, and a step that acts on a firing
\* has exactly one in hand.
THEOREM EngineTypes == Spec => []AutomationTypeOK
  <1>1. EngineInv => AutomationTypeOK
    <2> SUFFICES ASSUME EngineInv PROVE AutomationTypeOK
      OBVIOUS
    <2>1. ASSUME NEW i \in Instances
          PROVE  /\ IF handler[i].at \in {"arm", "release", "run"}
                    THEN \E f \in handler[i].hand : handler[i].hand = {f}
                    ELSE handler[i].hand = {}
                 /\ IF sweep[i].at \in {"look", "release", "rearm", "run"}
                    THEN \E f \in sweep[i].hand : sweep[i].hand = {f}
                    ELSE sweep[i].hand = {}
      BY DEF EngineInv, HandlersOK, HandlerOK, SweepInv, SweepersOK, SweeperOK
    <2>2. /\ clock \in Minutes /\ job \in Jobs /\ older \in Jobs /\ faults \in 0 .. MaxFaults
          /\ message \in [Events -> Messages]
          /\ once \subseteq Claims /\ over \subseteq Claims /\ doubted \subseteq Claims
          /\ board \subseteq Firings
          /\ handler \in [Instances -> Handlers] /\ sweep \in [Instances -> Sweepers]
          /\ swept \in [Instances -> Minutes \cup {None}] /\ jumped \in [Instances -> SUBSET Minutes]
      BY DEF EngineInv, QueueInv, QueueTypeOK, HandlersOK, SweepInv, SweepersOK, OccurrenceInv, TablesOK
    <2> QED BY <2>1, <2>2 DEF AutomationTypeOK
  <1> QED BY <1>1, EngineInvariant, PTL

\* No rule runs twice for one occurrence, with any number of instances, deliveries
\* and faults, but where a claim was given back although its timer had been armed:
\* an occurrence that is not doubted is in one place at most, the board or one hand,
\* and once it is over it stays taken.
THEOREM RunsAtMostOnce == Spec => []AtMostOnce
  <1>1. EngineInv => AtMostOnce
    BY DEF EngineInv, OccurrenceInv, AtMostOnce
  <1> QED BY <1>1, EngineInvariant, PTL

\* No claim is left without a timer, a hand that holds it or an end, and no timer
\* without its claim.
THEOREM ClaimsAgree == Spec => []ClaimsAndTimersAgree
  <1>1. EngineInv => ClaimsAndTimersAgree
    <2> SUFFICES ASSUME EngineInv PROVE ClaimsAndTimersAgree
      OBVIOUS
    <2>1. ASSUME NEW x \in Slots, NEW f \in Hand(x) PROVE f \in InHand
      <3>1. PICK c \in {"event", "timer"}, i \in Instances : x = <<c, i>>
        BY DEF Slots
      <3>2. f \in handler[i].hand \cup sweep[i].hand
        BY <2>1, <3>1 DEF Hand
      <3> QED BY <3>2 DEF InHand
    <2>2. once \subseteq over \cup Keys(board) \cup Keys(InHand)
      BY <2>1 DEF EngineInv, OccurrenceInv, Keys
    <2>3. Keys(board) \subseteq once \cup doubted
      BY DEF EngineInv, OccurrenceInv, Live, Keys
    <2> QED BY <2>2, <2>3 DEF ClaimsAndTimersAgree
  <1> QED BY <1>1, EngineInvariant, PTL

\* Whatever minutes a sweep could not read, and wherever instances stop, no timer
\* stays behind on the board but those known to be late, passed over, or of a minute
\* the lookback left out.
THEOREM NoTimerLeftBehind == Spec => []NothingLeftBehind
  <1>1. EngineInv => NothingLeftBehind
    <2> SUFFICES ASSUME EngineInv, NEW f \in board, NEW i \in Schedulers, swept[i] # None, f.due < swept[i]
                 PROVE  f \in overlooked \/ f.due \in jumped[i]
      BY DEF NothingLeftBehind
    <2>1. i \in Instances
      OBVIOUS
    <2>2. Past(i, swept[i])
      BY <2>1 DEF EngineInv, SweepInv, BehindOK
    <2> QED BY <2>2 DEF Past, Excused
  <1> QED BY <1>1, EngineInvariant, PTL

---------------------------------------------------------------------------
(* The reminders of the date the job has. *)

\* A reminder held back by quiet hours is one whose minute has passed.
TimerDue(f) ==
    f.rule \in Reminders =>
        \A date \in Dates : f.occurrence = OfDate(date) => f.due = date - Before \/ date - Before < clock

TimersDue ==
    /\ \A f \in board : TimerDue(f)
    /\ \A i \in Instances : \A f \in sweep[i].hand : TimerDue(f)

\* f is the firing of reminder r for date d.
Row(f, r, d) == f.rule = r /\ f.occurrence = OfDate(d) /\ f.due = d - Before

\* Reminder r is armed for date d, or about to be, or it is known why not.
Settled(r, d) ==
    \/ <<r, OfDate(d)>> \in over \cup refused
    \/ \E f \in board : Row(f, r, d)
    \/ \E i \in Instances : \E f \in handler[i].hand : Row(f, r, d)

\* The event of the last change settles the reminders of the date the job has.
DateSettled ==
    \A e \in Events, r \in Reminders :
        IsLast(e) /\ job.date # None /\ job.date - Before >= clock /\ Holds(r, job.status) =>
            /\ message[e].state \in {"deleted", "dead"} => Settled(r, job.date)
            /\ \A i \in Instances : handler[i].at # "idle" /\ handler[i].event = e =>
                 Settled(r, job.date) \/ \E f \in handler[i].todo : Row(f, r, job.date)

LEMMA RowOfKey ==
    ASSUME NEW r \in Reminders, NEW d \in Dates, NEW f, RightDue(f), Key(f) = <<r, OfDate(d)>>
    PROVE  Row(f, r, d)
  <1>1. f.rule = r /\ f.occurrence = OfDate(d)
    BY DEF Key
  <1> QED BY <1>1 DEF RightDue, Row

LEMMA KeyOfRow ==
    ASSUME NEW r, NEW d, NEW f, Row(f, r, d)
    PROVE  Key(f) = <<r, OfDate(d)>>
  BY DEF Key, Row

\* What becomes of what a consumer had in hand and to do, and of the claims it
\* gave back.
HandlerLeaves(i) ==
    /\ \A f \in handler[i].hand : f \in handler'[i].hand \/ f \in board' \/ Key(f) \in over' \cup refused'
    /\ \A k \in refused : k \in refused' \/ \E f \in handler'[i].hand : Key(f) = k
    /\ handler'[i].at # "idle" =>
         \/ /\ handler[i].at # "idle" /\ handler'[i].event = handler[i].event
            /\ \A f \in handler[i].todo :
                 f \in handler'[i].todo \cup handler'[i].hand \/ Key(f) \in over' \cup refused' \cup once
         \/ \E e \in Events : Take(i, e, job)
         \/ Current \subseteq refused' /\ \E e \in Events, seen \in Jobs \cup {Unread} : Take(i, e, seen)

LEMMA LeavesByStep ==
    ASSUME QueueInv, HandlersOK, HandlersOK', NEW i \in Instances, HandlerStep(i) \/ Crash(i)
    PROVE  HandlerLeaves(i)
  <1>0. /\ handler \in [Instances -> Handlers] /\ handler' \in [Instances -> Handlers]
        /\ HandlerOK(handler[i])
    BY DEF HandlersOK
  <1>1. CASE Receive(i) \/ ReceiveMisread(i)
    <2>1. PICK e \in Events, seen \in Jobs \cup {Unread} :
            Take(i, e, seen) /\ refused \subseteq refused' /\ (seen = job \/ Current \subseteq refused')
      BY <1>1 DEF Receive, ReceiveMisread, QueueInv, QueueTypeOK
    <2>2. handler[i].hand = {}
      BY <1>0, <2>1 DEF Take, Takes, HandlerOK
    <2> QED BY <2>1, <2>2 DEF HandlerLeaves
  <1>2. CASE ReceiveFails(i)
    BY <1>2 DEF ReceiveFails, HandlerLeaves
  <1>3. CASE Delete(i)
    <2>1. handler[i].hand = {} /\ handler'[i].at = "idle" /\ UNCHANGED refused
      BY <1>0, <1>3 DEF Delete, Handles, HandlerOK, Resting, losses
    <2> QED BY <2>1 DEF HandlerLeaves
  <1>4. CASE Crash(i)
    <2>1. handler'[i].at = "idle" /\ UNCHANGED refused /\ Keys(handler[i].hand) \subseteq over'
      BY <1>0, <1>4 DEF Crash, Resting, losses, Keys
    <2> QED BY <2>1 DEF HandlerLeaves, Keys
  <1>5. CASE Claim(i) \/ ClaimFails(i)
    <2>1. handler[i].at = "claim" /\ handler[i].hand = {}
      BY <1>0, <1>5 DEF Claim, ClaimFails, Handles, HandlerOK
    <2>2. PICK f \in handler[i].todo :
            \/ /\ Drops(i, f)
               /\ Key(f) \in over' \cup refused' \cup once /\ refused \subseteq refused'
            \/ /\ refused' = refused \ {Key(f)}
               /\ handler' = [handler EXCEPT ![i].at = IF f.due = None THEN "run" ELSE "arm",
                                             ![i].todo = @ \ {f}, ![i].hand = {f}]
      BY <1>5 DEF Claim, ClaimFails, NextUp, Taken
    <2>3. CASE Drops(i, f) /\ Key(f) \in over' \cup refused' \cup once /\ refused \subseteq refused'
      <3>1. handler'[i].event = handler[i].event /\ handler'[i].todo = handler[i].todo \ {f}
        BY <1>0, <2>3 DEF Drops, Handlers
      <3> QED BY <2>1, <2>3, <3>1 DEF HandlerLeaves
    <2>4. CASE /\ refused' = refused \ {Key(f)}
               /\ handler' = [handler EXCEPT ![i].at = IF f.due = None THEN "run" ELSE "arm",
                                             ![i].todo = @ \ {f}, ![i].hand = {f}]
      <3>1. /\ handler'[i].event = handler[i].event /\ handler'[i].todo = handler[i].todo \ {f}
            /\ handler'[i].hand = {f}
        BY <1>0, <2>4 DEF Handlers
      <3> QED BY <2>1, <2>4, <3>1 DEF HandlerLeaves
    <2> QED BY <2>2, <2>3, <2>4
  <1>6. CASE ArmFails(i)
    <2>1. /\ handler'[i].event = handler[i].event /\ handler'[i].todo = handler[i].todo
          /\ handler'[i].hand = handler[i].hand /\ handler[i].at # "idle" /\ UNCHANGED refused
      BY <1>0, <1>6 DEF ArmFails, AfterArmFails, Handles, Handlers
    <2> QED BY <2>1 DEF HandlerLeaves
  <1>7. CASE Arm(i) \/ Release(i) \/ ReleaseFails(i) \/ Run(i) \/ RunFails(i)
    <2>1. Resume(i) /\ handler[i].at # "idle"
      BY <1>7 DEF Arm, Release, ReleaseFails, Run, RunFails, Handles
    <2>2. handler'[i].event = handler[i].event /\ handler'[i].todo = handler[i].todo
      BY <1>0, <2>1 DEF Resume, Handlers
    <2>3. refused \subseteq refused'
      BY <1>7 DEF Arm, Release, ReleaseFails, Run, RunFails, losses
    <2>4. \A f \in handler[i].hand : f \in board' \/ Key(f) \in over' \cup refused'
      BY <1>7 DEF Arm, Arms, Release, ReleaseFails, Run, Runs, RunFails, Keys
    <2> QED BY <2>1, <2>2, <2>3, <2>4 DEF HandlerLeaves
  <1> QED BY <1>1, <1>2, <1>3, <1>4, <1>5, <1>6, <1>7 DEF HandlerStep

LEMMA NextLeaves ==
    ASSUME EngineInv, [Next]_vars, NEW i \in Instances
    PROVE  HandlerLeaves(i) \/ handler'[i] = handler[i]
  <1>1. HandlersOK' /\ QueueInv /\ HandlersOK
    BY NextHandlers DEF EngineInv
  <1>2. ASSUME NEW j \in Instances, HandlerStep(j) \/ Crash(j)
        PROVE  HandlerLeaves(i) \/ handler'[i] = handler[i]
    <2>1. CASE j = i
      BY <1>1, <1>2, <2>1, LeavesByStep
    <2>2. CASE j # i
      BY <1>1, <1>2, <2>2, Zenon DEF HandlersOK, HandlerStep, Receive, ReceiveMisread, ReceiveFails, Take, Claim, ClaimFails,
         Drops, Arm, ArmFails, Resume, Release, ReleaseFails, Run, RunFails, Delete, Crash
    <2> QED BY <2>1, <2>2
  <1> QED BY <1>2, HandlerFrame

\* A claim that was refused, or given back, stays so until a consumer takes it again.
LEMMA NextRefused ==
    ASSUME EngineInv, [Next]_vars, NEW k \in refused
    PROVE  k \in refused' \/ \E i \in Instances : \E f \in handler'[i].hand : Key(f) = k
  <1>1. ASSUME NEW i \in Instances, HandlerStep(i)
        PROVE  k \in refused' \/ \E f \in handler'[i].hand : Key(f) = k
    <2>1. HandlerLeaves(i)
      BY <1>1, LeavesByStep, NextHandlers DEF EngineInv
    <2> QED BY <2>1 DEF HandlerLeaves
  <1>2. ASSUME NEW i \in Instances, SweepStep(i) \/ SweepFault(i) \/ Crash(i)
        PROVE  UNCHANGED refused
    BY <1>2, Zenon DEF SweepStep, SweepFault, Crash, StartSweep, Read, TakeOff, Look, ReleaseStale, Rearm,
       RunTimer, ReadFails, TakeOffFails, LookMisread, ReleaseStaleFails, RearmFails, FireFails, Judge, losses
  <1>3. CASE Tick \/ ChangeStatus \/ Reschedule \/ UNCHANGED vars
    BY <1>3, Zenon DEF Tick, ChangeStatus, Reschedule, Publish, vars, losses
  <1>4. ASSUME NEW e \in Events, Expire(e) PROVE refused \subseteq refused'
    BY <1>4 DEF Expire
  <1> QED BY <1>1, <1>2, <1>3, <1>4 DEF Next

\* A row that waits for a minute to come is only taken off when it is lost.
LEMMA NextRow ==
    ASSUME EngineInv, [Next]_vars, NEW f \in board, ~ f.due < clock
    PROVE  f \in board'
  <1>1. CASE board \subseteq board'
    BY <1>1
  <1>2. ASSUME NEW i \in Instances, TakeOff(i) \/ TakeOffFails(i), f \notin board' PROVE FALSE
    <2>1. f \in sweep[i].todo /\ sweep[i].at = "take"
      BY <1>2 DEF TakeOff, TakeOffFails, Sweeps
    <2>2. f.due = sweep[i].cursor /\ sweep[i].cursor < sweep[i].now /\ sweep[i].now <= clock
      BY <2>1, SweepFacts DEF EngineInv, SweepInv, BehindOK, SweeperOK
    <2> QED BY <2>2, SweepFacts DEF EngineInv
  <1>3. ASSUME NEW i \in Instances, HandlerStep(i) PROVE board \subseteq board'
    BY <1>3, Zenon DEF HandlerStep, Receive, ReceiveMisread, ReceiveFails, Take, Takes, Claim, Arm, Arms, ArmFails,
       losses, table, ClaimFails, Release, ReleaseFails, Run, RunFails, Delete
  <1>4. ASSUME NEW i \in Instances, SweepStep(i) \/ SweepFault(i) \/ Crash(i), ~(TakeOff(i) \/ TakeOffFails(i))
        PROVE  board \subseteq board'
    BY <1>4, Zenon DEF SweepStep, SweepFault, Crash, StartSweep, Read, Look, ReleaseStale, Rearm, RearmFails, Arms,
       RunTimer, ReadFails, LookMisread, ReleaseStaleFails, FireFails, Judge, table
  <1>5. CASE Tick \/ ChangeStatus \/ Reschedule \/ UNCHANGED vars
    BY <1>5, Zenon DEF Tick, ChangeStatus, Reschedule, Publish, vars, table
  <1>6. ASSUME NEW e \in Events, Expire(e) PROVE board \subseteq board'
    BY <1>6, Zenon DEF Expire, table
  <1> QED BY <1>1, <1>2, <1>3, <1>4, <1>5, <1>6, Zenon DEF Next

LEMMA NextOver == ASSUME [Next]_vars, EngineInv PROVE over \subseteq over'
  BY NextHandlers DEF EngineInv, Move, NoMove, LoseRow, LoseClaim, StopIn, ClaimIn, FinishIn, ReturnIn,
     BoardIn, DoubtIn, TakeIn

LEMMA NextClock == ASSUME [Next]_vars, EngineInv PROVE clock \in Nat /\ clock' \in Nat /\ clock <= clock'
  <1>1. clock \in Nat
    BY DEF EngineInv, SweepInv, Minutes
  <1>2. UNCHANGED clock \/ Tick
    BY SweepFrame
  <1> QED BY <1>1, <1>2 DEF Tick

\* What a sweep has in hand it had before, or took off the board.
LEMMA NextTimerHand ==
    ASSUME EngineInv, [Next]_vars, NEW i \in Instances
    PROVE  sweep'[i].hand \subseteq sweep[i].hand \cup board
  <1>0. sweep \in [Instances -> Sweepers]
    BY DEF EngineInv, SweepInv, SweepersOK
  <1>1. ASSUME NEW j \in Instances, NEW todo, Proceed(j, todo)
        PROVE  sweep'[i].hand = sweep[i].hand \/ sweep'[i].hand = {}
    BY <1>0, <1>1 DEF Proceed, Waiting, Sweepers
  <1>2. ASSUME NEW j \in Instances, NEW seen, Judge(j, seen)
        PROVE  sweep'[i].hand = sweep[i].hand \/ sweep'[i].hand = {}
    <2>1. Proceed(j, sweep[j].todo) \/ \E step : sweep' = [sweep EXCEPT ![j].at = step]
      BY <1>2 DEF Judge
    <2>2. ASSUME NEW step, sweep' = [sweep EXCEPT ![j].at = step] PROVE sweep'[i].hand = sweep[i].hand
      BY <1>0, <2>2 DEF Sweepers
    <2> QED BY <1>1, <2>1, <2>2
  <1>3. ASSUME NEW j \in Instances, StartSweep(j) PROVE sweep'[i].hand = sweep[i].hand
    BY <1>0, <1>3 DEF StartSweep, Sweepers
  <1>4. ASSUME NEW j \in Instances, ReadFails(j) \/ Crash(j)
        PROVE  sweep'[i].hand = sweep[i].hand \/ sweep'[i].hand = {}
    BY <1>0, <1>4 DEF ReadFails, Crash, Waiting
  <1>5. ASSUME NEW j \in Instances, TakeOff(j) PROVE sweep'[i].hand \subseteq sweep[i].hand \cup board
    <2>1. PICK f \in sweep[j].todo :
            \/ f \in board /\ sweep' = [sweep EXCEPT ![j].at = "look", ![j].todo = @ \ {f}, ![j].hand = {f}]
            \/ Proceed(j, sweep[j].todo \ {f})
      BY <1>5 DEF TakeOff, Present
    <2>2. CASE f \in board /\ sweep' = [sweep EXCEPT ![j].at = "look", ![j].todo = @ \ {f}, ![j].hand = {f}]
      BY <1>0, <2>2 DEF Sweepers
    <2>3. CASE Proceed(j, sweep[j].todo \ {f})
      BY <1>1, <2>3
    <2> QED BY <2>1, <2>2, <2>3
  <1>6. ASSUME NEW j \in Instances,
               \/ Read(j) \/ TakeOffFails(j) \/ ReleaseStale(j) \/ ReleaseStaleFails(j)
               \/ Rearm(j) \/ RearmFails(j) \/ RunTimer(j) \/ FireFails(j)
        PROVE  sweep'[i].hand = sweep[i].hand \/ sweep'[i].hand = {}
    <2>1. \E todo : Proceed(j, todo)
      BY <1>6, Zenon DEF Read, TakeOffFails, ReleaseStale, ReleaseStaleFails, Rearm, RearmFails, RunTimer, FireFails
    <2> QED BY <1>1, <2>1
  <1>7. ASSUME NEW j \in Instances, SweepStep(j) \/ SweepFault(j) \/ Crash(j)
        PROVE  sweep'[i].hand \subseteq sweep[i].hand \cup board
    BY <1>2, <1>3, <1>4, <1>5, <1>6, <1>7 DEF SweepStep, SweepFault, Look, LookMisread
  <1>8. UNCHANGED scheduler => UNCHANGED sweep
    BY DEF scheduler
  <1> QED BY <1>7, <1>8, SweepFrame

LEMMA NextTimersDue ==
    ASSUME EngineInv, TimersDue, [Next]_vars
    PROVE  TimersDue'
  <1>1. clock \in Nat /\ clock' \in Nat /\ clock <= clock'
    BY NextClock
  <1>2. ASSUME NEW f, TimerDue(f) PROVE TimerDue(f)'
    BY <1>1, <1>2, DateTypes DEF TimerDue
  <1>3. ASSUME NEW f, RightDue(f) PROVE TimerDue(f)'
    BY <1>3 DEF TimerDue, RightDue
  <1>4. ASSUME NEW f \in board' PROVE TimerDue(f)'
    <2>1. CASE f \in board
      BY <1>2, <2>1 DEF TimersDue
    <2>2. ASSUME NEW i \in Instances, Arm(i) \/ ArmFails(i), f \notin board PROVE TimerDue(f)'
      <3>1. f \in handler[i].hand
        BY <2>2 DEF Arm, ArmFails, Arms
      <3> QED BY <1>3, <3>1 DEF EngineInv, HandlersOK, HandlerOK
    <2>3. ASSUME NEW i \in Instances, Rearm(i) \/ RearmFails(i), f \notin board PROVE TimerDue(f)'
      <3>1. sweep[i].at = "rearm" /\ f = [InTurn(i) EXCEPT !.due = QuietTo]
        BY <2>3 DEF Rearm, RearmFails, Arms, Held, Sweeps
      <3>2. /\ InTurn(i) \in sweep[i].hand /\ Key(f) = Key(InTurn(i)) /\ InTurn(i).due = sweep[i].cursor
        BY <3>1, HeldType DEF EngineInv, SweepInv
      <3>3. f.rule = InTurn(i).rule /\ f.occurrence = InTurn(i).occurrence
        BY <3>2 DEF Key
      <3>4. InTurn(i).due < clock
        BY <3>1, <3>2, SweepFacts DEF EngineInv, SweepInv, BehindOK, SweeperOK
      <3>5. TimerDue(InTurn(i))
        BY <3>2 DEF TimersDue
      <3> QED BY <1>1, <3>3, <3>4, <3>5, DateTypes DEF TimerDue
    <2>4. CASE board' \subseteq board
      BY <2>1, <2>4
    <2>5. ASSUME NEW i \in Instances, HandlerStep(i), ~(Arm(i) \/ ArmFails(i)) PROVE board' \subseteq board
      BY <2>5, Zenon DEF HandlerStep, Receive, ReceiveMisread, ReceiveFails, Take, Takes, Claim,
         table, ClaimFails, Release, ReleaseFails, Run, RunFails, Delete
    <2>6. ASSUME NEW i \in Instances, TakeOff(i) \/ TakeOffFails(i) PROVE board' \subseteq board
      BY <2>6 DEF TakeOff, TakeOffFails
    <2>7. ASSUME NEW i \in Instances, SweepStep(i) \/ SweepFault(i) \/ Crash(i),
                 ~(TakeOff(i) \/ TakeOffFails(i) \/ Rearm(i) \/ RearmFails(i))
          PROVE  board' \subseteq board
      BY <2>7, Zenon DEF SweepStep, SweepFault, Crash, StartSweep, Read, Look, ReleaseStale,
         RunTimer, ReadFails, LookMisread, ReleaseStaleFails, FireFails, Judge, table
    <2>8. CASE Tick \/ ChangeStatus \/ Reschedule \/ (\E e \in Events : Expire(e)) \/ UNCHANGED vars
      BY <2>1, <2>8, Zenon DEF Tick, ChangeStatus, Reschedule, Publish, Expire, vars, table
    <2> QED BY <2>1, <2>2, <2>3, <2>4, <2>5, <2>6, <2>7, <2>8, Zenon DEF Next
  <1>5. ASSUME NEW i \in Instances, NEW f \in sweep'[i].hand PROVE TimerDue(f)'
    BY <1>2, NextTimerHand DEF TimersDue
  <1> QED BY <1>4, <1>5 DEF TimersDue

\* What is settled stays so until its minute has passed.
LEMMA SettledStays ==
    ASSUME EngineInv, [Next]_vars, NEW r \in Reminders, NEW d \in Dates, d - Before >= clock, Settled(r, d)
    PROVE  Settled(r, d)'
  <1> DEFINE k == <<r, OfDate(d)>>
  <1>1. over \subseteq over' /\ HandlersOK'
    BY NextOver, NextHandlers DEF EngineInv
  <1>2. CASE k \in over
    BY <1>1, <1>2 DEF Settled
  <1>3. CASE k \in refused
    <2>1. CASE k \in refused'
      BY <2>1 DEF Settled
    <2>2. ASSUME NEW i \in Instances, NEW f \in handler'[i].hand, Key(f) = k PROVE Settled(r, d)'
      <3>1. RightDue(f)
        BY <1>1 DEF HandlersOK, HandlerOK
      <3>2. Row(f, r, d)
        BY <2>2, <3>1, RowOfKey
      <3> QED BY <3>2 DEF Settled, Row
    <2> QED BY <1>3, <2>1, <2>2, NextRefused
  <1>4. ASSUME NEW f \in board, Row(f, r, d) PROVE Settled(r, d)'
    <2>1. ~ f.due < clock
      BY <1>4, DateTypes, NextClock DEF Row
    <2>2. f \in board'
      BY <2>1, NextRow
    <2> QED BY <1>4, <2>2 DEF Settled, Row
  <1>5. ASSUME NEW i \in Instances, NEW f \in handler[i].hand, Row(f, r, d) PROVE Settled(r, d)'
    <2>1. f \in handler'[i].hand \/ f \in board' \/ Key(f) \in over' \cup refused'
      BY NextLeaves DEF HandlerLeaves
    <2>2. Key(f) = k
      BY <1>5, KeyOfRow
    <2> QED BY <1>5, <2>1, <2>2 DEF Settled, Row
  <1> QED BY <1>2, <1>3, <1>4, <1>5 DEF Settled

\* An occurrence that is taken is settled.
LEMMA TakenIsSettled ==
    ASSUME EngineInv, TimersDue, NEW r \in Reminders, NEW d \in Dates, d - Before >= clock,
           <<r, OfDate(d)>> \in once
    PROVE  Settled(r, d)
  <1> DEFINE k == <<r, OfDate(d)>>
  <1>1. clock \in Nat /\ d - Before \in Nat
    BY DateTypes DEF EngineInv, SweepInv, Minutes
  <1>2. \/ k \in over
        \/ \E f \in board : k = Key(f)
        \/ \E x \in Slots : \E f \in Hand(x) : k = Key(f)
    BY DEF EngineInv, OccurrenceInv
  <1>3. ASSUME NEW f, TimerDue(f), Key(f) = k PROVE Row(f, r, d)
    <2>1. f.rule = r /\ f.occurrence = OfDate(d)
      BY <1>3 DEF Key
    <2> QED BY <1>1, <1>3, <2>1 DEF TimerDue, Row
  <1>4. ASSUME NEW f \in board, k = Key(f) PROVE Settled(r, d)
    <2>1. Row(f, r, d)
      BY <1>3, <1>4 DEF TimersDue
    <2> QED BY <2>1 DEF Settled
  <1>5. ASSUME NEW i \in Instances, NEW f \in handler[i].hand, k = Key(f) PROVE Settled(r, d)
    <2>1. RightDue(f)
      BY DEF EngineInv, HandlersOK, HandlerOK
    <2>2. Row(f, r, d)
      BY <1>5, <2>1, RowOfKey
    <2> QED BY <2>2 DEF Settled
  <1>6. ASSUME NEW i \in Instances, NEW f \in sweep[i].hand, k = Key(f) PROVE FALSE
    <2>1. Row(f, r, d)
      BY <1>3, <1>6 DEF TimersDue
    <2>2. SweeperOK(sweep[i]) /\ BehindOK(i) /\ sweep[i].at # "idle"
      BY SweepFacts DEF EngineInv, SweepInv, SweeperOK
    <2>3. f.due < clock
      BY <2>2, SweepFacts DEF EngineInv, SweepInv, SweeperOK, BehindOK
    <2> QED BY <1>1, <2>1, <2>3 DEF Row
  <1>7. ASSUME NEW x \in Slots, NEW f \in Hand(x), k = Key(f) PROVE Settled(r, d)
    <2>1. PICK c \in {"event", "timer"}, i \in Instances : x = <<c, i>>
      BY DEF Slots
    <2>2. f \in handler[i].hand \/ f \in sweep[i].hand
      BY <1>7, <2>1 DEF Hand
    <2> QED BY <1>5, <1>6, <1>7, <2>2
  <1>8. k \in over => Settled(r, d)
    BY DEF Settled
  <1> QED BY <1>2, <1>4, <1>7, <1>8

LEMMA LastStays ==
    ASSUME EngineInv, [Next]_vars, UNCHANGED deal, ~ ChangeStatus, ~ Reschedule, NEW e \in Events, IsLast(e)'
    PROVE  IsLast(e)
  <1>1. CASE UNCHANGED message
    BY <1>1 DEF IsLast
  <1>2. ASSUME NEW d \in Events, Expire(d) PROVE IsLast(e)
    BY <1>2, ExpireQueue DEF EngineInv
  <1>3. ASSUME NEW i \in Instances, Messaging(i) PROVE IsLast(e)
    <2>1. CASE Delete(i)
      BY <2>1, DeleteQueue DEF EngineInv
    <2>2. CASE ~ Delete(i)
      <3>1. PICK d \in Events : Takes(i, d)
        BY <1>3, <2>2 DEF Messaging, Receive, ReceiveMisread, ReceiveFails, Take
      <3> QED BY <3>1, TakesQueue DEF EngineInv
    <2> QED BY <2>1, <2>2
  <1> QED BY <1>1, <1>2, <1>3, MessageFrame

\* How an event comes to its end.
LEMMA NextEnded ==
    ASSUME EngineInv, [Next]_vars, NEW e \in Events, message'[e].state \in {"deleted", "dead"}
    PROVE  \/ message[e].state \in {"deleted", "dead"}
           \/ \E i \in Instances : handler[i].at # "idle" /\ handler[i].event = e /\ handler[i].todo = {}
           \/ Current \subseteq refused'
  <1>0. message \in [Events -> Messages]
    BY DEF EngineInv, QueueInv, QueueTypeOK
  <1>1. CASE UNCHANGED message
    BY <1>1
  <1>2. ASSUME NEW d \in Events, NEW to, Publish(d, to) PROVE message[e].state \in {"deleted", "dead"}
    BY <1>0, <1>2 DEF Publish, Messages
  <1>3. ASSUME NEW d \in Events, Expire(d)
        PROVE  message[e].state \in {"deleted", "dead"} \/ Current \subseteq refused'
    <2>1. CASE message[d].receives = MaxReceives
      BY <1>3, <2>1 DEF Expire
    <2>2. CASE message[d].receives # MaxReceives
      BY <1>0, <1>3, <2>2 DEF Expire, Messages
    <2> QED BY <2>1, <2>2
  <1>4. ASSUME NEW i \in Instances, NEW d \in Events, Takes(i, d) PROVE message[e].state \in {"deleted", "dead"}
    BY <1>0, <1>4 DEF Takes, Messages
  <1>5. ASSUME NEW i \in Instances, Delete(i)
        PROVE  \/ message[e].state \in {"deleted", "dead"}
               \/ handler[i].at # "idle" /\ handler[i].event = e /\ handler[i].todo = {}
    BY <1>0, <1>5 DEF Delete, Handles, Messages
  <1> QED BY <1>1, <1>2, <1>3, <1>4, <1>5, MessageFrame
          DEF ChangeStatus, Reschedule, Messaging, Receive, ReceiveMisread, ReceiveFails, Take

LEMMA NextDate ==
    ASSUME EngineInv, TimersDue, DateSettled, [Next]_vars
    PROVE  DateSettled'
  <1>1. clock \in Nat /\ clock' \in Nat /\ clock <= clock'
    BY NextClock
  <1>2. ASSUME NEW e \in Events, NEW to \in Statuses \cup {None}, job' \in Jobs, Publish(e, to)
        PROVE  DateSettled'
    <2>1. IsLast(e)' /\ message'[e].state = "visible"
      BY <1>2, PublishQueue DEF EngineInv
    <2>2. \A d \in Events : IsLast(d)' => d = e
      BY <2>1 DEF IsLast, Events
    <2>3. message[e].state = "none" /\ UNCHANGED handler
      BY <1>2 DEF Publish
    <2>4. \A i \in Instances : handler'[i].at # "idle" => handler'[i].event # e
      BY <2>3 DEF EngineInv, HandlesPublished
    <2> QED BY <2>1, <2>2, <2>4 DEF DateSettled
  <1>3. CASE ChangeStatus
    <2>1. PICK e \in Events, to \in Statuses \ {job.status} :
            job' = [job EXCEPT !.status = to, !.stamp = e] /\ Publish(e, to)
      BY <1>3 DEF ChangeStatus
    <2>2. job' \in Jobs
      BY <2>1 DEF EngineInv, QueueInv, QueueTypeOK, Jobs
    <2> QED BY <1>2, <2>1, <2>2
  <1>4. CASE Reschedule
    <2>1. PICK e \in Events, date \in (Dates \cup {None}) \ {job.date} :
            job' = [job EXCEPT !.date = date] /\ Publish(e, None)
      BY <1>4 DEF Reschedule
    <2>2. job' \in Jobs
      BY <2>1 DEF EngineInv, QueueInv, QueueTypeOK, Jobs
    <2> QED BY <1>2, <2>1, <2>2
  <1>5. CASE ~ ChangeStatus /\ ~ Reschedule
    <2>1. UNCHANGED deal /\ UNCHANGED job
      BY <1>5, MessageFrame DEF deal
    <2> SUFFICES ASSUME NEW e \in Events, NEW r \in Reminders, IsLast(e)', job.date # None,
                        job.date - Before >= clock', Holds(r, job.status)
                 PROVE  /\ message'[e].state \in {"deleted", "dead"} => Settled(r, job.date)'
                        /\ \A i \in Instances : handler'[i].at # "idle" /\ handler'[i].event = e =>
                             Settled(r, job.date)' \/ \E f \in handler'[i].todo : Row(f, r, job.date)
      BY <2>1 DEF DateSettled, Row
    <2>2. job.date \in Dates
      BY DEF EngineInv, QueueInv, QueueTypeOK, Jobs
    <2>3. PICK d \in Dates : d = job.date
      BY <2>2
    <2>4. d - Before >= clock
      BY <1>1, <2>3, DateTypes
    <2>5. IsLast(e)
      BY <1>5, <2>1, LastStays
    <2>6. /\ message[e].state \in {"deleted", "dead"} => Settled(r, d)
          /\ \A i \in Instances : handler[i].at # "idle" /\ handler[i].event = e =>
               Settled(r, d) \/ \E f \in handler[i].todo : Row(f, r, d)
      BY <2>3, <2>4, <2>5 DEF DateSettled
    <2>7. Settled(r, d) => Settled(r, d)'
      BY <2>4, SettledStays
    <2>8. Current \subseteq refused' => Settled(r, d)'
      BY <2>1, <2>3 DEF Current, Settled
    <2>9. message'[e].state \in {"deleted", "dead"} => Settled(r, d)'
      BY <2>6, <2>7, <2>8, NextEnded
    <2>10. ASSUME NEW i \in Instances, handler'[i].at # "idle", handler'[i].event = e
           PROVE  Settled(r, d)' \/ \E f \in handler'[i].todo : Row(f, r, d)
      <3>1. CASE handler'[i] = handler[i]
        BY <2>6, <2>7, <2>10, <3>1
      <3>2. CASE \E c \in Events : Take(i, c, job)
        <4>1. Reminded(job) \subseteq handler'[i].todo
          BY <3>2, TakeHandler DEF EngineInv, SweepInv, QueueInv, QueueTypeOK
        <4> DEFINE f == [rule |-> r, occurrence |-> OfDate(job.date), due |-> job.date - Before]
        <4>2. job.date - Before + Grace >= clock
          BY <1>1, <2>3, <2>4, DateTypes
        <4>3. f \in Reminded(job)
          BY <4>2 DEF Reminded
        <4>4. Row(f, r, d)
          BY <2>3 DEF Row
        <4> HIDE DEF f
        <4> QED BY <4>1, <4>3, <4>4
      <3>3. CASE Current \subseteq refused'
        BY <2>8, <3>3
      <3>4. CASE /\ handler[i].at # "idle" /\ handler'[i].event = handler[i].event
                 /\ \A f \in handler[i].todo :
                      f \in handler'[i].todo \cup handler'[i].hand \/ Key(f) \in over' \cup refused' \cup once
        <4>1. CASE Settled(r, d)
          BY <2>7, <4>1
        <4>2. ASSUME NEW f \in handler[i].todo, Row(f, r, d)
              PROVE  Settled(r, d)' \/ \E g \in handler'[i].todo : Row(g, r, d)
          <5>1. Key(f) = <<r, OfDate(d)>>
            BY <4>2, KeyOfRow
          <5>2. <<r, OfDate(d)>> \in once => Settled(r, d)'
            BY <2>4, <2>7, TakenIsSettled
          <5>3. <<r, OfDate(d)>> \in over' \cup refused' => Settled(r, d)'
            BY DEF Settled
          <5>4. f \in handler'[i].hand => Settled(r, d)'
            BY <4>2 DEF Settled, Row
          <5> QED BY <3>4, <4>2, <5>1, <5>2, <5>3, <5>4
        <4> QED BY <2>6, <2>10, <3>4, <4>1, <4>2
      <3> QED BY <2>10, <3>1, <3>2, <3>3, <3>4, NextLeaves DEF HandlerLeaves
    <2>11. Settled(r, d)' => Settled(r, job.date)'
      BY <2>1, <2>3 DEF Settled, Row
    <2> QED BY <2>3, <2>9, <2>10, <2>11
  <1> QED BY <1>3, <1>4, <1>5

LEMMA InitDate == Init => TimersDue /\ DateSettled
  <1> SUFFICES ASSUME Init PROVE TimersDue /\ DateSettled
    OBVIOUS
  <1>1. board = {} /\ \A i \in Instances : sweep[i].hand = {} /\ handler[i].at = "idle"
    BY DEF Init, Waiting, Resting
  <1>2. \A e \in Events : message[e].state \in {"visible", "none"}
    BY DEF Init
  <1> HIDE DEF Init
  <1> QED BY <1>1, <1>2 DEF TimersDue, DateSettled

\* Whatever dates the job had before, in whatever order its events come and however
\* often each is delivered, the event of the last change does not end before the
\* reminders of the date the job has are armed for their minute, or it is known why
\* not; and they stay armed until that minute.
THEOREM CurrentDateArmed == Spec => []CurrentDateIsArmed
  <1>1. EngineInv /\ TimersDue /\ DateSettled /\ [Next]_vars => (TimersDue /\ DateSettled)'
    BY NextTimersDue, NextDate
  <1>2. Spec => [](TimersDue /\ DateSettled)
    BY <1>1, InitDate, EngineInvariant, PTL DEF Spec
  <1>3. EngineInv /\ DateSettled => CurrentDateIsArmed
    <2> SUFFICES ASSUME EngineInv, DateSettled,
                        \A e \in Events : message[e].state \in {"none", "deleted", "dead"},
                        \A i \in Instances : handler[i].at = "idle",
                        job.date # None, job.date - Before >= clock,
                        NEW r \in Reminders, Holds(r, job.status)
                 PROVE  \/ <<r, OfDate(job.date)>> \in over \cup refused
                        \/ [rule |-> r, occurrence |-> OfDate(job.date), due |-> job.date - Before] \in board
      BY DEF CurrentDateIsArmed
    <2>1. PICK e \in Events : IsLast(e)
      BY DEF EngineInv, QueueInv
    <2>2. message[e].state \in {"deleted", "dead"}
      BY <2>1 DEF IsLast
    <2>3. Settled(r, job.date)
      BY <2>1, <2>2 DEF DateSettled
    <2>4. \A i \in Instances : handler[i].hand = {}
      BY DEF EngineInv, HandlersOK, HandlerOK
    <2>5. ASSUME NEW f \in board, Row(f, r, job.date)
          PROVE  f = [rule |-> r, occurrence |-> OfDate(job.date), due |-> job.date - Before]
      <3>1. f \in Firings
        BY DEF EngineInv, SweepInv
      <3> QED BY <2>5, <3>1 DEF Firings, Row
    <2> QED BY <2>3, <2>4, <2>5 DEF Settled
  <1> QED BY <1>2, <1>3, EngineInvariant, PTL

---------------------------------------------------------------------------
(* A delivery and a sweep get done. *)

\* There are finitely many firings to do, as there are finitely many rules.
FiniteInv ==
    /\ IsFiniteSet(board)
    /\ \A i \in Instances : IsFiniteSet(handler[i].todo) /\ IsFiniteSet(sweep[i].todo)

LEMMA StillFinite ==
    ASSUME NEW S, IsFiniteSet(S), NEW x
    PROVE  IsFiniteSet(S \ {x})
  <1>1. S \ {x} \in SUBSET S
    OBVIOUS
  <1> QED BY <1>1, FS_Subset

\* With one of its elements gone a finite set is smaller by one.
LEMMA OneFewer ==
    ASSUME NEW S, IsFiniteSet(S), NEW x \in S
    PROVE  /\ Cardinality(S) \in Nat /\ Cardinality(S) >= 1
           /\ Cardinality(S \ {x}) = Cardinality(S) - 1
  <1>1. IsFiniteSet(S \ {x})
    BY StillFinite
  <1>2. Cardinality(S \ {x}) = IF x \in S THEN Cardinality(S) - 1 ELSE Cardinality(S)
    BY FS_RemoveElement, Zenon
  <1>3. Cardinality(S) \in Nat
    BY FS_CardinalityType, Zenon
  <1>4. Cardinality(S \ {x}) \in Nat
    BY <1>1, FS_CardinalityType, Zenon
  <1> QED BY <1>2, <1>3, <1>4

LEMMA FiniteFired ==
    ASSUME NEW e, NEW seen, NEW receipt
    PROVE  IsFiniteSet(Fired(e, seen, receipt) \cup Reminded(seen))
  <1>1. IsFiniteSet(Fired(e, seen, receipt))
    <2> DEFINE R == {r \in Listeners : Triggers(e, seen) /\ Holds(r, seen.status)}
               g == [r \in R |->
                       [rule |-> r, due |-> DueOf(r, clock),
                        occurrence |-> IF e = 1 THEN OfCreation ELSE <<message[e].from, Stamp(e, seen, receipt)>>]]
    <2>1. IsFiniteSet(R)
      <3>1. R \in SUBSET Rules
        BY DEF Rules
      <3> HIDE DEF R
      <3> QED BY <3>1, FS_Subset
    <2>2. g \in Surjection(R, Fired(e, seen, receipt))
      BY Zenon DEF Surjection, Fired
    <2> HIDE DEF R, g
    <2> QED BY <2>1, <2>2, FS_Surjection
  <1>2. IsFiniteSet(Reminded(seen))
    <2> DEFINE R == {r \in Reminders : /\ seen.date # None /\ Holds(r, seen.status)
                                       /\ seen.date - Before + Grace >= clock}
               g == [r \in R |-> [rule |-> r, occurrence |-> OfDate(seen.date), due |-> seen.date - Before]]
    <2>1. IsFiniteSet(R)
      <3>1. R \in SUBSET Rules
        BY DEF Rules
      <3> HIDE DEF R
      <3> QED BY <3>1, FS_Subset
    <2>2. g \in Surjection(R, Reminded(seen))
      BY Zenon DEF Surjection, Reminded
    <2> HIDE DEF R, g
    <2> QED BY <2>1, <2>2, FS_Surjection
  <1> QED BY <1>1, <1>2, FS_Union

\* The steps of a delivery, as they leave its handler.
DeliveryEnds(i) == handler'[i] = Resting
Skips(i) == \E f \in handler[i].todo :
    handler[i].at = "claim" /\ handler'[i] = [handler[i] EXCEPT !.todo = @ \ {f}]
TakesUp(i) == \E f \in handler[i].todo, at \in {"run", "arm"} :
    handler[i].at = "claim" /\ handler'[i] = [handler[i] EXCEPT !.at = at, !.todo = @ \ {f}, !.hand = {f}]
GivesUp(i) == handler[i].at = "arm" /\ handler'[i] = [handler[i] EXCEPT !.at = "release"]
GoesOn(i) == /\ handler[i].at \in {"arm", "release", "run"}
             /\ handler'[i] = [handler[i] EXCEPT !.at = "claim", !.hand = {}]
Begins(i) == /\ handler[i].at = "idle"
             /\ IsFiniteSet(handler'[i].todo)

DeliveryStep(i) ==
    \/ handler'[i] = handler[i] \/ DeliveryEnds(i) \/ Skips(i) \/ TakesUp(i) \/ GivesUp(i)
    \/ GoesOn(i) \/ Begins(i)

LEMMA DeliverySteps ==
    ASSUME HandlersOK, [Next]_vars, NEW i \in Instances
    PROVE  DeliveryStep(i)
  <1>0. handler \in [Instances -> Handlers] /\ handler[i] \in Handlers
    BY DEF HandlersOK
  <1> USE DEF DeliveryStep
  <1>1. CASE UNCHANGED handler
    BY <1>1
  <1>2. ASSUME NEW j \in Instances, HandlerStep(j) \/ Crash(j)
        PROVE  DeliveryStep(i)
    <2>1. CASE j # i
      <3>1. handler'[i] = handler[i]
        BY <1>0, <1>2, <2>1 DEF HandlerStep, Crash, Receive, ReceiveMisread, ReceiveFails, Take, Claim, ClaimFails,
           Arm, ArmFails, Release, ReleaseFails, Run, RunFails, Delete, Resume, Drops
      <3> QED BY <3>1
    <2>2. CASE Crash(i) \/ Delete(i)
      BY <1>0, <2>2 DEF Crash, Delete, DeliveryEnds
    <2>3. CASE Receive(i) \/ ReceiveMisread(i)
      <3>1. PICK e \in Events, seen \in {job, older, Unread} : Take(i, e, seen)
        BY <2>3 DEF Receive, ReceiveMisread
      <3>2. handler[i].at = "idle"
        BY <3>1 DEF Take, Takes
      <3>3. handler'[i].todo = Fired(e, seen, message[e].receives + 1) \cup Reminded(seen)
        BY <1>0, <3>1 DEF Take
      <3> QED BY <3>2, <3>3, FiniteFired DEF Begins
    <2>4. CASE ReceiveFails(i)
      BY <2>4 DEF ReceiveFails
    <2>5. CASE Claim(i)
      <3>1. PICK f \in handler[i].todo :
              \/ Drops(i, f)
              \/ handler' = [handler EXCEPT ![i].at = IF f.due = None THEN "run" ELSE "arm",
                                            ![i].todo = @ \ {f}, ![i].hand = {f}]
        BY <2>5 DEF Claim, NextUp
      <3>2. handler[i].at = "claim"
        BY <2>5 DEF Claim, Handles
      <3>3. CASE Drops(i, f)
        BY <1>0, <3>2, <3>3 DEF Drops, Skips
      <3>4. CASE handler' = [handler EXCEPT ![i].at = IF f.due = None THEN "run" ELSE "arm",
                                            ![i].todo = @ \ {f}, ![i].hand = {f}]
        BY <1>0, <3>2, <3>4 DEF TakesUp
      <3> QED BY <3>1, <3>3, <3>4
    <2>6. CASE ClaimFails(i)
      <3>1. PICK f \in handler[i].todo : Drops(i, f)
        BY <2>6 DEF ClaimFails, NextUp
      <3>2. handler[i].at = "claim"
        BY <2>6 DEF ClaimFails, Handles
      <3> QED BY <1>0, <3>1, <3>2 DEF Drops, Skips
    <2>7. CASE ArmFails(i)
      <3>1. handler[i].at = "arm"
        BY <2>7 DEF ArmFails, Handles
      <3>2. handler'[i] = [handler[i] EXCEPT !.at = "release"]
        BY <1>0, <2>7 DEF ArmFails, AfterArmFails, Handlers
      <3> QED BY <3>1, <3>2 DEF GivesUp
    <2>8. CASE Arm(i) \/ Release(i) \/ ReleaseFails(i) \/ Run(i) \/ RunFails(i)
      <3>1. Resume(i) /\ handler[i].at \in {"arm", "release", "run"}
        BY <2>8 DEF Arm, Release, ReleaseFails, Run, RunFails, Handles
      <3> QED BY <1>0, <3>1 DEF Resume, GoesOn
    <2> QED BY <1>2, <2>1, <2>2, <2>3, <2>4, <2>5, <2>6, <2>7, <2>8 DEF HandlerStep
  <1> QED BY <1>1, <1>2, HandlerFrame

LEMMA FiniteDelivery ==
    ASSUME HandlersOK, [Next]_vars, NEW i \in Instances, IsFiniteSet(handler[i].todo)
    PROVE  IsFiniteSet(handler'[i].todo)
  <1>1. handler[i] \in Handlers
    BY DEF HandlersOK
  <1>2. CASE DeliveryEnds(i)
    BY <1>2, FS_EmptySet DEF DeliveryEnds, Resting
  <1>3. CASE Skips(i) \/ TakesUp(i)
    <2>1. PICK f : handler'[i].todo = handler[i].todo \ {f}
      BY <1>1, <1>3 DEF Skips, TakesUp, Handlers
    <2>2. IsFiniteSet(handler[i].todo \ {f})
      BY StillFinite
    <2> QED BY <2>1, <2>2
  <1>4. CASE GivesUp(i) \/ GoesOn(i)
    BY <1>1, <1>4 DEF GivesUp, GoesOn, Handlers
  <1> QED BY <1>2, <1>3, <1>4, DeliverySteps DEF DeliveryStep, Begins

\* A step of a delivery takes up a firing or gets on with the one in hand.
LEMMA DeliveryRunsDown ==
    ASSUME HandlersOK, [Next]_vars, NEW i \in Instances, IsFiniteSet(handler[i].todo), handler[i].at # "idle"
    PROVE  handler'[i] = handler[i] \/ ToHandle(handler'[i]) \in 0 .. ToHandle(handler[i]) - 1
  <1> DEFINE n == Cardinality(handler[i].todo)
  <1>1. handler[i] \in Handlers /\ n \in Nat
    BY FS_CardinalityType DEF HandlersOK
  <1>2. ToHandle(handler[i]) = 4 * n + HandlerSteps[handler[i].at]
    BY DEF ToHandle
  <1>3. CASE DeliveryEnds(i)
    <2>1. ToHandle(handler'[i]) = 0
      BY <1>3, FS_EmptySet DEF DeliveryEnds, Resting, ToHandle, HandlerSteps
    <2>2. HandlerSteps[handler[i].at] \in 1 .. 3
      BY <1>1 DEF Handlers, HandlerSteps
    <2> QED BY <1>1, <1>2, <2>1, <2>2
  <1>4. CASE Skips(i) \/ TakesUp(i)
    <2>1. PICK f \in handler[i].todo :
            /\ handler[i].at = "claim" /\ handler'[i].todo = handler[i].todo \ {f}
            /\ handler'[i].at \in {"claim", "run", "arm"}
      BY <1>1, <1>4 DEF Skips, TakesUp, Handlers
    <2>2. Cardinality(handler'[i].todo) = n - 1 /\ n >= 1
      <3>1. n >= 1 /\ Cardinality(handler[i].todo \ {f}) = n - 1
        BY OneFewer, Zenon
      <3> QED BY <2>1, <3>1
    <2>3. HandlerSteps[handler'[i].at] \in 1 .. 3 /\ HandlerSteps[handler[i].at] = 1
      BY <2>1 DEF HandlerSteps
    <2>4. ToHandle(handler'[i]) = 4 * (n - 1) + HandlerSteps[handler'[i].at]
      BY <2>2 DEF ToHandle
    <2> QED BY <1>1, <1>2, <2>2, <2>3, <2>4
  <1>5. CASE GivesUp(i) \/ GoesOn(i)
    <2>1. handler'[i].todo = handler[i].todo
      BY <1>1, <1>5 DEF GivesUp, GoesOn, Handlers
    <2>2. \/ handler[i].at = "arm" /\ handler'[i].at = "release"
          \/ handler[i].at \in {"arm", "release", "run"} /\ handler'[i].at = "claim"
      BY <1>1, <1>5 DEF GivesUp, GoesOn, Handlers
    <2>3. /\ HandlerSteps[handler'[i].at] \in 0 .. HandlerSteps[handler[i].at] - 1
          /\ HandlerSteps[handler[i].at] \in 1 .. 3
      BY <2>2 DEF HandlerSteps
    <2>4. ToHandle(handler'[i]) = 4 * n + HandlerSteps[handler'[i].at]
      BY <2>1 DEF ToHandle
    <2> QED BY <1>1, <1>2, <2>4, <2>3
  <1> QED BY <1>3, <1>4, <1>5, DeliverySteps DEF DeliveryStep, Begins

\* The steps of a sweep, as they leave it.
GoesTo(i, todo) ==
    \/ sweep'[i] = [sweep[i] EXCEPT !.at = "take", !.todo = todo, !.hand = {}]
    \/ /\ sweep[i].cursor + 1 < sweep[i].now
       /\ sweep'[i] = [sweep[i] EXCEPT !.at = "read", !.cursor = @ + 1, !.todo = {}, !.hand = {}]
    \/ sweep'[i] = Waiting

ReadsMinute(i) == sweep[i].at = "read" /\ \E todo \in SUBSET board : GoesTo(i, todo)
PassesOver(i) == sweep[i].at = "take" /\ \E f \in sweep[i].todo : GoesTo(i, sweep[i].todo \ {f})
TakesDown(i) == /\ sweep[i].at = "take"
                /\ \E f \in sweep[i].todo :
                     sweep'[i] = [sweep[i] EXCEPT !.at = "look", !.todo = @ \ {f}, !.hand = {f}]
Judges(i) == /\ sweep[i].at = "look"
             /\ \E at \in {"release", "rearm", "run"} : sweep'[i] = [sweep[i] EXCEPT !.at = at]
IsDone(i) == sweep[i].at \in {"look", "release", "rearm", "run"} /\ GoesTo(i, sweep[i].todo)
Sets(i) == sweep[i].at = "idle" /\ sweep'[i].todo = {}

RoundStep(i) ==
    \/ sweep'[i] = sweep[i] \/ sweep'[i] = Waiting \/ Sets(i) \/ ReadsMinute(i) \/ PassesOver(i)
    \/ TakesDown(i) \/ Judges(i) \/ IsDone(i)

LEMMA ProceedsGoesTo ==
    ASSUME SweepersOK, NEW i \in Instances, NEW todo, Proceed(i, todo)
    PROVE  GoesTo(i, todo)
  BY DEF SweepersOK, Proceed, GoesTo

LEMMA JudgesStep ==
    ASSUME SweepersOK, NEW i \in Instances, NEW seen, Judge(i, seen)
    PROVE  RoundStep(i)
  <1>1. sweep[i].at = "look" /\ sweep \in [Instances -> Sweepers]
    BY DEF Judge, Sweeps, SweepersOK
  <1>2. \/ Proceed(i, sweep[i].todo)
        \/ \E at \in {"release", "rearm", "run"} : sweep' = [sweep EXCEPT ![i].at = at]
    BY Zenon DEF Judge
  <1>3. CASE Proceed(i, sweep[i].todo)
    BY <1>1, <1>3, ProceedsGoesTo DEF RoundStep, IsDone
  <1>4. CASE \E at \in {"release", "rearm", "run"} : sweep' = [sweep EXCEPT ![i].at = at]
    BY <1>1, <1>4 DEF RoundStep, Judges
  <1> QED BY <1>2, <1>3, <1>4

LEMMA RoundSteps ==
    ASSUME SweepersOK, [Next]_vars, NEW i \in Instances
    PROVE  RoundStep(i)
  <1>0. sweep \in [Instances -> Sweepers] /\ sweep[i] \in Sweepers /\ SweeperOK(sweep[i])
    BY DEF SweepersOK
  <1>1. CASE UNCHANGED scheduler
    BY <1>1 DEF scheduler, RoundStep
  <1>2. ASSUME NEW j \in Instances, SweepStep(j) \/ SweepFault(j) \/ Crash(j)
        PROVE  RoundStep(i)
    <2>1. CASE j # i
      <3>1. sweep'[i] = sweep[i]
        BY <1>0, <1>2, <2>1, Zenon DEF SweepStep, SweepFault, Crash, StartSweep, Read, TakeOff, Look, ReleaseStale,
           Rearm, RunTimer, ReadFails, TakeOffFails, LookMisread, ReleaseStaleFails, RearmFails, FireFails, Judge,
           Proceed
      <3> QED BY <3>1 DEF RoundStep
    <2>2. CASE Crash(i) \/ ReadFails(i)
      BY <1>0, <2>2 DEF Crash, ReadFails, RoundStep
    <2>3. CASE StartSweep(i)
      <3>1. sweep[i].at = "idle" /\ sweep'[i].todo = sweep[i].todo
        BY <1>0, <2>3 DEF StartSweep, Sweepers
      <3> QED BY <1>0, <3>1 DEF RoundStep, Sets, SweeperOK
    <2>4. CASE Read(i)
      <3>1. sweep[i].at = "read" /\ \E todo \in SUBSET board : Proceed(i, todo)
        BY <2>4 DEF Read, Sweeps
      <3> QED BY <3>1, ProceedsGoesTo DEF RoundStep, ReadsMinute
    <2>5. CASE TakeOff(i) \/ TakeOffFails(i)
      <3>1. PICK f \in sweep[i].todo :
              \/ sweep' = [sweep EXCEPT ![i].at = "look", ![i].todo = @ \ {f}, ![i].hand = {f}]
              \/ Proceed(i, sweep[i].todo \ {f})
        BY <2>5, Zenon DEF TakeOff, TakeOffFails
      <3>2. sweep[i].at = "take"
        BY <2>5 DEF TakeOff, TakeOffFails, Sweeps
      <3>3. CASE Proceed(i, sweep[i].todo \ {f})
        BY <3>2, <3>3, ProceedsGoesTo DEF RoundStep, PassesOver
      <3>4. CASE sweep' = [sweep EXCEPT ![i].at = "look", ![i].todo = @ \ {f}, ![i].hand = {f}]
        BY <1>0, <3>2, <3>4 DEF RoundStep, TakesDown
      <3> QED BY <3>1, <3>3, <3>4
    <2>6. CASE Look(i) \/ LookMisread(i)
      BY <2>6, JudgesStep DEF Look, LookMisread
    <2>7. CASE ReleaseStale(i) \/ ReleaseStaleFails(i) \/ Rearm(i) \/ RearmFails(i) \/ RunTimer(i) \/ FireFails(i)
      <3>1. sweep[i].at \in {"look", "release", "rearm", "run"} /\ Proceed(i, sweep[i].todo)
        BY <2>7 DEF ReleaseStale, ReleaseStaleFails, Rearm, RearmFails, RunTimer, FireFails, Sweeps
      <3> QED BY <3>1, ProceedsGoesTo DEF RoundStep, IsDone
    <2> QED BY <1>2, <2>1, <2>2, <2>3, <2>4, <2>5, <2>6, <2>7 DEF SweepStep, SweepFault
  <1> QED BY <1>1, <1>2, SweepFrame

LEMMA FiniteRound ==
    ASSUME SweepersOK, [Next]_vars, NEW i \in Instances, IsFiniteSet(sweep[i].todo), IsFiniteSet(board)
    PROVE  IsFiniteSet(sweep'[i].todo)
  <1>0. sweep[i] \in Sweepers
    BY DEF SweepersOK
  <1>1. ASSUME NEW todo, IsFiniteSet(todo), GoesTo(i, todo) PROVE IsFiniteSet(sweep'[i].todo)
    <2>1. CASE sweep'[i] = [sweep[i] EXCEPT !.at = "take", !.todo = todo, !.hand = {}]
      <3>1. sweep'[i].todo = todo
        BY <1>0, <2>1 DEF Sweepers
      <3> QED BY <1>1, <3>1
    <2>2. CASE sweep'[i] = [sweep[i] EXCEPT !.at = "read", !.cursor = @ + 1, !.todo = {}, !.hand = {}]
      <3>1. sweep'[i].todo = {}
        BY <1>0, <2>2 DEF Sweepers
      <3> QED BY <3>1, FS_EmptySet
    <2>3. CASE sweep'[i] = Waiting
      BY <2>3, FS_EmptySet DEF Waiting
    <2> QED BY <1>1, <2>1, <2>2, <2>3 DEF GoesTo
  <1>2. CASE sweep'[i] = Waiting \/ Sets(i)
    BY <1>2, FS_EmptySet DEF Waiting, Sets
  <1>3. CASE ReadsMinute(i)
    BY <1>1, <1>3, FS_Subset DEF ReadsMinute
  <1>4. CASE PassesOver(i)
    BY <1>1, <1>4, StillFinite DEF PassesOver
  <1>5. CASE TakesDown(i)
    <2>1. PICK f \in sweep[i].todo : sweep'[i] = [sweep[i] EXCEPT !.at = "look", !.todo = @ \ {f}, !.hand = {f}]
      BY <1>5 DEF TakesDown
    <2>2. sweep'[i].todo = sweep[i].todo \ {f}
      BY <1>0, <2>1 DEF Sweepers
    <2>3. IsFiniteSet(sweep[i].todo \ {f})
      BY StillFinite
    <2> QED BY <2>2, <2>3
  <1>6. CASE Judges(i)
    <2>1. sweep'[i].todo = sweep[i].todo
      BY <1>0, <1>6 DEF Judges, Sweepers
    <2> QED BY <2>1
  <1>7. CASE IsDone(i)
    BY <1>1, <1>7 DEF IsDone
  <1> QED BY <1>2, <1>3, <1>4, <1>5, <1>6, <1>7, RoundSteps DEF RoundStep

\* A sweep that goes on is in a later minute, or has less to do in this one.
SweepsOn(i) ==
    \/ sweep'[i] = sweep[i] \/ sweep'[i] = Waiting
    \/ ToSweep(sweep'[i]) \in 0 .. ToSweep(sweep[i]) - 1
    \/ /\ ToSweep(sweep'[i]) = ToSweep(sweep[i])
       /\ ToFire(sweep'[i]) \in 0 .. ToFire(sweep[i]) - 1

LEMMA RoundRunsDown ==
    ASSUME SweepersOK, [Next]_vars, NEW i \in Instances, IsFiniteSet(sweep[i].todo), IsFiniteSet(board),
           sweep[i].at # "idle"
    PROVE  SweepsOn(i)
  <1> DEFINE n == Cardinality(sweep[i].todo)
             left == 2 * (sweep[i].now - sweep[i].cursor)
  <1>0. /\ sweep[i] \in Sweepers /\ n \in Nat /\ left \in Nat /\ left >= 2
        /\ sweep[i].now \in Nat /\ sweep[i].cursor \in Nat
    <2>1. SweeperOK(sweep[i]) /\ n \in Nat
      BY FS_CardinalityType DEF SweepersOK
    <2> QED BY <2>1 DEF SweeperOK, Sweepers, Minutes
  <1>1. ToSweep(sweep[i]) = left + (IF sweep[i].at = "read" THEN 1 ELSE 0)
    BY DEF ToSweep
  <1>2. ToFire(sweep[i]) = 3 * n + SweepSteps[sweep[i].at]
    BY DEF ToFire
  \* The next minute is nearer to the one the sweep began in.
  <1>3. ASSUME sweep[i].cursor + 1 < sweep[i].now,
               sweep'[i] = [sweep[i] EXCEPT !.at = "read", !.cursor = @ + 1, !.todo = {}, !.hand = {}]
        PROVE  SweepsOn(i)
    <2>1. /\ sweep'[i].at = "read" /\ sweep'[i].now = sweep[i].now
          /\ sweep'[i].cursor = sweep[i].cursor + 1
      BY <1>0, <1>3 DEF Sweepers
    <2>2. ToSweep(sweep'[i]) = 2 * (sweep[i].now - (sweep[i].cursor + 1)) + 1
      BY <2>1 DEF ToSweep
    <2> HIDE DEF n
    <2> QED BY <1>0, <1>1, <1>3, <2>2 DEF SweepsOn
  \* In the same minute, with fewer firings, or with the one in hand done.
  <1>4. ASSUME NEW todo, Cardinality(todo) \in Nat,
               sweep'[i] = [sweep[i] EXCEPT !.at = "take", !.todo = todo, !.hand = {}]
        PROVE  /\ ToSweep(sweep'[i]) = left
               /\ ToFire(sweep'[i]) = 3 * Cardinality(todo)
    <2>1. /\ sweep'[i].at = "take" /\ sweep'[i].now = sweep[i].now
          /\ sweep'[i].cursor = sweep[i].cursor /\ sweep'[i].todo = todo
      BY <1>0, <1>4 DEF Sweepers
    <2>2. SweepSteps[sweep'[i].at] = 0
      BY <2>1 DEF SweepSteps
    <2>3. ToFire(sweep'[i]) = 3 * Cardinality(todo) + 0
      BY <2>1, <2>2 DEF ToFire
    <2>4. ToSweep(sweep'[i]) = left + 0
      BY <2>1 DEF ToSweep
    <2> QED BY <1>0, <1>4, <2>3, <2>4
  <1>5. CASE ReadsMinute(i)
    <2>1. PICK todo \in SUBSET board : GoesTo(i, todo) /\ IsFiniteSet(todo)
      BY <1>5, FS_Subset DEF ReadsMinute
    <2>2. ToSweep(sweep[i]) = left + 1
      BY <1>1, <1>5 DEF ReadsMinute
    <2>3. CASE sweep'[i] = [sweep[i] EXCEPT !.at = "take", !.todo = todo, !.hand = {}]
      <3>1. Cardinality(todo) \in Nat /\ ToSweep(sweep'[i]) = left
        BY <1>4, <2>1, <2>3, FS_CardinalityType
      <3> QED BY <1>0, <2>2, <3>1 DEF SweepsOn
    <2> QED BY <1>3, <2>1, <2>3 DEF GoesTo, SweepsOn
  <1>6. ASSUME NEW f \in sweep[i].todo
        PROVE  n >= 1 /\ Cardinality(sweep[i].todo \ {f}) = n - 1
    BY OneFewer, Zenon
  <1>7. CASE PassesOver(i)
    <2>1. PICK f \in sweep[i].todo : GoesTo(i, sweep[i].todo \ {f})
      BY <1>7 DEF PassesOver
    <2>2. ToSweep(sweep[i]) = left /\ ToFire(sweep[i]) = 3 * n
      BY <1>0, <1>1, <1>2, <1>7 DEF PassesOver, SweepSteps
    <2>3. CASE sweep'[i] = [sweep[i] EXCEPT !.at = "take", !.todo = sweep[i].todo \ {f}, !.hand = {}]
      <3>1. Cardinality(sweep[i].todo \ {f}) \in Nat /\ Cardinality(sweep[i].todo \ {f}) = n - 1
        BY <1>0, <1>6
      <3>2. ToSweep(sweep'[i]) = left /\ ToFire(sweep'[i]) = 3 * (n - 1)
        BY <1>4, <2>3, <3>1
      <3>3. n >= 1
        BY <1>6
      <3> HIDE DEF n, left
      <3> QED BY <1>0, <2>2, <3>2, <3>3 DEF SweepsOn
    <2> QED BY <1>3, <2>1, <2>3 DEF GoesTo, SweepsOn
  <1>8. CASE TakesDown(i)
    <2>1. PICK f \in sweep[i].todo :
            sweep'[i] = [sweep[i] EXCEPT !.at = "look", !.todo = @ \ {f}, !.hand = {f}]
      BY <1>8 DEF TakesDown
    <2>2. ToSweep(sweep[i]) = left /\ ToFire(sweep[i]) = 3 * n
      BY <1>0, <1>1, <1>2, <1>8 DEF TakesDown, SweepSteps
    <2>3. /\ sweep'[i].at = "look" /\ sweep'[i].now = sweep[i].now
          /\ sweep'[i].cursor = sweep[i].cursor /\ sweep'[i].todo = sweep[i].todo \ {f}
      BY <1>0, <2>1 DEF Sweepers
    <2>4. ToFire(sweep'[i]) = 3 * Cardinality(sweep[i].todo \ {f}) + SweepSteps["look"]
      BY <2>3, Zenon DEF ToFire
    <2>5. SweepSteps["look"] = 2 /\ Cardinality(sweep[i].todo \ {f}) = n - 1
      BY <1>6 DEF SweepSteps
    <2>6. ToSweep(sweep'[i]) = left + 0
      BY <2>3 DEF ToSweep
    <2>7. ToSweep(sweep'[i]) = left /\ ToFire(sweep'[i]) = 3 * (n - 1) + 2
      BY <1>0, <2>4, <2>5, <2>6
    <2>8. n >= 1
      BY <1>6
    <2> HIDE DEF n, left
    <2> QED BY <1>0, <2>2, <2>7, <2>8 DEF SweepsOn
  <1>9. CASE Judges(i)
    <2>1. /\ sweep'[i].at \in {"release", "rearm", "run"} /\ sweep'[i].now = sweep[i].now
          /\ sweep'[i].cursor = sweep[i].cursor /\ sweep'[i].todo = sweep[i].todo
      BY <1>0, <1>9 DEF Judges, Sweepers
    <2>2. ToSweep(sweep[i]) = left /\ ToFire(sweep[i]) = 3 * n + 2
      BY <1>0, <1>1, <1>2, <1>9 DEF Judges, SweepSteps
    <2>3. SweepSteps[sweep'[i].at] = 1
      BY <2>1 DEF SweepSteps
    <2>4. ToSweep(sweep'[i]) = left /\ ToFire(sweep'[i]) = 3 * n + 1
      BY <1>0, <2>1, <2>3 DEF ToSweep, ToFire
    <2> QED BY <1>0, <2>2, <2>4 DEF SweepsOn
  <1>10. CASE IsDone(i)
    <2>1. SweepSteps[sweep[i].at] \in 1 .. 2
      BY <1>10 DEF IsDone, SweepSteps
    <2>2. ToSweep(sweep[i]) = left
      BY <1>0, <1>1, <1>10 DEF IsDone
    <2>3. CASE sweep'[i] = [sweep[i] EXCEPT !.at = "take", !.todo = sweep[i].todo, !.hand = {}]
      <3>1. ToSweep(sweep'[i]) = left /\ ToFire(sweep'[i]) = 3 * n
        BY <1>0, <1>4, <2>3
      <3> QED BY <1>0, <1>2, <2>1, <2>2, <3>1 DEF SweepsOn
    <2> QED BY <1>3, <1>10, <2>3 DEF IsDone, GoesTo, SweepsOn
  <1> QED BY <1>5, <1>7, <1>8, <1>9, <1>10, RoundSteps DEF RoundStep, SweepsOn, Sets

LEMMA FiniteBoard ==
    ASSUME HandlersOK, SweepersOK, IsFiniteSet(board), [Next]_vars
    PROVE  IsFiniteSet(board')
  <1>1. ASSUME NEW f, board' \subseteq board \cup {f} PROVE IsFiniteSet(board')
    <2>1. IsFiniteSet(board \cup {f})
      BY FS_AddElement
    <2> QED BY <1>1, <2>1, FS_Subset
  <1>2. CASE board' \subseteq board
    BY <1>2, FS_Subset
  <1>3. CASE Tick \/ ChangeStatus \/ Reschedule \/ (\E e \in Events : Expire(e)) \/ UNCHANGED vars
    BY <1>2, <1>3, Zenon DEF Tick, ChangeStatus, Reschedule, Publish, Expire, vars, table
  <1>4. ASSUME NEW i \in Instances, HandlerStep(i) PROVE IsFiniteSet(board')
    <2>1. CASE Arm(i) \/ ArmFails(i)
      <3>1. PICK f : handler[i].hand = {f}
        BY <2>1 DEF Arm, ArmFails, Handles, HandlersOK, HandlerOK
      <3>2. board' \subseteq board \cup {f}
        BY <2>1, <3>1 DEF Arm, ArmFails, Arms
      <3> QED BY <1>1, <3>2
    <2>2. CASE ~(Arm(i) \/ ArmFails(i))
      BY <1>2, <1>4, <2>2, Zenon DEF HandlerStep, Receive, ReceiveMisread, ReceiveFails, Take, Takes, Claim,
         losses, table, ClaimFails, Release, ReleaseFails, Run, RunFails, Delete
    <2> QED BY <2>1, <2>2
  <1>5. ASSUME NEW i \in Instances, SweepStep(i) \/ SweepFault(i) \/ Crash(i) PROVE IsFiniteSet(board')
    <2>1. CASE TakeOff(i) \/ TakeOffFails(i)
      BY <1>2, <2>1 DEF TakeOff, TakeOffFails
    <2>2. CASE Rearm(i) \/ RearmFails(i)
      <3>1. PICK f : Held(i) = {f}
        BY DEF Held
      <3>2. board' \subseteq board \cup {f}
        BY <2>2, <3>1 DEF Rearm, RearmFails, Arms
      <3> QED BY <1>1, <3>2
    <2>3. CASE ~(TakeOff(i) \/ TakeOffFails(i) \/ Rearm(i) \/ RearmFails(i))
      BY <1>2, <1>5, <2>3, Zenon DEF SweepStep, SweepFault, Crash, StartSweep, Read, Look, ReleaseStale,
         RunTimer, ReadFails, LookMisread, ReleaseStaleFails, FireFails, Judge, losses, table
    <2> QED BY <2>1, <2>2, <2>3
  <1> QED BY <1>3, <1>4, <1>5 DEF Next

\* A delivery and a sweep get done with what they found, for any number of rules,
\* firings, instances and faults: whatever fails, is armed or crosses meanwhile,
\* every step of theirs leaves less to do, so neither the queue's visibility nor a
\* minute's sweep waits on a round that goes on for ever.
THEOREM RoundsComeToAnEnd == Spec => RoundsEnd
  <1>1. Init => FiniteInv
    <2> SUFFICES ASSUME Init PROVE FiniteInv
      OBVIOUS
    <2>1. board = {} /\ \A i \in Instances : handler[i].todo = {} /\ sweep[i].todo = {}
      BY DEF Init, Resting, Waiting
    <2> QED BY <2>1, FS_EmptySet DEF FiniteInv
  <1>2. EngineInv /\ FiniteInv /\ [Next]_vars => FiniteInv'
    BY FiniteBoard, FiniteDelivery, FiniteRound DEF EngineInv, SweepInv, FiniteInv
  <1>3. EngineInv /\ FiniteInv /\ [Next]_vars =>
          [\A i \in Instances :
             /\ handler[i].at # "idle" =>
                  handler'[i] = handler[i] \/ ToHandle(handler'[i]) \in 0 .. ToHandle(handler[i]) - 1
             /\ sweep[i].at # "idle" =>
                  \/ sweep'[i] = sweep[i] \/ sweep'[i] = Waiting
                  \/ ToSweep(sweep'[i]) \in 0 .. ToSweep(sweep[i]) - 1
                  \/ /\ ToSweep(sweep'[i]) = ToSweep(sweep[i])
                     /\ ToFire(sweep'[i]) \in 0 .. ToFire(sweep[i]) - 1]_vars
    BY DeliveryRunsDown, RoundRunsDown, Zenon DEF EngineInv, SweepInv, FiniteInv, SweepsOn
  <1>4. Spec => []FiniteInv
    BY <1>1, <1>2, EngineInvariant, PTL DEF Spec
  <1> QED BY <1>3, <1>4, EngineInvariant, PTL DEF Spec, RoundsEnd
=============================================================================
