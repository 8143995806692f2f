------------------------- MODULE OutboundSendProofs -------------------------
(***************************************************************************)
(* What holds of outbound texts for every number of lines, instances,      *)
(* texts taken by Twilio and faults: a text is not repeated unseen, a line *)
(* shows what became of a text of its words, a job that leaves the queue   *)
(* is done with, and the feed only moves forward.                          *)
(*                                                                         *)
(* None of them is inductive by itself. The invariant OInv says what       *)
(* connects the parts: a text of the log was claimed before it was sent    *)
(* (LogOK), what stands on a line, in a worker's hand, behind a pointer or *)
(* with the reconciliation is a text of the log with the line's words      *)
(* (Relates), a worker about to delete a job is done with it (HandOK), and *)
(* a line that one worker is sending has no text yet (OnceOK).             *)
(*                                                                         *)
(* The lemmas say first what one step does to lines, queue and log, then   *)
(* what therefore stays true of whatever was read earlier.                 *)
(***************************************************************************)
EXTENDS OutboundSend, FiniteSetTheorems, WellFoundedInduction, TLAPS

---------------------------------------------------------------------------
(* Least and greatest numbers, which CHOOSE and the newest text rest on. *)

LEMMA Least ==
    ASSUME NEW T \in SUBSET Nat, T # {}
    PROVE  \E x \in T : \A y \in T : x <= y
  <1>1. PICK R : R = {ss \in Nat \X Nat : ss[1] < ss[2]}
    OBVIOUS
  <1>2. IsWellFoundedOn(R, Nat)
    BY <1>1, NatLessThanWellFounded DEF OpToRel
  <1>3. PICK x \in T : \A y \in T : ~(<<y, x>> \in R)
    BY <1>2, WFMin
  <1>4. ASSUME NEW y \in T, y < x PROVE FALSE
    <2>1. PICK e : e = <<y, x>>
      OBVIOUS
    <2>2. e \in Nat \X Nat /\ e[1] < e[2]
      BY <1>4, <2>1
    <2> QED BY <1>1, <1>3, <2>1, <2>2
  <1> QED BY <1>4

LEMMA Greatest ==
    ASSUME NEW n \in Nat, NEW T \in SUBSET (1 .. n), T # {}
    PROVE  \E x \in T : \A y \in T : y <= x
  <1>1. PICK S : S = {n - x : x \in T}
    OBVIOUS
  <1>2. S \in SUBSET Nat /\ S # {}
    <2>1. \A x \in T : n - x \in Nat
      OBVIOUS
    <2> QED BY <1>1, <2>1
  <1>3. PICK z \in S : \A y \in S : z <= y
    BY <1>2, Least
  <1>4. PICK x \in T : z = n - x
    BY <1>1
  <1>5. \A y \in T : y <= x
    BY <1>1, <1>3, <1>4
  <1> QED BY <1>5

---------------------------------------------------------------------------
(* What a line shows. *)

LEMMA RankIs ==
    /\ Statuses = {"none", "queued", "sending", "sent", "delivered", "undelivered", "failed"}
    /\ Rank["none"] = 0 /\ Rank["queued"] = 0 /\ Rank["sending"] = 1 /\ Rank["sent"] = 2
    /\ Rank["delivered"] = 3 /\ Rank["undelivered"] = 3 /\ Rank["failed"] = 3
    /\ \A status \in Statuses : Rank[status] \in Nat
  BY DEF Statuses, Rank

---------------------------------------------------------------------------
(* The inductive invariant. *)

Shown == {"sent", "delivered", "undelivered"}

\* A text of Twilio's log has the words of a line that was written.
Relates(s, m) == s \in Sent /\ m \in Messages /\ text[origin[s]] = text[m] /\ submit[m] # "new"

\* What may stand of a text on a line, or in somebody's hands.
Known(s, status) == status \in {"queued"} \cup Reported(s)

Batches == UNION {[B -> 0 .. MaxReceives] : B \in SUBSET Messages}
Instances ==
    [at : Steps, batch : Batches, started : BOOLEAN, sid : Sids \cup {NoSid}, status : Statuses]
Adoptions == [at : {"idle", "status", "point"}, sid : Sids \cup {NoSid}, line : Messages \cup {NoLine}]

TypesOK ==
    /\ text \in [Messages -> Texts]
    /\ line \in [Messages -> Lines]
    /\ submit \in [Messages -> {"new", "stored", "failing", "accepted", "refused", "died"}]
    /\ job \in [Messages -> {"none", "visible", "in flight", "deleted", "dead"}]
    /\ receives \in [Messages -> 0 .. MaxReceives]
    /\ worker \in [Workers -> Instances]
    /\ pointer \in [Sids -> Messages \cup {NoLine, Inserted}]
    /\ record \in [Sids -> {"none", "queued", "sent", "delivered", "undelivered"}]
    /\ origin \in [Sids -> Messages \cup {NoLine}]
    /\ recon \in Adoptions /\ missed \subseteq Sids
    /\ faults \in 0 .. MaxFaults
    /\ since \in [Messages -> 0 .. MaxSends]
    /\ blind \subseteq Messages /\ together \subseteq Messages /\ dropped \subseteq Messages

\* Twilio's log fills up in order; what it took was written and claimed before.
LogOK ==
    /\ Newest \in 0 .. MaxSends /\ Sent = 1 .. Newest
    /\ \A s \in Sent : /\ origin[s] \in Messages /\ submit[origin[s]] # "new"
                      /\ line[origin[s]].started /\ since[origin[s]] < s
    /\ \A m \in Messages : since[m] <= Newest

LineOK(m) ==
    /\ submit[m] = "new" => line[m] = NoWriting
    /\ submit[m] # "new" => line[m].status # "none"
    /\ submit[m] \in {"new", "stored"} => job[m] = "none" /\ receives[m] = 0
    /\ job[m] = "visible" => receives[m] < MaxReceives
    /\ line[m].sid # NoSid => Relates(line[m].sid, m)
    /\ line[m].status \in Shown => line[m].sid # NoSid /\ line[m].status \in Reported(line[m].sid)

\* A job that is done with, or excused.
Done(m) ==
    Twins(m) # {} \/ m \in dropped \/ SendsOf(m) # {} \/ line[m].status = "failed"

JobOK(m) == job[m] = "deleted" => Done(m)

First(batch) == CHOOSE m \in DOMAIN batch : \A n \in DOMAIN batch : m <= n

\* What a worker has in hand.
HandOK(k) ==
    LET m == First(k.batch) IN
    /\ k.at # "idle" <=> DOMAIN k.batch # {}
    /\ \A n \in DOMAIN k.batch : submit[n] # "new"
    /\ k.started => k.at # "idle" /\ line[m].started
    /\ k.at = "list" => k.started
    /\ k.at = "create" => line[m].started
    /\ k.at \in {"repoint", "point", "attach", "status"} => Relates(k.sid, m)
    /\ k.at \in {"point", "attach", "status"} => Known(k.sid, k.status)
    /\ k.at = "status" => k.status \in Shown
    /\ k.at = "delete" => Done(m)

HandsOK == \A w \in Workers : \A k \in {worker[w]} : HandOK(k)

ReconOK == recon.at # "idle" => Relates(recon.sid, recon.line)

PointersOK == \A s \in Sids : pointer[s] \in Messages => Relates(s, pointer[s])

Unseen == blind \cup together

Sending(w, m) == \E k \in {worker[w]} : k.at = "create" /\ First(k.batch) = m

\* A line is sent by one worker, and not again.
OnceOK ==
    /\ \A s, r \in Sent : origin[s] = origin[r] /\ origin[s] \notin Unseen => s = r
    /\ \A m \in Messages \ Unseen, w \in Workers :
         Sending(w, m) => /\ \A s \in Sent : origin[s] # m
                          /\ \A v \in Workers : Sending(v, m) => v = w

OInv ==
    /\ TypesOK /\ LogOK
    /\ \A m \in Messages : LineOK(m) /\ JobOK(m)
    /\ HandsOK
    /\ ReconOK /\ PointersOK /\ OnceOK

---------------------------------------------------------------------------
(* What lines, texts and workers keep in any step. *)

LEMMA FirstIs ==
    ASSUME NEW batch \in Batches, DOMAIN batch # {}
    PROVE  /\ First(batch) \in DOMAIN batch /\ First(batch) \in Messages
           /\ \A n \in DOMAIN batch : First(batch) <= n
  <1>1. DOMAIN batch \in SUBSET Messages /\ Messages \subseteq Nat
    BY MessagesAssumption DEF Batches
  <1>2. \E m \in DOMAIN batch : \A n \in DOMAIN batch : m <= n
    BY <1>1, Least
  <1> QED BY <1>1, <1>2 DEF First

\* A line only moves on, and what it newly shows of a text is so.
RowStep(m) ==
    /\ line'[m] \in Lines
    /\ line[m].started => line'[m].started
    /\ Rank[line'[m].status] >= Rank[line[m].status]
    /\ line[m].status \in Final => line'[m].status = line[m].status
    /\ line[m].status # "none" => line'[m].status # "none"
    /\ line[m].sid # NoSid => line'[m].sid = line[m].sid
    /\ line'[m] # line[m] => submit[m] # "new" \/ submit'[m] # "new"
    /\ line'[m].sid # line[m].sid => Relates(line'[m].sid, m)
    /\ line'[m].status # line[m].status /\ line'[m].status \in Shown =>
          line'[m].sid # NoSid /\ line'[m].status \in Reported(line'[m].sid)

LinesMove == line' \in [Messages -> Lines] /\ \A m \in Messages : RowStep(m)

LEMMA StillThere ==
    ASSUME NEW m \in Messages, line[m] \in Lines, line'[m] = line[m]
    PROVE  RowStep(m)
  <1>1. Rank[line[m].status] \in Nat
    BY RankIs DEF Lines
  <1> QED BY <1>1 DEF RowStep

LEMMA StatusEdit ==
    ASSUME NEW l \in Lines, NEW status
    PROVE  [l EXCEPT !.status = status] = [status |-> status, started |-> l.started, sid |-> l.sid]
  BY DEF Lines

LEMMA SidEdit ==
    ASSUME NEW l \in Lines, NEW status, NEW sid
    PROVE  [l EXCEPT !.status = status, !.sid = sid] = [status |-> status, started |-> l.started, sid |-> sid]
  <1>1. [l EXCEPT !.status = status] = [status |-> status, started |-> l.started, sid |-> l.sid]
    BY StatusEdit, Zenon
  <1>2. \A a, b, c : [[status |-> a, started |-> b, sid |-> c] EXCEPT !.sid = sid]
                        = [status |-> a, started |-> b, sid |-> sid]
    OBVIOUS
  <1>3. [[status |-> status, started |-> l.started, sid |-> l.sid] EXCEPT !.sid = sid]
              = [status |-> status, started |-> l.started, sid |-> sid]
    BY <1>2, Zenon
  <1> QED BY <1>1, <1>3, Zenon

LEMMA StartedEdit ==
    ASSUME NEW l \in Lines, NEW status, NEW started
    PROVE  [l EXCEPT !.status = status, !.started = started]
             = [status |-> status, started |-> started, sid |-> l.sid]
  <1>1. [l EXCEPT !.status = status] = [status |-> status, started |-> l.started, sid |-> l.sid]
    BY StatusEdit, Zenon
  <1>2. \A a, b, c : [[status |-> a, started |-> b, sid |-> c] EXCEPT !.started = started]
                        = [status |-> a, started |-> started, sid |-> c]
    OBVIOUS
  <1>3. [[status |-> status, started |-> l.started, sid |-> l.sid] EXCEPT !.started = started]
              = [status |-> status, started |-> started, sid |-> l.sid]
    BY <1>2, Zenon
  <1> QED BY <1>1, <1>3, Zenon

LEMMA UpdateStatusIs ==
    ASSUME NEW l \in Lines, NEW status \in Statuses, NEW s \in Sids \cup {NoSid}
    PROVE  LET u == UpdateStatus(l, status, s) IN
           /\ u \in Lines /\ u.started = l.started
           /\ \/ u = l /\ (s = NoSid => Rank[status] <= Rank[l.status])
              \/ /\ Rank[status] > Rank[l.status] /\ u.status = status
                 /\ s # NoSid => u.sid = s /\ l.sid \in {NoSid, s}
                 /\ s = NoSid => u.sid = l.sid
  <1>1. CASE Rank[status] <= Rank[l.status] \/ (s # NoSid /\ l.sid \notin {NoSid, s})
    BY <1>1 DEF UpdateStatus
  <1>2. CASE ~(Rank[status] <= Rank[l.status] \/ (s # NoSid /\ l.sid \notin {NoSid, s}))
    <2>1. Rank[status] \in Nat /\ Rank[l.status] \in Nat
      BY RankIs DEF Lines
    <2>2. PICK sid : sid = IF s = NoSid THEN l.sid ELSE s
      OBVIOUS
    <2>3. UpdateStatus(l, status, s) = [l EXCEPT !.status = status, !.sid = sid]
      BY <1>2, <2>2, Zenon DEF UpdateStatus
    <2>4. [l EXCEPT !.status = status, !.sid = sid] = [status |-> status, started |-> l.started, sid |-> sid]
      BY SidEdit, Zenon
    <2>5. sid \in Sids \cup {NoSid} /\ l.started \in BOOLEAN
      <3>1. l.sid \in Sids \cup {NoSid} /\ l.started \in BOOLEAN
        BY DEF Lines
      <3> QED BY <2>2, <3>1, Zenon
    <2>6. PICK u : u = UpdateStatus(l, status, s)
      OBVIOUS
    <2>7. u \in Lines /\ u.status = status /\ u.started = l.started /\ u.sid = sid
      BY <2>3, <2>4, <2>5, <2>6 DEF Lines
    <2>8. Rank[status] > Rank[l.status] /\ (s # NoSid => l.sid \in {NoSid, s})
      BY <1>2, <2>1
    <2> QED BY <2>2, <2>6, <2>7, <2>8
  <1> QED BY <1>1, <1>2

\* A report of a text, or of a failure, is written.
LEMMA Reports ==
    ASSUME NEW m \in Messages, line[m] \in Lines, LineOK(m), submit[m] # "new",
           NEW status \in Statuses, NEW s \in Sids \cup {NoSid},
           line'[m] = UpdateStatus(line[m], status, s),
           \/ s = NoSid /\ status = "failed"
           \/ Relates(s, m) /\ Known(s, status)
    PROVE  RowStep(m)
  <1>1. PICK l \in Lines : l = line[m]
    OBVIOUS
  <1>2. PICK u : u = UpdateStatus(l, status, s)
    OBVIOUS
  <1>3. /\ u \in Lines /\ u.started = l.started
        /\ \/ u = l
           \/ /\ Rank[status] > Rank[l.status] /\ u.status = status
              /\ s # NoSid => u.sid = s /\ l.sid \in {NoSid, s}
              /\ s = NoSid => u.sid = l.sid
    BY <1>2, UpdateStatusIs
  <1>4. line'[m] = u
    BY <1>1, <1>2
  <1>5. CASE u = l
    BY <1>1, <1>4, <1>5, StillThere
  <1>6. CASE u # l
    <2>1. Rank[status] \in Nat /\ Rank[l.status] \in Nat /\ Rank[status] > Rank[l.status]
      BY <1>3, <1>6, RankIs DEF Lines
    <2>2. l.status \notin Final
      BY <2>1, RankIs DEF Final, Lines
    <2>3. status \notin {"none", "queued"}
      BY <2>1, RankIs
    <2>4. s # NoSid => status \in Reported(s) /\ u.sid = s
      BY <1>3, <1>6, <2>3 DEF Known, NoSid
    <2>5. s = NoSid => status \notin Shown /\ u.sid = l.sid
      BY <1>3, <1>6 DEF Relates, Sent, Sids, NoSid, Shown
    <2> QED BY <1>1, <1>3, <1>4, <1>6, <2>1, <2>2, <2>3, <2>4, <2>5 DEF RowStep
  <1> QED BY <1>5, <1>6

LEMMA Attaches ==
    ASSUME NEW m \in Messages, line[m] \in Lines, LineOK(m), NEW s, Relates(s, m),
           line'[m] = AttachProviderSid(line[m], s)
    PROVE  RowStep(m)
  <1>1. PICK l \in Lines : l = line[m]
    OBVIOUS
  <1>2. s \in Sids /\ s # NoSid
    BY DEF Relates, Sent, Sids, NoSid
  <1>3. CASE l.sid = NoSid
    <2>1. line'[m] = [l EXCEPT !.sid = s]
      BY <1>1, <1>3 DEF AttachProviderSid
    <2>2. [l EXCEPT !.sid = s] = [status |-> l.status, started |-> l.started, sid |-> s]
      BY DEF Lines
    <2>3. Rank[l.status] \in Nat
      BY RankIs DEF Lines
    <2>4. submit[m] # "new"
      BY DEF Relates
    <2> QED BY <1>1, <1>2, <1>3, <2>1, <2>2, <2>3, <2>4 DEF RowStep, Lines
  <1>4. CASE l.sid # NoSid
    <2>1. line'[m] = l
      <3>1. CASE l.sid = s
        <4>1. [l EXCEPT !.sid = s] = l
          BY <3>1 DEF Lines
        <4> QED BY <1>1, <1>4, <3>1, <4>1 DEF AttachProviderSid
      <3>2. CASE l.sid # s
        BY <1>1, <1>4, <3>2 DEF AttachProviderSid
      <3> QED BY <3>1, <3>2
    <2> QED BY <1>1, <2>1, StillThere
  <1> QED BY <1>3, <1>4

LEMMA InHandIs ==
    ASSUME OInv, NEW w \in Workers, worker[w].at # "idle"
    PROVE  /\ worker[w] \in Instances /\ HandOK(worker[w])
           /\ Current(w) = First(worker[w].batch)
           /\ Current(w) \in DOMAIN worker[w].batch /\ Current(w) \in Messages
           /\ submit[Current(w)] # "new" /\ LineOK(Current(w)) /\ line[Current(w)] \in Lines
  <1>1. worker[w] \in Instances /\ HandOK(worker[w])
    BY DEF OInv, TypesOK, HandsOK
  <1>2. worker[w].batch \in Batches /\ DOMAIN worker[w].batch # {}
    BY <1>1 DEF Instances, HandOK
  <1>3. Current(w) = First(worker[w].batch)
    BY DEF Current, First
  <1>4. Current(w) \in DOMAIN worker[w].batch /\ Current(w) \in Messages
    BY <1>2, <1>3, FirstIs
  <1> QED BY <1>1, <1>3, <1>4 DEF HandOK, OInv, TypesOK

LEMMA OneRow ==
    ASSUME OInv, NEW n \in Messages, NEW l, line' = [line EXCEPT ![n] = l],
           line'[n] = l => RowStep(n)
    PROVE  LinesMove
  <1>1. line \in [Messages -> Lines] /\ line'[n] = l /\ \A m \in Messages \ {n} : line'[m] = line[m]
    BY DEF OInv, TypesOK
  <1> QED BY <1>1, StillThere DEF LinesMove, RowStep

LEMMA NoRow ==
    ASSUME OInv, UNCHANGED line
    PROVE  LinesMove
  BY StillThere DEF OInv, TypesOK, LinesMove

\* Every step only moves the lines on.
LEMMA RowsMove ==
    ASSUME OInv, [Next]_vars
    PROVE  LinesMove
  <1>1. ASSUME NEW n \in Messages, AppendOutbound(n) PROVE LinesMove
    <2>1. line[n] = NoWriting
      BY <1>1 DEF OInv, LineOK, AppendOutbound
    <2>2. [NoWriting EXCEPT !.status = "queued"] = [status |-> "queued", started |-> FALSE, sid |-> NoSid]
      <3>1. NoWriting \in Lines /\ NoWriting.started = FALSE /\ NoWriting.sid = NoSid
        BY RankIs DEF NoWriting, Lines
      <3> QED BY <3>1, StatusEdit, Zenon
    <2>3. line' = [line EXCEPT ![n] = [line[n] EXCEPT !.status = "queued"]]
      BY <1>1 DEF AppendOutbound
    <2>4. line' = [line EXCEPT ![n] = [status |-> "queued", started |-> FALSE, sid |-> NoSid]]
      BY <2>1, <2>2, <2>3
    <2>5. submit'[n] # "new"
      BY <1>1 DEF AppendOutbound, OInv, TypesOK
    <2>6. ASSUME line'[n] = [status |-> "queued", started |-> FALSE, sid |-> NoSid] PROVE RowStep(n)
      BY <2>1, <2>6, <2>5, RankIs DEF NoWriting, RowStep, Lines, Final, Shown
    <2> QED BY <2>4, <2>6, OneRow
  <1>2. ASSUME NEW n \in Messages, MarkEnqueueFailed(n) PROVE LinesMove
    <2>1. line' = [line EXCEPT ![n] = UpdateStatus(line[n], "failed", NoSid)]
      BY <1>2 DEF MarkEnqueueFailed
    <2>2. submit[n] # "new" /\ LineOK(n) /\ line[n] \in Lines /\ "failed" \in Statuses
      BY <1>2, RankIs DEF MarkEnqueueFailed, OInv, TypesOK
    <2> QED BY <2>1, <2>2, OneRow, Reports
  <1>3. ASSUME NEW w \in Workers, Claim(w) PROVE LinesMove
    <2>1. PICK n \in Messages : n = Current(w) /\ line[n] \in Lines /\ submit[n] # "new"
      BY <1>3, InHandIs DEF Claim, At
    <2>2. line[n].status = "queued" /\ line[n].sid = NoSid
      BY <1>3, <2>1 DEF Claim, Claimable
    <2>3. line' = [line EXCEPT ![n] = [line[n] EXCEPT !.status = "sending", !.started = TRUE]]
      BY <1>3, <2>1 DEF Claim
    <2>4. [line[n] EXCEPT !.status = "sending", !.started = TRUE]
            = [status |-> "sending", started |-> TRUE, sid |-> NoSid]
      <3>1. [line[n] EXCEPT !.status = "sending", !.started = TRUE]
              = [status |-> "sending", started |-> TRUE, sid |-> line[n].sid]
        BY <2>1, StartedEdit, Zenon
      <3> QED BY <2>2, <3>1
    <2>5. submit[n] # "new"
      BY <2>1
    <2>6. ASSUME line'[n] = [status |-> "sending", started |-> TRUE, sid |-> NoSid] PROVE RowStep(n)
      BY <2>2, <2>6, <2>5, RankIs DEF RowStep, Lines, Final, Shown
    <2> QED BY <2>3, <2>4, <2>6, OneRow
  <1>4. ASSUME NEW w \in Workers, MarkFailed(w) PROVE LinesMove
    <2>1. PICK n \in Messages : n = Current(w) /\ line[n] \in Lines /\ LineOK(n) /\ submit[n] # "new"
      BY <1>4, InHandIs DEF MarkFailed, At
    <2>2. line' = [line EXCEPT ![n] = UpdateStatus(line[n], "failed", NoSid)] /\ "failed" \in Statuses
      BY <1>4, <2>1, RankIs DEF MarkFailed
    <2> QED BY <2>1, <2>2, OneRow, Reports
  <1>5. ASSUME NEW w \in Workers, Attach(w) PROVE LinesMove
    <2>1. PICK n \in Messages : n = Current(w) /\ line[n] \in Lines /\ LineOK(n)
                                /\ Relates(worker[w].sid, n)
      BY <1>5, InHandIs DEF Attach, At, HandOK
    <2>2. line' = [line EXCEPT ![n] = AttachProviderSid(line[n], worker[w].sid)]
      BY <1>5, <2>1 DEF Attach
    <2> QED BY <2>1, <2>2, OneRow, Attaches
  <1>6. ASSUME NEW w \in Workers, ApplyStatus(w) PROVE LinesMove
    <2>1. PICK n \in Messages : n = Current(w) /\ line[n] \in Lines /\ LineOK(n) /\ submit[n] # "new"
                                /\ Relates(worker[w].sid, n) /\ Known(worker[w].sid, worker[w].status)
      BY <1>6, InHandIs DEF ApplyStatus, At, HandOK
    <2>2. line' = [line EXCEPT ![n] = UpdateStatus(line[n], worker[w].status, worker[w].sid)]
      BY <1>6, <2>1 DEF ApplyStatus
    <2>3. worker[w].status \in Statuses /\ worker[w].sid \in Sids \cup {NoSid}
      BY <1>6, InHandIs DEF ApplyStatus, At, Instances
    <2> QED BY <2>1, <2>2, <2>3, OneRow, Reports
  <1>7. ASSUME NEW n \in Messages, NEW s \in Sids, NEW status \in Reported(s), Relates(s, n),
               Hears(n, s, status)
        PROVE  LinesMove
    <2>1. line' = [line EXCEPT ![n] = UpdateStatus(line[n], status, s)]
      BY <1>7 DEF Hears
    <2>2. submit[n] # "new" /\ LineOK(n) /\ line[n] \in Lines /\ Known(s, status)
      BY <1>7 DEF Relates, Known, OInv, TypesOK
    <2>3. status \in Statuses
      BY <1>7, RankIs DEF Reported, OInv, TypesOK
    <2> QED BY <1>7, <2>1, <2>2, <2>3, OneRow, Reports
  <1>8. ASSUME NEW s \in Sids, StatusCallback(s) PROVE LinesMove
    <2>1. PICK status \in Reported(s) \ {"none"} : Hears(origin[s], s, status)
      BY <1>8 DEF StatusCallback
    <2>2. record[s] # "none"
      BY <2>1 DEF Reported
    <2>3. Relates(s, origin[s]) /\ origin[s] \in Messages
      BY <2>2 DEF Relates, Sent, OInv, LogOK
    <2> QED BY <1>7, <2>1, <2>3
  <1>9. ASSUME NEW s \in Sids, SyncKnown(s) PROVE LinesMove
    <2>1. pointer[s] \in Messages /\ Relates(s, pointer[s])
      BY <1>9 DEF SyncKnown, OInv, PointersOK
    <2>2. PICK status \in Reported(s) : Hears(pointer[s], s, status)
      BY <1>9 DEF SyncKnown
    <2> QED BY <1>7, <2>1, <2>2
  <1>10. CASE AdoptStatus
    <2>1. Relates(recon.sid, recon.line)
      BY <1>10 DEF AdoptStatus, OInv, ReconOK
    <2>2. PICK status \in Reported(recon.sid) :
            line' = [line EXCEPT ![recon.line] = UpdateStatus(line[recon.line], status, recon.sid)]
      BY <1>10 DEF AdoptStatus
    <2>3. recon.line \in Messages /\ recon.sid \in Sids /\ Known(recon.sid, status)
          /\ submit[recon.line] # "new" /\ LineOK(recon.line) /\ line[recon.line] \in Lines
      BY <2>1 DEF Relates, Known, Sent, OInv, TypesOK
    <2>4. status \in Statuses
      BY <2>2, <2>3, RankIs DEF Reported, OInv, TypesOK
    <2> QED BY <2>1, <2>2, <2>3, <2>4, OneRow, Reports
  <1>11. ASSUME NEW n \in Messages, Enqueue(n) \/ EnqueueFails(n) \/ AcceptDies(n) \/ Expire(n)
         PROVE  LinesMove
    BY <1>11, NoRow DEF Enqueue, EnqueueFails, AcceptDies, Expire, store
  <1>12. ASSUME NEW w \in Workers,
                \/ Receive(w) \/ Get(w) \/ Repoint(w) \/ ClaimLost(w) \/ ListFinds(w) \/ ListFindsNothing(w)
                \/ Create(w) \/ CreateRefused(w) \/ Point(w) \/ Delete(w) \/ ListFails(w)
                \/ CreateUnanswered(w) \/ Throw(w) \/ Crash(w)
         PROVE  LinesMove
    BY <1>12, NoRow DEF Receive, Get, Repoint, ClaimLost, ListFinds, ListFindsNothing, Create,
       CreateRefused, Point, Delete, ListFails, CreateUnanswered, Throw, Crash, store
  <1>13. ASSUME NEW s \in Sids, Progress(s) \/ Adopt(s) \/ Insert(s) PROVE LinesMove
    BY <1>13, NoRow DEF Progress, Adopt, Insert, Unpointed, store
  <1>14. CASE AdoptPointer \/ ReconcileDies \/ UNCHANGED vars
    BY <1>14, NoRow DEF AdoptPointer, ReconcileDies, vars, store
  <1> QED BY <1>1, <1>2, <1>3, <1>4, <1>5, <1>6, <1>8, <1>9, <1>10, <1>11, <1>12, <1>13, <1>14
          DEF Next, Accepting, Working, Process, Reporting, Reconcile

---------------------------------------------------------------------------
(* The queue. *)

QueueOK(m) ==
    /\ submit[m] \in {"new", "stored"} => job[m] = "none" /\ receives[m] = 0
    /\ job[m] = "visible" => receives[m] < MaxReceives

QueueTypes ==
    /\ submit \in [Messages -> {"new", "stored", "failing", "accepted", "refused", "died"}]
    /\ job \in [Messages -> {"none", "visible", "in flight", "deleted", "dead"}]
    /\ receives \in [Messages -> 0 .. MaxReceives]

DeletedBy(m) == \E w \in Workers : Delete(w) /\ m = Current(w)

QueueStep(m) ==
    /\ submit[m] # "new" => submit'[m] # "new"
    /\ submit[m] = "new" /\ submit'[m] # "new" => line'[m].status # "none"
    /\ QueueOK(m)'
    /\ job'[m] = "deleted" => job[m] = "deleted" \/ DeletedBy(m)

LEMMA QueueMoves ==
    ASSUME OInv, [Next]_vars
    PROVE  QueueTypes' /\ \A m \in Messages : QueueStep(m)
  <1>0. QueueTypes /\ (\A m \in Messages : QueueOK(m)) /\ MaxReceives \in Nat /\ MaxReceives > 0
        /\ line \in [Messages -> Lines]
    <2>1. QueueTypes /\ line \in [Messages -> Lines]
      BY DEF OInv, TypesOK, QueueTypes
    <2>2. \A m \in Messages : QueueOK(m)
      BY DEF OInv, QueueOK, LineOK
    <2> QED BY <2>1, <2>2, LimitsAssumption
  <1>1. ASSUME NEW n \in Messages, AppendOutbound(n) PROVE QueueTypes' /\ \A m \in Messages : QueueStep(m)
    <2>1. line'[n].status # "none"
      <3>1. line[n] = NoWriting /\ line' = [line EXCEPT ![n] = [line[n] EXCEPT !.status = "queued"]]
        BY <1>1 DEF AppendOutbound, OInv, LineOK
      <3>2. [NoWriting EXCEPT !.status = "queued"].status = "queued"
        BY DEF NoWriting
      <3> QED BY <1>0, <3>1, <3>2
    <2> QED BY <1>0, <1>1, <2>1 DEF AppendOutbound, QueueTypes, QueueStep, QueueOK, queue
  <1>2. ASSUME NEW n \in Messages,
               Enqueue(n) \/ EnqueueFails(n) \/ MarkEnqueueFailed(n) \/ AcceptDies(n) \/ Expire(n)
        PROVE  QueueTypes' /\ \A m \in Messages : QueueStep(m)
    <2>1. CASE Enqueue(n) \/ EnqueueFails(n)
      <3>1. PICK j \in {"none", "visible"}, a \in {"accepted", "failing"} :
              /\ submit' = [submit EXCEPT ![n] = a] /\ job' = [job EXCEPT ![n] = j]
              /\ submit[n] = "stored" /\ receives' = receives
        BY <2>1 DEF Enqueue, EnqueueFails, queue
      <3> QED BY <1>0, <3>1 DEF QueueTypes, QueueStep, QueueOK
    <2>2. CASE MarkEnqueueFailed(n) \/ AcceptDies(n)
      <3>1. PICK a \in {"refused", "died"} :
              /\ submit' = [submit EXCEPT ![n] = a] /\ submit[n] # "new"
              /\ job' = job /\ receives' = receives
        BY <2>2 DEF MarkEnqueueFailed, AcceptDies, queue
      <3> QED BY <1>0, <3>1 DEF QueueTypes, QueueStep, QueueOK
    <2>3. CASE Expire(n)
      <3>1. PICK j \in {"dead", "visible"} :
              /\ job' = [job EXCEPT ![n] = j] /\ job[n] = "in flight"
              /\ j = "visible" => receives[n] < MaxReceives
              /\ submit' = submit /\ receives' = receives
        BY <2>3 DEF Expire
      <3> QED BY <1>0, <3>1 DEF QueueTypes, QueueStep, QueueOK
    <2> QED BY <1>2, <2>1, <2>2, <2>3
  <1>3. ASSUME NEW w \in Workers, Receive(w) PROVE QueueTypes' /\ \A m \in Messages : QueueStep(m)
    <2>1. PICK batch \in SUBSET Messages :
            /\ \A m \in batch : job[m] = "visible"
            /\ job' = [m \in Messages |-> IF m \in batch THEN "in flight" ELSE job[m]]
            /\ receives' = [m \in Messages |-> IF m \in batch THEN receives[m] + 1 ELSE receives[m]]
      BY <1>3 DEF Receive
    <2>2. submit' = submit
      BY <1>3 DEF Receive
    <2>3. \A m \in Messages :
            /\ m \in batch => receives[m] < MaxReceives /\ job'[m] = "in flight" /\ receives'[m] = receives[m] + 1
                               /\ submit[m] \notin {"new", "stored"}
            /\ m \notin batch => job'[m] = job[m] /\ receives'[m] = receives[m]
      BY <1>0, <2>1 DEF QueueOK
    <2>4. QueueTypes'
      <3>1. receives \in [Messages -> 0 .. MaxReceives]
        BY <1>0 DEF QueueTypes
      <3>2. \A m \in batch : receives[m] + 1 \in 0 .. MaxReceives
        <4>1. TAKE m \in batch
        <4>2. receives[m] < MaxReceives /\ MaxReceives \in Nat
          BY <1>0, <2>3
        <4> QED BY <3>1, <4>2
      <3>3. receives' \in [Messages -> 0 .. MaxReceives]
        BY <2>1, <3>1, <3>2
      <3>4. job' \in [Messages -> {"none", "visible", "in flight", "deleted", "dead"}]
        BY <1>0, <2>1 DEF QueueTypes
      <3> QED BY <1>0, <2>2, <3>3, <3>4 DEF QueueTypes
    <2>5. \A m \in Messages : QueueStep(m)
      BY <1>0, <2>2, <2>3 DEF QueueStep, QueueOK
    <2> QED BY <2>4, <2>5
  <1>4. ASSUME NEW w \in Workers, Delete(w) PROVE QueueTypes' /\ \A m \in Messages : QueueStep(m)
    <2>1. PICK n \in Messages : n = Current(w)
      BY <1>4, InHandIs DEF Delete, At
    <2>2. job' = job \/ (job[n] = "in flight" /\ job' = [job EXCEPT ![n] = "deleted"])
      BY <1>4, <2>1 DEF Delete
    <2>3. submit' = submit /\ receives' = receives
      BY <1>4 DEF Delete
    <2>4. QueueTypes' /\ \A m \in Messages : QueueOK(m)'
      BY <1>0, <2>2, <2>3 DEF QueueTypes, QueueOK
    <2>5. \A m \in Messages : job'[m] = "deleted" => job[m] = "deleted" \/ m = n
      BY <1>0, <2>1, <2>2 DEF QueueTypes
    <2>6. DeletedBy(n)
      BY <1>4, <2>1 DEF DeletedBy
    <2> QED BY <2>3, <2>4, <2>5, <2>6 DEF QueueStep
  <1>5. ASSUME UNCHANGED <<submit, job, receives>> PROVE QueueTypes' /\ \A m \in Messages : QueueStep(m)
    BY <1>0, <1>5 DEF QueueTypes, QueueStep, QueueOK
  <1>6. ASSUME NEW w \in Workers,
               \/ Get(w) \/ Repoint(w) \/ Claim(w) \/ ClaimLost(w) \/ ListFinds(w) \/ ListFindsNothing(w)
               \/ Create(w) \/ CreateRefused(w) \/ MarkFailed(w) \/ Point(w) \/ Attach(w) \/ ApplyStatus(w)
               \/ ListFails(w) \/ CreateUnanswered(w) \/ Throw(w) \/ Crash(w)
        PROVE  QueueTypes' /\ \A m \in Messages : QueueStep(m)
    BY <1>5, <1>6 DEF Get, Repoint, Claim, ClaimLost, ListFinds, ListFindsNothing, Create, CreateRefused,
       MarkFailed, Point, Attach, ApplyStatus, ListFails, CreateUnanswered, Throw, Crash, queue
  <1>7. ASSUME NEW s \in Sids, Progress(s) \/ StatusCallback(s) \/ Reconcile(s)
        PROVE  QueueTypes' /\ \A m \in Messages : QueueStep(m)
    BY <1>5, <1>7 DEF Progress, StatusCallback, Reconcile, SyncKnown, Hears, Adopt, Insert, Unpointed, queue
  <1>8. CASE AdoptStatus \/ AdoptPointer \/ ReconcileDies \/ UNCHANGED vars
    BY <1>5, <1>8 DEF AdoptStatus, AdoptPointer, ReconcileDies, vars, queue
  <1> QED BY <1>1, <1>2, <1>3, <1>4, <1>6, <1>7, <1>8
          DEF Next, Accepting, Working, Process, Reporting

---------------------------------------------------------------------------
(* Twilio's log. *)

LogTypes ==
    /\ record \in [Sids -> {"none", "queued", "sent", "delivered", "undelivered"}]
    /\ origin \in [Sids -> Messages \cup {NoLine}]
    /\ since \in [Messages -> 0 .. MaxSends]

\* The log only grows, and a text that was reported so may still be.
LogStep ==
    /\ \A s \in Sent : s \in Sent' /\ origin'[s] = origin[s]
    /\ \A s \in Sent : \A status \in Reported(s) : status = "queued" \/ status \in Reported(s)'
    /\ \A m \in Messages : line[m].started => since'[m] = since[m]
    /\ LogOK'

LEMMA LogSame ==
    ASSUME OInv, [Next]_vars, UNCHANGED <<record, origin>>, since' \in [Messages -> 0 .. MaxSends],
           \A m \in Messages : since'[m] = since[m] \/ (~line[m].started /\ since'[m] = Newest)
    PROVE  LogTypes' /\ LogStep
  <1>1. Sent' = Sent /\ Newest' = Newest
    <2>1. Sent' = Sent
      BY DEF Sent
    <2> QED BY <2>1 DEF Newest
  <1>2. \A s \in Sids : Reported(s)' = Reported(s)
    BY DEF Reported
  <1>3. LogOK
    BY DEF OInv
  <1>4. \A m \in Messages : /\ submit[m] # "new" => submit'[m] # "new"
                            /\ line[m].started => line'[m].started /\ since'[m] = since[m]
    BY QueueMoves, RowsMove DEF LinesMove, RowStep, QueueStep
  <1>5. \A s \in Sent : s \in Sids
    BY DEF Sent
  <1>6. LogOK'
    <2>1. Newest \in 0 .. MaxSends /\ Sent = 1 .. Newest
      BY <1>3 DEF LogOK
    <2>2. \A s \in Sent : /\ origin[s] \in Messages /\ submit'[origin[s]] # "new"
                          /\ line'[origin[s]].started /\ since'[origin[s]] < s
      BY <1>3, <1>4 DEF LogOK
    <2>3. \A m \in Messages : since'[m] <= Newest
      BY <1>3, <2>1 DEF LogOK
    <2> QED BY <1>1, <2>1, <2>2, <2>3 DEF LogOK
  <1>7. LogTypes'
    BY DEF LogTypes, OInv, TypesOK
  <1> QED BY <1>1, <1>2, <1>4, <1>5, <1>6, <1>7 DEF LogStep

\* Twilio takes one more text of a line that was claimed.
LEMMA LogGrows ==
    ASSUME OInv, [Next]_vars, NEW m \in Messages, TwilioTakes(m), since' = since,
           submit[m] # "new", line[m].started
    PROVE  /\ LogTypes' /\ LogStep
           /\ Newest + 1 \in Sids /\ Sent' = Sent \cup {Newest + 1} /\ origin'[Newest + 1] = m
           /\ Newest + 1 \notin Sent
  <1>1. PICK n \in Nat : n = Newest /\ n < MaxSends
    BY LimitsAssumption DEF OInv, LogOK, TwilioTakes
  <1>2. MaxSends \in Nat /\ Sent = 1 .. n /\ Sids = 1 .. MaxSends
    BY <1>1, LimitsAssumption DEF OInv, LogOK, Sids
  <1>3. /\ record \in [Sids -> {"none", "queued", "sent", "delivered", "undelivered"}]
        /\ origin \in [Sids -> Messages \cup {NoLine}] /\ since \in [Messages -> 0 .. MaxSends]
    BY DEF OInv, TypesOK
  <1>4. record' = [record EXCEPT ![n + 1] = "queued"] /\ origin' = [origin EXCEPT ![n + 1] = m]
    BY <1>1 DEF TwilioTakes
  <1>5. n + 1 \in Sids /\ n + 1 \notin Sent
    BY <1>1, <1>2
  <1>6. /\ record'[n + 1] = "queued" /\ origin'[n + 1] = m
        /\ \A s \in Sids : s # n + 1 => record'[s] = record[s] /\ origin'[s] = origin[s]
    BY <1>3, <1>4, <1>5
  <1>7. Sent' = Sent \cup {n + 1} /\ Sent' = 1 .. n + 1
    <2>1. Sent' = Sent \cup {n + 1}
      BY <1>5, <1>6 DEF Sent
    <2>2. (1 .. n) \cup {n + 1} = 1 .. n + 1
      BY <1>1
    <2> QED BY <1>2, <2>1, <2>2
  <1>8. Newest' = n + 1
    <2>1. Cardinality(1 .. n + 1) = n + 1
      BY <1>1, FS_Interval
    <2>2. Newest' = Cardinality(1 .. n + 1)
      BY <1>7 DEF Newest
    <2> QED BY <2>1, <2>2
  <1>9. LogTypes'
    <2>1. since' \in [Messages -> 0 .. MaxSends]
      BY <1>3
    <2>2. origin' \in [Sids -> Messages \cup {NoLine}]
      BY <1>3, <1>4
    <2>3. record' \in [Sids -> {"none", "queued", "sent", "delivered", "undelivered"}]
      BY <1>3, <1>4
    <2> QED BY <2>1, <2>2, <2>3 DEF LogTypes
  <1>10. \A x \in Messages : /\ submit[x] # "new" => submit'[x] # "new"
                             /\ line[x].started => line'[x].started
    BY QueueMoves, RowsMove DEF LinesMove, RowStep, QueueStep
  <1>11. \A x \in Messages : since'[x] = since[x] /\ since[x] \in Nat /\ since[x] <= n
    <2>1. \A x \in Messages : since[x] <= Newest
      BY DEF OInv, LogOK
    <2> QED BY <1>1, <1>3, <2>1
  <1>12. LogOK'
    <2>1. \A s \in Sent : /\ origin[s] \in Messages /\ submit[origin[s]] # "new"
                          /\ line[origin[s]].started /\ since[origin[s]] < s
      BY DEF OInv, LogOK
    <2>2. \A s \in Sent : s \in Sids /\ s # n + 1
      BY <1>5 DEF Sent
    <2>3. \A s \in Sent' : /\ origin'[s] \in Messages /\ submit'[origin'[s]] # "new"
                           /\ line'[origin'[s]].started /\ since'[origin'[s]] < s
      <3>1. TAKE s \in Sent'
      <3>2. CASE s = n + 1
        BY <1>1, <1>6, <1>10, <1>11, <3>2
      <3>3. CASE s # n + 1
        <4>1. s \in Sent /\ origin'[s] = origin[s]
          BY <1>6, <1>7, <2>2, <3>1, <3>3
        <4> QED BY <1>10, <1>11, <2>1, <4>1
      <3> QED BY <3>2, <3>3
    <2>4. Newest' \in 0 .. MaxSends /\ Sent' = 1 .. Newest'
      BY <1>1, <1>2, <1>7, <1>8
    <2>5. \A x \in Messages : since'[x] <= Newest'
      BY <1>1, <1>8, <1>11
    <2> QED BY <2>3, <2>4, <2>5 DEF LogOK
  <1>13. \A s \in Sent : s \in Sids /\ record'[s] = record[s] /\ Reported(s)' = Reported(s)
    BY <1>5, <1>6 DEF Sent, Reported
  <1> QED BY <1>1, <1>5, <1>6, <1>7, <1>9, <1>11, <1>12, <1>13 DEF LogStep

LEMMA LogProgresses ==
    ASSUME OInv, [Next]_vars, NEW s \in Sids, Progress(s)
    PROVE  LogTypes' /\ LogStep
  <1>1. PICK state \in {"sent", "delivered", "undelivered"} :
          /\ record' = [record EXCEPT ![s] = state]
          /\ (record[s] = "queued" /\ state = "sent") \/ (record[s] = "sent" /\ state # "sent")
    <2>1. CASE record[s] = "queued" /\ record' = [record EXCEPT ![s] = "sent"]
      BY <2>1
    <2>2. CASE record[s] = "sent" /\ \E state \in Endings : record' = [record EXCEPT ![s] = state]
      <3>1. PICK state \in {"delivered", "undelivered"} : record' = [record EXCEPT ![s] = state]
        BY <2>2, EndingsAssumption
      <3>2. state \in {"sent", "delivered", "undelivered"} /\ state # "sent"
        BY <3>1
      <3> QED BY <2>2, <3>1, <3>2, Zenon
    <2> QED BY <2>1, <2>2 DEF Progress
  <1>2. UNCHANGED <<origin, since>>
    BY DEF Progress, history
  <1>3. /\ record \in [Sids -> {"none", "queued", "sent", "delivered", "undelivered"}]
        /\ origin \in [Sids -> Messages \cup {NoLine}] /\ since \in [Messages -> 0 .. MaxSends]
    BY DEF OInv, TypesOK
  <1>4. record'[s] = state /\ \A r \in Sids : r # s => record'[r] = record[r]
    BY <1>1, <1>3
  <1>5. Sent' = Sent
    BY <1>1, <1>4 DEF Sent
  <1>6. Newest' = Newest
    BY <1>5 DEF Newest
  <1>7. LogTypes'
    BY <1>1, <1>2, <1>3 DEF LogTypes
  <1>8. \A r \in Sent : \A status \in Reported(r) : status = "queued" \/ status \in Reported(r)'
    BY <1>1, <1>4 DEF Sent, Reported
  <1>9. \A x \in Messages : /\ submit[x] # "new" => submit'[x] # "new"
                            /\ line[x].started => line'[x].started
    BY QueueMoves, RowsMove DEF LinesMove, RowStep, QueueStep
  <1>10. LogOK'
    <2>1. LogOK
      BY DEF OInv
    <2> QED BY <1>2, <1>5, <1>6, <1>9, <2>1 DEF LogOK
  <1> QED BY <1>2, <1>5, <1>7, <1>8, <1>10 DEF LogStep

LEMMA LogMoves ==
    ASSUME OInv, [Next]_vars
    PROVE  LogTypes' /\ LogStep
  <1>0. since \in [Messages -> 0 .. MaxSends]
    BY DEF OInv, TypesOK
  <1>1. ASSUME UNCHANGED <<record, origin, since>> PROVE LogTypes' /\ LogStep
    BY <1>0, <1>1, LogSame
  <1>2. ASSUME NEW w \in Workers, Create(w) PROVE LogTypes' /\ LogStep
    <2>1. PICK m \in Messages : m = Current(w) /\ submit[m] # "new" /\ line[m].started
      BY <1>2, InHandIs DEF Create, At, HandOK
    <2>2. TwilioTakes(Current(w)) /\ UNCHANGED history
      BY <1>2, Zenon DEF Create
    <2>3. TwilioTakes(m) /\ since' = since
      BY <2>1, <2>2 DEF history
    <2> QED BY <2>1, <2>3, LogGrows
  <1>3. ASSUME NEW w \in Workers, CreateUnanswered(w) PROVE LogTypes' /\ LogStep
    <2>1. PICK m \in Messages : m = Current(w) /\ submit[m] # "new" /\ line[m].started
      BY <1>3, InHandIs DEF CreateUnanswered, At, HandOK
    <2> QED BY <1>3, <2>1, LogGrows DEF CreateUnanswered, history
  <1>4. ASSUME NEW w \in Workers, Claim(w) PROVE LogTypes' /\ LogStep
    <2>1. PICK m \in Messages : m = Current(w)
      BY <1>4, InHandIs DEF Claim, At
    <2>2. since' = [since EXCEPT ![m] = Newest] /\ ~line[m].started /\ UNCHANGED <<record, origin>>
      BY <1>4, <2>1 DEF Claim, Claimable, twilio
    <2>3. Newest \in 0 .. MaxSends
      BY DEF OInv, LogOK
    <2>4. since' \in [Messages -> 0 .. MaxSends]
      BY <1>0, <2>2, <2>3
    <2>5. \A n \in Messages : since'[n] = since[n] \/ (~line[n].started /\ since'[n] = Newest)
      BY <1>0, <2>2
    <2> QED BY <2>2, <2>4, <2>5, LogSame
  <1>5. ASSUME NEW s \in Sids, Progress(s) PROVE LogTypes' /\ LogStep
    BY <1>5, LogProgresses
  <1>6. ASSUME NEW n \in Messages,
               \/ AppendOutbound(n) \/ Enqueue(n) \/ EnqueueFails(n) \/ MarkEnqueueFailed(n)
               \/ AcceptDies(n) \/ Expire(n)
        PROVE  LogTypes' /\ LogStep
    BY <1>1, <1>6 DEF AppendOutbound, Enqueue, EnqueueFails, MarkEnqueueFailed, AcceptDies, Expire,
       twilio, history
  <1>7. ASSUME NEW w \in Workers,
               \/ Receive(w) \/ Get(w) \/ Repoint(w) \/ ClaimLost(w) \/ ListFinds(w) \/ ListFindsNothing(w)
               \/ CreateRefused(w) \/ MarkFailed(w) \/ Point(w) \/ Attach(w) \/ ApplyStatus(w) \/ Delete(w)
               \/ ListFails(w) \/ Throw(w) \/ Crash(w)
        PROVE  LogTypes' /\ LogStep
    BY <1>1, <1>7 DEF Receive, Get, Repoint, ClaimLost, ListFinds, ListFindsNothing, CreateRefused,
       MarkFailed, Point, Attach, ApplyStatus, Delete, ListFails, Throw, Crash, twilio, history
  <1>8. ASSUME NEW s \in Sids, StatusCallback(s) \/ Reconcile(s) PROVE LogTypes' /\ LogStep
    BY <1>1, <1>8 DEF StatusCallback, Reconcile, SyncKnown, Hears, Adopt, Insert, Unpointed, twilio, history
  <1>9. CASE AdoptStatus \/ AdoptPointer \/ ReconcileDies \/ UNCHANGED vars
    BY <1>1, <1>9 DEF AdoptStatus, AdoptPointer, ReconcileDies, vars, twilio, history
  <1> QED BY <1>2, <1>3, <1>4, <1>5, <1>6, <1>7, <1>8, <1>9
          DEF Next, Accepting, Working, Process, Reporting

---------------------------------------------------------------------------
(* What stays true of a text, of a job and in a hand. *)

LEMMA HistoryGrows ==
    ASSUME [Next]_vars
    PROVE  text' = text /\ blind \subseteq blind' /\ together \subseteq together' /\ dropped \subseteq dropped'
  <1>1. ASSUME NEW n \in Messages,
               \/ AppendOutbound(n) \/ Enqueue(n) \/ EnqueueFails(n) \/ MarkEnqueueFailed(n)
               \/ AcceptDies(n) \/ Expire(n)
        PROVE  UNCHANGED <<text, blind, together, dropped>>
    BY <1>1, Zenon DEF AppendOutbound, Enqueue, EnqueueFails, MarkEnqueueFailed, AcceptDies, Expire, history
  <1>2. ASSUME NEW w \in Workers,
               \/ Receive(w) \/ Get(w) \/ Repoint(w) \/ Claim(w) \/ ListFinds(w)
               \/ Create(w) \/ CreateRefused(w) \/ MarkFailed(w) \/ Point(w) \/ Attach(w) \/ ApplyStatus(w)
               \/ Delete(w) \/ CreateUnanswered(w) \/ Throw(w) \/ Crash(w)
        PROVE  UNCHANGED <<text, blind, together, dropped>>
    BY <1>2, Zenon DEF Receive, Get, Repoint, Claim, ListFinds, Create, CreateRefused,
       MarkFailed, Point, Attach, ApplyStatus, Delete, CreateUnanswered, Throw, Crash, history
  <1>3. ASSUME NEW w \in Workers, ClaimLost(w) \/ ListFindsNothing(w) \/ ListFails(w)
        PROVE  text' = text /\ blind \subseteq blind' /\ together \subseteq together' /\ dropped \subseteq dropped'
    BY <1>3 DEF ClaimLost, ListFindsNothing, ListFails
  <1>4. ASSUME NEW s \in Sids, Progress(s) \/ StatusCallback(s) \/ Reconcile(s)
        PROVE  UNCHANGED <<text, blind, together, dropped>>
    BY <1>4, Zenon DEF Progress, StatusCallback, Reconcile, SyncKnown, Hears, Adopt, Insert, Unpointed, history
  <1>5. ASSUME AdoptStatus \/ AdoptPointer \/ ReconcileDies \/ UNCHANGED vars
        PROVE  UNCHANGED <<text, blind, together, dropped>>
    BY <1>5, Zenon DEF AdoptStatus, AdoptPointer, ReconcileDies, vars, history
  <1> QED BY <1>1, <1>2, <1>3, <1>4, <1>5
          DEF Next, Accepting, Working, Process, Reporting

LEMMA RelatesStays ==
    ASSUME OInv, [Next]_vars, NEW s, NEW m, Relates(s, m)
    PROVE  Relates(s, m)'
  <1>1. s \in Sent' /\ origin'[s] = origin[s]
    BY LogMoves DEF LogStep, Relates
  <1>2. submit'[m] # "new" /\ m \in Messages
    BY QueueMoves DEF QueueStep, Relates
  <1> QED BY <1>1, <1>2, HistoryGrows DEF Relates

LEMMA KnownStays ==
    ASSUME OInv, [Next]_vars, NEW s \in Sent, NEW status, Known(s, status)
    PROVE  Known(s, status)'
  BY LogMoves DEF LogStep, Known

LEMMA DoneStays ==
    ASSUME OInv, [Next]_vars, NEW m \in Messages, Done(m)
    PROVE  Done(m)'
  <1>1. CASE Twins(m) # {}
    <2>1. PICK n \in Messages \ {m} : text[n] = text[m] /\ submit[n] # "new"
      BY <1>1 DEF Twins
    <2>2. text'[n] = text'[m] /\ submit'[n] # "new"
      BY <2>1, QueueMoves, HistoryGrows DEF QueueStep
    <2> QED BY <2>2 DEF Done, Twins
  <1>2. CASE m \in dropped
    BY <1>2, HistoryGrows DEF Done
  <1>3. CASE SendsOf(m) # {}
    <2>1. PICK s \in Sent : origin[s] = m
      BY <1>3 DEF SendsOf
    <2>2. s \in Sent' /\ origin'[s] = m
      BY <2>1, LogMoves DEF LogStep
    <2> QED BY <2>2 DEF Done, SendsOf
  <1>4. CASE line[m].status = "failed"
    BY <1>4, RowsMove DEF LinesMove, RowStep, Final, Done
  <1> QED BY <1>1, <1>2, <1>3, <1>4 DEF Done

\* Who has a text of the log for a line has not lost the line's own.
LEMMA RelatesDone ==
    ASSUME OInv, NEW s, NEW m, Relates(s, m)
    PROVE  Done(m)
  <1>1. s \in Sent /\ origin[s] \in Messages /\ submit[origin[s]] # "new" /\ text[origin[s]] = text[m]
    BY DEF Relates, OInv, LogOK
  <1>2. CASE origin[s] = m
    BY <1>1, <1>2 DEF Done, SendsOf
  <1>3. CASE origin[s] # m
    BY <1>1, <1>3 DEF Done, Twins
  <1> QED BY <1>2, <1>3

LEMMA HandStays ==
    ASSUME OInv, [Next]_vars, NEW k \in Instances, HandOK(k)
    PROVE  HandOK(k)'
  <1>1. PICK m : m = First(k.batch)
    OBVIOUS
  <1>2. k.at # "idle" => m \in Messages
    BY <1>1, FirstIs DEF HandOK, Instances
  <1>3. DOMAIN k.batch \subseteq Messages
    BY DEF Instances, Batches
  <1>4. \A n \in DOMAIN k.batch : submit'[n] # "new"
    BY <1>3, QueueMoves DEF HandOK, QueueStep
  <1>5. k.at # "idle" /\ line[m].started => line'[m].started
    BY <1>2, RowsMove DEF LinesMove, RowStep
  <1>6. Relates(k.sid, m) => Relates(k.sid, m)'
    BY RelatesStays
  <1>7. Relates(k.sid, m) /\ Known(k.sid, k.status) => Known(k.sid, k.status)'
    BY KnownStays DEF Relates
  <1>8. k.at # "idle" /\ Done(m) => Done(m)'
    BY <1>2, DoneStays
  <1> QED BY <1>1, <1>4, <1>5, <1>6, <1>7, <1>8 DEF HandOK

---------------------------------------------------------------------------
(* What the workers have in hand. *)

HandTypes == worker \in [Workers -> Instances]

LEMMA OneHand ==
    ASSUME OInv, [Next]_vars, NEW w \in Workers, NEW k \in Instances,
           worker' = [worker EXCEPT ![w] = k], HandOK(k)'
    PROVE  HandTypes' /\ HandsOK'
  <1>1. worker \in [Workers -> Instances] /\ \A v \in Workers : HandOK(worker[v])
    BY DEF OInv, TypesOK, HandsOK
  <1>2. worker' \in [Workers -> Instances] /\ worker'[w] = k
        /\ \A v \in Workers : v # w => worker'[v] = worker[v]
    BY <1>1
  <1>3. ASSUME NEW v \in Workers, NEW h \in {worker'[v]} PROVE HandOK(h)'
    <2>1. CASE v = w
      BY <1>2, <1>3, <2>1
    <2>2. CASE v # w
      <3>1. h = worker[v] /\ h \in Instances
        BY <1>1, <1>2, <1>3, <2>2
      <3>2. HandOK(h)
        BY <1>1, <3>1
      <3> QED BY <3>1, <3>2, HandStays
    <2> QED BY <2>1, <2>2
  <1>4. HandTypes'
    BY <1>2 DEF HandTypes
  <1>5. HandsOK'
    BY <1>3 DEF HandsOK
  <1> QED BY <1>4, <1>5

LEMMA SameHands ==
    ASSUME OInv, [Next]_vars, UNCHANGED worker
    PROVE  HandTypes' /\ HandsOK'
  <1>1. worker \in [Workers -> Instances] /\ \A v \in Workers : HandOK(worker[v])
    BY DEF OInv, TypesOK, HandsOK
  <1>2. ASSUME NEW v \in Workers, NEW h \in {worker'[v]} PROVE HandOK(h)'
    <2>1. h = worker[v] /\ h \in Instances
      BY <1>1, <1>2
    <2>2. HandOK(h)
      BY <1>1, <2>1
    <2> QED BY <2>1, <2>2, HandStays
  <1> QED BY <1>1, <1>2 DEF HandTypes, HandsOK

\* The next hand of a worker that goes on with its line.
LEMMA NextHand ==
    ASSUME OInv, [Next]_vars, NEW h \in Instances, HandOK(h), h.at # "idle",
           NEW k \in Instances, k.at # "idle", k.batch = h.batch,
           NEW m, m = First(h.batch),
           k.started => line'[m].started,
           k.at = "list" => k.started,
           k.at = "create" => line'[m].started,
           k.at \in {"repoint", "point", "attach", "status"} => Relates(k.sid, m)',
           k.at \in {"point", "attach", "status"} => Known(k.sid, k.status)',
           k.at = "status" => k.status \in Shown,
           k.at = "delete" => Done(m)'
    PROVE  HandOK(k)'
  <1>1. DOMAIN k.batch # {} /\ m = First(k.batch)
    BY DEF HandOK
  <1>2. HandOK(h)'
    BY HandStays
  <1>3. \A n \in DOMAIN k.batch : submit'[n] # "new"
    BY <1>2 DEF HandOK
  <1> QED BY <1>1, <1>3 DEF HandOK

LEMMA HandRow ==
    ASSUME NEW k \in Instances, NEW at
    PROVE  [k EXCEPT !.at = at]
             = [at |-> at, batch |-> k.batch, started |-> k.started, sid |-> k.sid, status |-> k.status]
  BY DEF Instances

LEMMA GoesIs ==
    ASSUME OInv, NEW w \in Workers, NEW step \in Steps, Goes(w, step)
    PROVE  \E k \in Instances :
             /\ worker' = [worker EXCEPT ![w] = k] /\ k.at = step
             /\ k.batch = worker[w].batch /\ k.started = worker[w].started
             /\ k.sid = worker[w].sid /\ k.status = worker[w].status
  <1>1. PICK h \in Instances : h = worker[w]
    BY DEF OInv, TypesOK
  <1>2. PICK k : k = [at |-> step, batch |-> h.batch, started |-> h.started, sid |-> h.sid, status |-> h.status]
    OBVIOUS
  <1>3. worker' = [worker EXCEPT ![w] = [worker[w] EXCEPT !.at = step]]
    BY DEF Goes
  <1>4. worker' = [worker EXCEPT ![w] = k]
    BY <1>1, <1>2, <1>3, HandRow
  <1>5. k \in Instances
    BY <1>2 DEF Instances
  <1> QED BY <1>1, <1>2, <1>4, <1>5

\* A text of the log is taken for the line in hand.
Found(w, s, status) == worker' = [worker EXCEPT ![w].at = "point", ![w].sid = s, ![w].status = status]

LEMMA FoundIs ==
    ASSUME OInv, NEW w \in Workers, NEW s \in Sids, NEW status \in Statuses, Found(w, s, status)
    PROVE  \E k \in Instances :
             /\ worker' = [worker EXCEPT ![w] = k] /\ k.at = "point"
             /\ k.batch = worker[w].batch /\ k.started = worker[w].started
             /\ k.sid = s /\ k.status = status
  <1>1. PICK h \in Instances : h = worker[w]
    BY DEF OInv, TypesOK
  <1>2. PICK k : k = [at |-> "point", batch |-> h.batch, started |-> h.started, sid |-> s, status |-> status]
    OBVIOUS
  <1>3. [h EXCEPT !.at = "point", !.sid = s, !.status = status] = k
    <2>1. PICK g : g = [h EXCEPT !.at = "point"]
      OBVIOUS
    <2>2. g = [at |-> "point", batch |-> h.batch, started |-> h.started, sid |-> h.sid, status |-> h.status]
      BY <2>1, HandRow
    <2>3. PICK f : f = [g EXCEPT !.sid = s]
      OBVIOUS
    <2>4. f = [at |-> "point", batch |-> h.batch, started |-> h.started, sid |-> s, status |-> h.status]
      BY <2>2, <2>3
    <2>5. [f EXCEPT !.status = status] = k
      BY <1>2, <2>4
    <2> QED BY <2>1, <2>3, <2>5, Zenon
  <1>4. worker' = [worker EXCEPT ![w] = [worker[w] EXCEPT !.at = "point", !.sid = s, !.status = status]]
    BY DEF Found
  <1>5. worker' = [worker EXCEPT ![w] = k]
    BY <1>1, <1>3, <1>4, Zenon
  <1>6. k \in Instances
    BY <1>2 DEF Instances, Steps
  <1> QED BY <1>1, <1>2, <1>5, <1>6

\* The line is read.
Gotten(w, l, at) == worker' = [worker EXCEPT ![w].sid = l.sid, ![w].started = l.started, ![w].at = at]

LEMMA GetIs ==
    ASSUME OInv, NEW w \in Workers, NEW at \in Steps, NEW l \in Lines, Gotten(w, l, at)
    PROVE  \E k \in Instances :
             /\ worker' = [worker EXCEPT ![w] = k] /\ k.at = at
             /\ k.batch = worker[w].batch /\ k.started = l.started /\ k.sid = l.sid
  <1>1. PICK h \in Instances : h = worker[w]
    BY DEF OInv, TypesOK
  <1>2. PICK k : k = [at |-> at, batch |-> h.batch, started |-> l.started, sid |-> l.sid, status |-> h.status]
    OBVIOUS
  <1>3. [h EXCEPT !.sid = l.sid, !.started = l.started, !.at = at] = k
    <2>1. PICK g : g = [h EXCEPT !.sid = l.sid]
      OBVIOUS
    <2>2. g = [at |-> h.at, batch |-> h.batch, started |-> h.started, sid |-> l.sid, status |-> h.status]
      BY <2>1 DEF Instances
    <2>3. PICK f : f = [g EXCEPT !.started = l.started]
      OBVIOUS
    <2>4. f = [at |-> h.at, batch |-> h.batch, started |-> l.started, sid |-> l.sid, status |-> h.status]
      BY <2>2, <2>3
    <2>5. [f EXCEPT !.at = at] = k
      BY <1>2, <2>4
    <2> QED BY <2>1, <2>3, <2>5, Zenon
  <1>4. worker' = [worker EXCEPT ![w] = [worker[w] EXCEPT !.sid = l.sid, !.started = l.started, !.at = at]]
    BY DEF Gotten
  <1>5. worker' = [worker EXCEPT ![w] = k]
    BY <1>1, <1>3, <1>4, Zenon
  <1>6. k \in Instances
    BY <1>2 DEF Instances, Lines
  <1> QED BY <1>1, <1>2, <1>5, <1>6

LEMMA ReceiveIs ==
    ASSUME OInv, NEW w \in Workers, NEW batch \in Batches,
           worker' = [worker EXCEPT ![w].at = "get", ![w].batch = batch]
    PROVE  \E k \in Instances :
             /\ worker' = [worker EXCEPT ![w] = k] /\ k.at = "get"
             /\ k.batch = batch /\ k.started = worker[w].started
  <1>1. PICK h \in Instances : h = worker[w]
    BY DEF OInv, TypesOK
  <1>2. PICK k : k = [at |-> "get", batch |-> batch, started |-> h.started, sid |-> h.sid, status |-> h.status]
    OBVIOUS
  <1>3. [h EXCEPT !.at = "get", !.batch = batch] = k
    <2>1. PICK g : g = [h EXCEPT !.at = "get"]
      OBVIOUS
    <2>2. g = [at |-> "get", batch |-> h.batch, started |-> h.started, sid |-> h.sid, status |-> h.status]
      BY <2>1, HandRow
    <2>3. [g EXCEPT !.batch = batch] = k
      BY <1>2, <2>2
    <2> QED BY <2>1, <2>3, Zenon
  <1>4. worker' = [worker EXCEPT ![w] = [worker[w] EXCEPT !.at = "get", !.batch = batch]]
    OBVIOUS
  <1>5. worker' = [worker EXCEPT ![w] = k]
    BY <1>1, <1>3, <1>4, Zenon
  <1>6. k \in Instances
    BY <1>2 DEF Instances, Steps
  <1>7. k.at = "get" /\ k.batch = batch /\ k.started = h.started
    BY <1>2
  <1> QED BY <1>1, <1>5, <1>6, <1>7, Zenon

LEMMA RestingIs ==
    Resting \in Instances /\ HandOK(Resting) /\ HandOK(Resting)'
  <1>1. PICK b : b = [m \in {} |-> 0]
    OBVIOUS
  <1>2. DOMAIN b = {} /\ b \in Batches
    <2>1. DOMAIN b = {} /\ b \in [{} -> 0 .. MaxReceives]
      BY <1>1
    <2>2. {} \in SUBSET Messages
      OBVIOUS
    <2> QED BY <2>1, <2>2, Zenon DEF Batches
  <1>3. Resting = [at |-> "idle", batch |-> b, started |-> FALSE, sid |-> NoSid, status |-> "none"]
    BY <1>1 DEF Resting
  <1>4. Resting \in Instances
    BY <1>2, <1>3, RankIs DEF Instances, Steps
  <1> QED BY <1>2, <1>3, <1>4 DEF HandOK

LEMMA LeavesWith ==
    ASSUME OInv, NEW w \in Workers, worker[w].at # "idle"
    PROVE  \E k \in Instances : /\ k = NextOf(w) /\ HandOK(k) /\ k.at \in {"idle", "get"}
  <1>1. PICK h \in Instances : h = worker[w] /\ HandOK(h)
    BY InHandIs
  <1>2. PICK rest : rest = DOMAIN worker[w].batch \ {Current(w)}
    OBVIOUS
  <1>3. rest \subseteq DOMAIN h.batch /\ DOMAIN h.batch \subseteq Messages
        /\ h.batch \in [DOMAIN h.batch -> 0 .. MaxReceives]
    BY <1>1, <1>2 DEF Instances, Batches
  <1>4. CASE rest = {}
    <2>1. NextOf(w) = Resting
      BY <1>2, <1>4 DEF NextOf
    <2>2. Resting.at = "idle"
      BY DEF Resting
    <2> QED BY <2>1, <2>2, RestingIs
  <1>5. CASE rest # {}
    <2>1. PICK b : b = [m \in rest |-> h.batch[m]]
      OBVIOUS
    <2>2. DOMAIN b = rest /\ b \in Batches
      BY <1>3, <2>1 DEF Batches
    <2>3. PICK r \in Instances : r = Resting
      BY RestingIs
    <2>4. PICK k : k = [at |-> "get", batch |-> b, started |-> r.started, sid |-> r.sid, status |-> r.status]
      OBVIOUS
    <2>5. k.started = FALSE
      BY <2>3, <2>4 DEF Resting
    <2>6. k \in Instances
      BY <2>2, <2>4 DEF Instances, Steps
    <2>7. NextOf(w) = k
      <3>1. NextOf(w) = [Resting EXCEPT !.at = "get", !.batch = b]
        BY <1>1, <1>2, <1>5, <2>1 DEF NextOf
      <3>2. PICK g : g = [r EXCEPT !.at = "get"]
        OBVIOUS
      <3>3. g = [at |-> "get", batch |-> r.batch, started |-> r.started, sid |-> r.sid, status |-> r.status]
        BY <3>2, HandRow
      <3>4. [g EXCEPT !.batch = b] = k
        BY <2>4, <3>3
      <3>5. [r EXCEPT !.at = "get", !.batch = b] = k
        BY <3>2, <3>4, Zenon
      <3> QED BY <2>3, <3>1, <3>5, Zenon
    <2>8. \A n \in rest : submit[n] # "new"
      BY <1>1, <1>3 DEF HandOK
    <2>9. HandOK(k)
      BY <1>5, <2>2, <2>4, <2>5, <2>8 DEF HandOK
    <2>10. k.at = "get"
      BY <2>4
    <2> QED BY <2>6, <2>7, <2>9, <2>10
  <1> QED BY <1>4, <1>5

LEMMA Leaves ==
    ASSUME OInv, [Next]_vars, NEW w \in Workers, worker[w].at # "idle", Leave(w)
    PROVE  HandTypes' /\ HandsOK'
  <1>1. PICK k \in Instances : k = NextOf(w) /\ HandOK(k)
    BY LeavesWith
  <1>2. HandOK(k)'
    BY <1>1, HandStays
  <1>3. worker' = [worker EXCEPT ![w] = k]
    BY <1>1 DEF Leave
  <1> QED BY <1>2, <1>3, OneHand

\* Every step leaves each worker with a hand that it may have.
LEMMA HandsMove ==
    ASSUME OInv, [Next]_vars
    PROVE  HandTypes' /\ HandsOK'
  <1>1. ASSUME NEW w \in Workers, Receive(w) PROVE HandTypes' /\ HandsOK'
    <2>1. PICK h \in Instances : h = worker[w] /\ HandOK(h) /\ h.at = "idle"
      BY <1>1 DEF Receive, OInv, TypesOK, HandsOK
    <2>2. PICK last \in Messages, B \in SUBSET Messages :
            /\ B = {m \in Messages : job[m] = "visible" /\ m <= last} /\ job[last] = "visible"
            /\ worker' = [worker EXCEPT ![w].at = "get", ![w].batch = [m \in B |-> receives[m] + 1]]
      BY <1>1 DEF Receive
    <2>3. last \in B /\ \A m \in B : job[m] = "visible"
      <3>1. last <= last
        BY MessagesAssumption
      <3> QED BY <2>2, <3>1
    <2>4. \A m \in B : submit[m] # "new" /\ receives[m] \in Nat /\ receives[m] < MaxReceives
      <3>1. \A m \in Messages : LineOK(m)
        BY DEF OInv
      <3>2. receives \in [Messages -> 0 .. MaxReceives]
        BY DEF OInv, TypesOK
      <3>3. \A m \in B : submit[m] # "new" /\ receives[m] < MaxReceives
        BY <2>3, <3>1 DEF LineOK
      <3> QED BY <3>2, <3>3
    <2>5. PICK batch : batch = [m \in B |-> receives[m] + 1]
      OBVIOUS
    <2>6. batch \in Batches /\ DOMAIN batch = B
      <3>1. \A m \in B : receives[m] + 1 \in 0 .. MaxReceives
        BY <2>4, LimitsAssumption
      <3> QED BY <2>5, <3>1 DEF Batches
    <2>7. PICK k \in Instances : /\ worker' = [worker EXCEPT ![w] = k] /\ k.at = "get"
                                 /\ k.batch = batch /\ k.started = worker[w].started
      <3>1. worker' = [worker EXCEPT ![w].at = "get", ![w].batch = batch]
        BY <2>2, <2>5, Zenon
      <3> QED BY <2>6, <3>1, ReceiveIs
    <2>8. \A n \in DOMAIN k.batch : submit'[n] # "new"
      BY <1>1, <2>4, <2>6, <2>7 DEF Receive
    <2>9. k.started = FALSE
      BY <2>1, <2>7 DEF HandOK, Instances
    <2>10. HandOK(k)'
      BY <2>3, <2>6, <2>7, <2>8, <2>9 DEF HandOK
    <2> QED BY <2>7, <2>10, OneHand
  <1>2. ASSUME NEW w \in Workers, NEW k \in Instances, worker[w].at # "idle",
               worker' = [worker EXCEPT ![w] = k], k.at # "idle", k.batch = worker[w].batch,
               k.started => line'[Current(w)].started,
               k.at = "list" => k.started,
               k.at = "create" => line'[Current(w)].started,
               k.at \in {"repoint", "point", "attach", "status"} => \A m \in {Current(w)} : Relates(k.sid, m)',
               k.at \in {"point", "attach", "status"} => Known(k.sid, k.status)',
               k.at = "status" => k.status \in Shown,
               k.at = "delete" => \A m \in {Current(w)} : Done(m)'
        PROVE  HandTypes' /\ HandsOK'
    <2>1. PICK h \in Instances, m \in Messages : h = worker[w] /\ HandOK(h) /\ m = First(h.batch) /\ m = Current(w)
      BY <1>2, InHandIs
    <2>2. HandOK(k)'
      BY <1>2, <2>1, NextHand
    <2> QED BY <1>2, <2>2, OneHand
  <1>3. ASSUME NEW w \in Workers, NEW step \in {"list", "refused", "attach", "status", "delete", "create"},
               worker[w].at # "idle", Goes(w, step),
               step = "list" => worker[w].started,
               step = "create" => line'[Current(w)].started,
               step \in {"attach", "status"} => /\ Relates(worker[w].sid, Current(w))
                                                /\ Known(worker[w].sid, worker[w].status),
               step = "status" => worker[w].status \in Shown,
               step = "delete" => \A m \in {Current(w)} : Done(m)'
        PROVE  HandTypes' /\ HandsOK'
    <2>1. PICK k \in Instances :
            /\ worker' = [worker EXCEPT ![w] = k] /\ k.at = step
            /\ k.batch = worker[w].batch /\ k.started = worker[w].started
            /\ k.sid = worker[w].sid /\ k.status = worker[w].status
      BY <1>3, GoesIs DEF Steps
    <2>2. PICK m \in Messages : m = Current(w) /\ (worker[w].started => line[m].started)
      BY <1>3, InHandIs DEF HandOK
    <2>3. k.started => line'[m].started
      BY <2>1, <2>2, RowsMove DEF LinesMove, RowStep
    <2>4. step \in {"attach", "status"} =>
            Relates(k.sid, m) /\ Known(k.sid, k.status) /\ k.sid \in Sent
      BY <1>3, <2>1, <2>2 DEF Relates
    <2>5. step \in {"attach", "status"} => Relates(k.sid, m)' /\ Known(k.sid, k.status)'
      BY <2>4, RelatesStays, KnownStays
    <2> QED BY <1>2, <1>3, <2>1, <2>2, <2>3, <2>5
  <1>4. ASSUME NEW w \in Workers, Get(w) PROVE HandTypes' /\ HandsOK'
    <2>1. PICK m \in Messages : m = Current(w) /\ LineOK(m) /\ submit[m] # "new" /\ worker[w].at # "idle"
      BY <1>4, InHandIs DEF Get, At
    <2>2. PICK l \in Lines : l = line[m]
      BY <2>1, InHandIs
    <2>3. PICK at \in {"repoint", "claim", "delete"} :
            at = IF l.sid # NoSid THEN "repoint"
                 ELSE IF l.status \in {"queued", "sending"} THEN "claim" ELSE "delete"
      OBVIOUS
    <2>4. Gotten(w, l, at)
      BY <1>4, <2>1, <2>2, <2>3, Zenon DEF Get, Gotten
    <2>5. PICK k \in Instances :
             /\ worker' = [worker EXCEPT ![w] = k] /\ k.at = at
             /\ k.batch = worker[w].batch /\ k.started = l.started /\ k.sid = l.sid
      <3>1. at \in Steps
        BY <2>3 DEF Steps
      <3> QED BY <2>4, <3>1, GetIs
    <2>6. k.started => line'[m].started
      BY <2>1, <2>2, <2>5, RowsMove DEF LinesMove, RowStep
    <2>7. at = "repoint" => Relates(k.sid, m)'
      BY <2>1, <2>2, <2>3, <2>5, RelatesStays DEF LineOK
    <2>8. at = "delete" => Done(m)'
      <3>1. l.status \in {"none", "queued", "sending", "sent", "delivered", "undelivered", "failed"}
        BY RankIs DEF Lines
      <3>2. at = "delete" => l.status = "failed"
        BY <2>1, <2>2, <2>3, <3>1 DEF LineOK, Shown
      <3>3. at = "delete" => Done(m)
        BY <2>2, <3>2 DEF Done
      <3> QED BY <3>3, DoneStays
    <2> QED BY <1>2, <2>1, <2>3, <2>5, <2>6, <2>7, <2>8
  <1>5. ASSUME NEW w \in Workers, Repoint(w) PROVE HandTypes' /\ HandsOK'
    <2>1. PICK m \in Messages : m = Current(w) /\ Relates(worker[w].sid, m)
      BY <1>5, InHandIs DEF Repoint, At, HandOK
    <2>2. Done(m)'
      BY <2>1, RelatesDone, DoneStays
    <2> QED BY <1>3, <1>5, <2>1, <2>2 DEF Repoint, At
  <1>6. ASSUME NEW w \in Workers, Claim(w) PROVE HandTypes' /\ HandsOK'
    <2>1. PICK m \in Messages : m = Current(w) /\ line[m] \in Lines
      BY <1>6, InHandIs DEF Claim, At
    <2>2. line'[m].started
      <3>1. line' = [line EXCEPT ![m].status = "sending", ![m].started = TRUE]
        BY <1>6, <2>1 DEF Claim
      <3>2. line \in [Messages -> Lines]
        BY DEF OInv, TypesOK
      <3> QED BY <2>1, <3>1, <3>2 DEF Lines
    <2> QED BY <1>3, <1>6, <2>1, <2>2 DEF Claim, At
  <1>7. ASSUME NEW w \in Workers, ClaimLost(w) PROVE HandTypes' /\ HandsOK'
    <2>1. PICK m \in Messages : m = Current(w)
      BY <1>7, InHandIs DEF ClaimLost, At
    <2>2. ~worker[w].started => Done(m)'
      BY <1>7, <2>1 DEF ClaimLost, Done
    <2>3. PICK step \in {"list", "delete"} : step = AfterLostClaim(w)
      BY DEF AfterLostClaim
    <2>4. (step = "list" => worker[w].started) /\ (step = "delete" => ~worker[w].started)
      BY <2>3 DEF AfterLostClaim
    <2>5. Goes(w, step) /\ worker[w].at # "idle"
      BY <1>7, <2>3 DEF ClaimLost, At
    <2> QED BY <1>3, <2>1, <2>2, <2>3, <2>4, <2>5
  <1>8. ASSUME NEW w \in Workers, ListFinds(w) PROVE HandTypes' /\ HandsOK'
    <2>1. PICK m \in Messages : m = Current(w) /\ submit[m] # "new" /\ worker[w].at # "idle"
                                /\ (worker[w].started => line[m].started)
      BY <1>8, InHandIs DEF ListFinds, At, HandOK
    <2>2. PICK s \in Matches(m) :
            worker' = [worker EXCEPT ![w].at = "point", ![w].sid = s, ![w].status = record[s]]
      BY <1>8, <2>1 DEF ListFinds
    <2>3. s \in Sids /\ Relates(s, m)
      BY <2>1, <2>2 DEF Matches, SameText, Relates, Sent
    <2>4. PICK status \in Statuses : status = record[s] /\ Known(s, status)
      BY <2>3, RankIs DEF OInv, TypesOK, Known, Reported
    <2>5. PICK k \in Instances :
            /\ worker' = [worker EXCEPT ![w] = k] /\ k.at = "point"
            /\ k.batch = worker[w].batch /\ k.started = worker[w].started
            /\ k.sid = s /\ k.status = status
      <3>1. Found(w, s, status)
        BY <2>2, <2>4, Zenon DEF Found
      <3> QED BY <2>3, <3>1, FoundIs
    <2>6. Relates(k.sid, m)' /\ Known(k.sid, k.status)'
      BY <2>3, <2>4, <2>5, RelatesStays, KnownStays DEF Relates
    <2>7. k.started => line'[m].started
      BY <2>1, <2>5, RowsMove DEF LinesMove, RowStep
    <2> QED BY <1>2, <2>1, <2>5, <2>6, <2>7
  <1>9. ASSUME NEW w \in Workers, ListFindsNothing(w) \/ ListFails(w) PROVE HandTypes' /\ HandsOK'
    <2>1. PICK m \in Messages : m = Current(w) /\ line[m].started
      BY <1>9, InHandIs DEF ListFindsNothing, ListFails, At, HandOK
    <2>2. line'[m].started
      BY <2>1, RowsMove DEF LinesMove, RowStep
    <2>3. Goes(w, "create") /\ worker[w].at # "idle"
      BY <1>9 DEF ListFindsNothing, ListFails, At
    <2> QED BY <1>3, <2>1, <2>2, <2>3
  <1>10. ASSUME NEW w \in Workers, Create(w) PROVE HandTypes' /\ HandsOK'
    <2>1. PICK m \in Messages : m = Current(w) /\ submit[m] # "new" /\ worker[w].at # "idle" /\ line[m].started
      BY <1>10, InHandIs DEF Create, At, HandOK
    <2>2. PICK s : s = Newest + 1
      OBVIOUS
    <2>3. TwilioTakes(m) /\ since' = since
      <3>1. TwilioTakes(Current(w)) /\ UNCHANGED history
        BY <1>10, Zenon DEF Create
      <3> QED BY <2>1, <3>1 DEF history
    <2>4. s \in Sids /\ s \in Sent' /\ origin'[s] = m
      BY <2>1, <2>2, <2>3, LogGrows
    <2>5. PICK k \in Instances :
            /\ worker' = [worker EXCEPT ![w] = k] /\ k.at = "point"
            /\ k.batch = worker[w].batch /\ k.started = worker[w].started
            /\ k.sid = s /\ k.status = "queued"
      <3>1. Found(w, s, "queued")
        BY <1>10, <2>2, Zenon DEF Create, Found
      <3>2. "queued" \in Statuses
        BY RankIs
      <3> QED BY <2>4, <3>1, <3>2, FoundIs
    <2>6. Relates(k.sid, m)' /\ Known(k.sid, k.status)'
      <3>1. submit'[m] # "new"
        BY <2>1, QueueMoves DEF QueueStep
      <3> QED BY <2>4, <2>5, <3>1 DEF Relates, Known
    <2>7. k.started => line'[m].started
      BY <2>1, RowsMove DEF LinesMove, RowStep
    <2> QED BY <1>2, <2>1, <2>5, <2>6, <2>7
  <1>11. ASSUME NEW w \in Workers, CreateRefused(w) PROVE HandTypes' /\ HandsOK'
    BY <1>3, <1>11 DEF CreateRefused, At
  <1>12. ASSUME NEW w \in Workers, MarkFailed(w) PROVE HandTypes' /\ HandsOK'
    <2>1. PICK m \in Messages : m = Current(w) /\ LineOK(m) /\ submit[m] # "new"
      BY <1>12, InHandIs DEF MarkFailed, At
    <2>2. line \in [Messages -> Lines] /\ line' = [line EXCEPT ![m] = UpdateStatus(line[m], "failed", NoSid)]
      BY <1>12, <2>1 DEF MarkFailed, OInv, TypesOK
    <2>3. PICK l \in Lines : l = line[m]
      BY <2>2
    <2>4. PICK u : u = UpdateStatus(l, "failed", NoSid) /\ u = line'[m]
      BY <2>2, <2>3
    <2>5. Done(m)'
      <3>1. CASE l.status \in {"delivered", "undelivered"}
        <4>1. Relates(l.sid, m)
          BY <2>1, <2>3, <3>1 DEF LineOK, Shown
        <4> QED BY <4>1, RelatesDone, DoneStays
      <3>2. CASE l.status \notin {"delivered", "undelivered"}
        <4>1. u.status = "failed" \/ (u = l /\ l.status = "failed")
          <5>1. "failed" \in Statuses /\ NoSid \in Sids \cup {NoSid}
            BY RankIs
          <5>2. (u = l /\ Rank["failed"] <= Rank[l.status]) \/ u.status = "failed"
            BY <2>4, <5>1, UpdateStatusIs
          <5>3. Rank["failed"] <= Rank[l.status] => l.status = "failed"
            BY <3>2, RankIs DEF Lines
          <5> QED BY <5>2, <5>3
        <4> QED BY <2>4, <4>1 DEF Done
      <3> QED BY <3>1, <3>2
    <2> QED BY <1>3, <1>12, <2>1, <2>5 DEF MarkFailed, At
  <1>13. ASSUME NEW w \in Workers, Point(w) PROVE HandTypes' /\ HandsOK'
    <2>1. /\ worker[w].at = "point" /\ Goes(w, "attach")
          /\ Relates(worker[w].sid, Current(w)) /\ Known(worker[w].sid, worker[w].status)
      BY <1>13, InHandIs DEF Point, At, HandOK
    <2> QED BY <1>3, <2>1
  <1>14. ASSUME NEW w \in Workers, Attach(w) PROVE HandTypes' /\ HandsOK'
    <2>1. PICK m \in Messages :
            /\ m = Current(w) /\ worker[w].at = "attach" /\ worker[w].status \in Statuses
            /\ Relates(worker[w].sid, m) /\ Known(worker[w].sid, worker[w].status)
      BY <1>14, InHandIs DEF Attach, At, HandOK, Instances
    <2>2. Done(m)'
      BY <2>1, RelatesDone, DoneStays
    <2>3. PICK step \in {"status", "delete"} :
            step = IF Rank[worker[w].status] > Rank["sending"] THEN "status" ELSE "delete"
      OBVIOUS
    <2>4. Goes(w, step)
      BY <1>14, <2>3, Zenon DEF Attach
    <2>5. step = "status" => worker[w].status \in Shown
      <3>1. PICK status \in Statuses : status = worker[w].status
        BY <2>1
      <3>2. worker[w].status \in {"queued", "none"} \cup Shown
        BY <2>1 DEF Known, Reported, Relates, Sent, OInv, TypesOK, Sids, Shown
      <3> QED BY <2>3, <3>1, <3>2, RankIs
    <2> QED BY <1>3, <2>1, <2>2, <2>4, <2>5
  <1>15. ASSUME NEW w \in Workers, ApplyStatus(w) PROVE HandTypes' /\ HandsOK'
    <2>1. PICK m \in Messages : m = Current(w) /\ worker[w].at = "status" /\ Relates(worker[w].sid, m)
      BY <1>15, InHandIs DEF ApplyStatus, At, HandOK
    <2>2. Done(m)'
      BY <2>1, RelatesDone, DoneStays
    <2> QED BY <1>3, <1>15, <2>1, <2>2 DEF ApplyStatus
  <1>16. ASSUME NEW w \in Workers, Delete(w) \/ Throw(w) \/ CreateUnanswered(w) PROVE HandTypes' /\ HandsOK'
    BY <1>16, Leaves DEF Delete, Throw, CreateUnanswered, At, Handling
  <1>17. ASSUME NEW w \in Workers, Crash(w) PROVE HandTypes' /\ HandsOK'
    BY <1>17, RestingIs, OneHand DEF Crash
  <1>18. ASSUME NEW n \in Messages,
                \/ AppendOutbound(n) \/ Enqueue(n) \/ EnqueueFails(n) \/ MarkEnqueueFailed(n)
                \/ AcceptDies(n) \/ Expire(n)
         PROVE  HandTypes' /\ HandsOK'
    BY <1>18, SameHands DEF AppendOutbound, Enqueue, EnqueueFails, MarkEnqueueFailed, AcceptDies, Expire
  <1>19. ASSUME NEW s \in Sids, Progress(s) \/ StatusCallback(s) \/ Reconcile(s) PROVE HandTypes' /\ HandsOK'
    BY <1>19, SameHands DEF Progress, StatusCallback, Reconcile, SyncKnown, Hears, Adopt, Insert, Unpointed
  <1>20. CASE AdoptStatus \/ AdoptPointer \/ ReconcileDies \/ UNCHANGED vars
    BY <1>20, SameHands DEF AdoptStatus, AdoptPointer, ReconcileDies, vars
  <1> QED BY <1>1, <1>4, <1>5, <1>6, <1>7, <1>8, <1>9, <1>10, <1>11, <1>12, <1>13, <1>14, <1>15, <1>16,
             <1>17, <1>18, <1>19, <1>20
          DEF Next, Accepting, Working, Process, Reporting

---------------------------------------------------------------------------
(* Pointers, the reconciliation and the history. *)

PointerTypes == pointer \in [Sids -> Messages \cup {NoLine, Inserted}]

LEMMA OnePointer ==
    ASSUME OInv, [Next]_vars, NEW s \in Sids, NEW m \in Messages \cup {Inserted},
           PutProviderSidPointer(s, m), m \in Messages => Relates(s, m)
    PROVE  PointerTypes' /\ PointersOK'
  <1>1. pointer \in [Sids -> Messages \cup {NoLine, Inserted}] /\ PointersOK
    BY DEF OInv, TypesOK
  <1>2. pointer' = pointer \/ pointer' = [pointer EXCEPT ![s] = m]
    BY DEF PutProviderSidPointer
  <1>3. PointerTypes'
    BY <1>1, <1>2 DEF PointerTypes
  <1>4. ASSUME NEW r \in Sids, NEW n \in Messages, pointer'[r] = n PROVE Relates(r, n)
    <2>1. (r = s /\ n = m) \/ n = pointer[r]
      BY <1>1, <1>2, <1>4
    <2> QED BY <1>1, <2>1 DEF PointersOK
  <1>5. \A r \in Sids, n \in Messages : pointer'[r] = n => Relates(r, n)'
    BY <1>4, RelatesStays
  <1> QED BY <1>3, <1>5 DEF PointersOK

LEMMA SamePointers ==
    ASSUME OInv, [Next]_vars, UNCHANGED pointer
    PROVE  PointerTypes' /\ PointersOK'
  <1>1. pointer \in [Sids -> Messages \cup {NoLine, Inserted}] /\ PointersOK
    BY DEF OInv, TypesOK
  <1>2. \A r \in Sids, n \in Messages : pointer'[r] = n => Relates(r, n)'
    BY <1>1, RelatesStays DEF PointersOK
  <1> QED BY <1>1, <1>2 DEF PointerTypes, PointersOK

LEMMA PointersMove ==
    ASSUME OInv, [Next]_vars
    PROVE  PointerTypes' /\ PointersOK'
  <1>1. ASSUME NEW w \in Workers, Repoint(w) \/ Point(w) PROVE PointerTypes' /\ PointersOK'
    <2>1. Relates(worker[w].sid, Current(w)) /\ Current(w) \in Messages
      BY <1>1, InHandIs DEF Repoint, Point, At, HandOK
    <2>2. PutProviderSidPointer(worker[w].sid, Current(w))
      BY <1>1 DEF Repoint, Point
    <2> QED BY <2>1, <2>2, OnePointer DEF Relates, Sent
  <1>2. CASE AdoptPointer
    <2>1. Relates(recon.sid, recon.line) /\ PutProviderSidPointer(recon.sid, recon.line)
      BY <1>2 DEF AdoptPointer, OInv, ReconOK
    <2> QED BY <2>1, OnePointer DEF Relates, Sent
  <1>3. ASSUME NEW s \in Sids, Insert(s) PROVE PointerTypes' /\ PointersOK'
    BY <1>3, OnePointer, LinesAssumption DEF Insert, Unpointed
  <1>4. ASSUME NEW n \in Messages,
               \/ AppendOutbound(n) \/ Enqueue(n) \/ EnqueueFails(n) \/ MarkEnqueueFailed(n)
               \/ AcceptDies(n) \/ Expire(n)
        PROVE  PointerTypes' /\ PointersOK'
    BY <1>4, SamePointers DEF AppendOutbound, Enqueue, EnqueueFails, MarkEnqueueFailed, AcceptDies, Expire, store
  <1>5. ASSUME NEW w \in Workers,
               \/ Receive(w) \/ Get(w) \/ Claim(w) \/ ClaimLost(w) \/ ListFinds(w) \/ ListFindsNothing(w)
               \/ Create(w) \/ CreateRefused(w) \/ MarkFailed(w) \/ Attach(w) \/ ApplyStatus(w)
               \/ Delete(w) \/ ListFails(w) \/ CreateUnanswered(w) \/ Throw(w) \/ Crash(w)
        PROVE  UNCHANGED pointer
    BY <1>5, Zenon DEF Receive, Get, Claim, ClaimLost, ListFinds, ListFindsNothing, Create, CreateRefused,
       MarkFailed, Attach, ApplyStatus, Delete, ListFails, CreateUnanswered, Throw, Crash, store
  <1>6. ASSUME NEW s \in Sids, Progress(s) \/ StatusCallback(s) \/ SyncKnown(s) \/ Adopt(s)
        PROVE  PointerTypes' /\ PointersOK'
    BY <1>6, SamePointers DEF Progress, StatusCallback, SyncKnown, Hears, Adopt, store
  <1>7. CASE AdoptStatus \/ ReconcileDies \/ UNCHANGED vars
    BY <1>7, SamePointers DEF AdoptStatus, ReconcileDies, vars, store
  <1> QED BY <1>1, <1>2, <1>3, <1>4, <1>5, <1>6, <1>7, SamePointers
          DEF Next, Accepting, Working, Process, Reporting, Reconcile

ReconTypes == recon \in Adoptions /\ missed \subseteq Sids

LEMMA ReconMoves ==
    ASSUME OInv, [Next]_vars
    PROVE  ReconTypes' /\ ReconOK'
  <1>1. NoAdoption \in Adoptions /\ NoAdoption.at = "idle" /\ missed \subseteq Sids
    BY DEF OInv, TypesOK, NoAdoption, Adoptions
  <1>2. ASSUME NEW s \in Sids, Adopt(s) PROVE ReconTypes' /\ ReconOK'
    <2>1. PICK m \in Messages :
            /\ recon' = [at |-> "status", sid |-> s, line |-> m]
            /\ missed' = missed /\ s \in Sent /\ line[m].status # "none" /\ text[m] = text[origin[s]]
      BY <1>2 DEF Adopt, Unpointed, Adoptable, Unclaimed
    <2>2. Relates(s, m)
      BY <2>1 DEF Relates, OInv, LineOK, NoWriting
    <2>3. Relates(s, m)'
      BY <2>2, RelatesStays
    <2>4. recon'.sid = s /\ recon'.line = m
      BY <2>1
    <2> QED BY <1>1, <2>1, <2>3, <2>4 DEF ReconTypes, ReconOK, Adoptions
  <1>3. CASE AdoptStatus
    <2>1. PICK r \in Adoptions : r = recon /\ Relates(r.sid, r.line)
      BY <1>3 DEF AdoptStatus, OInv, TypesOK, ReconOK
    <2>2. recon' = [at |-> "point", sid |-> r.sid, line |-> r.line] /\ missed' = missed
      BY <1>3, <2>1 DEF AdoptStatus, Adoptions
    <2>3. PICK s, m : s = r.sid /\ m = r.line
      OBVIOUS
    <2>4. Relates(s, m)'
      BY <2>1, <2>3, RelatesStays
    <2>5. recon'.sid = s /\ recon'.line = m
      BY <2>2, <2>3
    <2>6. ReconTypes'
      BY <1>1, <2>2 DEF ReconTypes, Adoptions
    <2> QED BY <2>4, <2>5, <2>6 DEF ReconOK
  <1>4. ASSUME recon' = NoAdoption, missed' \subseteq Sids PROVE ReconTypes' /\ ReconOK'
    BY <1>1, <1>4 DEF ReconTypes, ReconOK
  <1>5. ASSUME UNCHANGED recon, missed' \subseteq Sids PROVE ReconTypes' /\ ReconOK'
    <2>1. recon \in Adoptions /\ ReconOK
      BY DEF OInv, TypesOK
    <2>2. PICK s, m : s = recon.sid /\ m = recon.line
      OBVIOUS
    <2>3. recon.at # "idle" => Relates(s, m)'
      BY <2>1, <2>2, RelatesStays DEF ReconOK
    <2> QED BY <1>5, <2>1, <2>2, <2>3 DEF ReconTypes, ReconOK
  <1>6. ASSUME NEW n \in Messages,
               \/ AppendOutbound(n) \/ Enqueue(n) \/ EnqueueFails(n) \/ MarkEnqueueFailed(n)
               \/ AcceptDies(n) \/ Expire(n)
        PROVE  UNCHANGED <<recon, missed>>
    BY <1>6, Zenon DEF hourly, AppendOutbound, Enqueue, EnqueueFails, MarkEnqueueFailed, AcceptDies, Expire
  <1>7. ASSUME NEW w \in Workers, Receive(w) \/ Process(w) \/ ListFails(w) \/ CreateUnanswered(w)
                                  \/ Throw(w) \/ Crash(w)
        PROVE  UNCHANGED <<recon, missed>>
    BY <1>7, Zenon DEF hourly, Process, Receive, Get, Repoint, Claim, ClaimLost, ListFinds, ListFindsNothing, Create,
       CreateRefused, MarkFailed, Point, Attach, ApplyStatus, Delete, ListFails, CreateUnanswered, Throw, Crash
  <1>8. ASSUME NEW s \in Sids, Progress(s) \/ StatusCallback(s) \/ SyncKnown(s)
        PROVE  UNCHANGED <<recon, missed>>
    BY <1>8, Zenon DEF Progress, StatusCallback, SyncKnown, Hears, hourly
  <1>11. ASSUME NEW s \in Sids, Insert(s) PROVE UNCHANGED recon /\ missed' \subseteq Sids
    BY <1>1, <1>11 DEF Insert
  <1>9. AdoptPointer \/ ReconcileDies => recon' = NoAdoption /\ missed' = missed
    BY DEF AdoptPointer, ReconcileDies
  <1>10. UNCHANGED vars => UNCHANGED <<recon, missed>>
    BY DEF vars, hourly
  <1> QED BY <1>1, <1>2, <1>3, <1>4, <1>5, <1>6, <1>7, <1>8, <1>9, <1>10, <1>11
          DEF Next, Accepting, Working, Reporting, Reconcile

FaultTypes ==
    faults \in 0 .. MaxFaults /\ blind \subseteq Messages /\ together \subseteq Messages /\ dropped \subseteq Messages

LEMMA FaultsMove ==
    ASSUME OInv, [Next]_vars
    PROVE  FaultTypes'
  <1>0. FaultTypes /\ MaxFaults \in Nat
    BY LimitsAssumption DEF OInv, TypesOK, FaultTypes
  <1>1. ASSUME faults' = faults \/ Fault PROVE faults' \in 0 .. MaxFaults
    BY <1>0, <1>1 DEF Fault, FaultTypes
  <1>2. ASSUME UNCHANGED <<blind, together, dropped>>, faults' = faults \/ Fault PROVE FaultTypes'
    BY <1>0, <1>1, <1>2 DEF FaultTypes
  <1>3. ASSUME NEW n \in Messages,
               \/ AppendOutbound(n) \/ Enqueue(n) \/ EnqueueFails(n) \/ MarkEnqueueFailed(n)
               \/ AcceptDies(n) \/ Expire(n)
        PROVE  FaultTypes'
    BY <1>2, <1>3 DEF AppendOutbound, Enqueue, EnqueueFails, MarkEnqueueFailed, AcceptDies, Expire, history
  <1>4. ASSUME NEW w \in Workers,
               \/ Receive(w) \/ Get(w) \/ Repoint(w) \/ Claim(w) \/ ListFinds(w) \/ Create(w) \/ CreateRefused(w)
               \/ MarkFailed(w) \/ Point(w) \/ Attach(w) \/ ApplyStatus(w) \/ Delete(w)
        PROVE  FaultTypes'
    <2>1. UNCHANGED <<faults, blind, together, dropped>>
      BY <1>4, Zenon DEF Receive, Get, Repoint, Claim, ListFinds, Create, CreateRefused, MarkFailed, Point,
         Attach, ApplyStatus, Delete, history
    <2> QED BY <1>2, <2>1
  <1>5. ASSUME NEW w \in Workers, CreateUnanswered(w) \/ Throw(w) \/ Crash(w) PROVE FaultTypes'
    BY <1>2, <1>5 DEF CreateUnanswered, Throw, Crash, history
  <1>6. ASSUME NEW w \in Workers, ClaimLost(w) \/ ListFindsNothing(w) \/ ListFails(w) PROVE FaultTypes'
    <2>1. PICK m \in Messages : m = Current(w)
      BY <1>6, InHandIs DEF ClaimLost, ListFindsNothing, ListFails, At
    <2>2. faults' = faults \/ Fault
      BY <1>6 DEF ClaimLost, ListFindsNothing, ListFails
    <2>3. blind' \subseteq blind \cup {m} /\ together' \subseteq together \cup {m} /\ dropped' \subseteq dropped \cup {m}
      BY <1>6, <2>1 DEF ClaimLost, ListFindsNothing, ListFails
    <2> QED BY <1>0, <1>1, <2>2, <2>3 DEF FaultTypes
  <1>7. ASSUME NEW s \in Sids, Progress(s) \/ StatusCallback(s) \/ Reconcile(s) PROVE FaultTypes'
    BY <1>2, <1>7 DEF Progress, StatusCallback, Reconcile, SyncKnown, Hears, Adopt, Insert, Unpointed, history
  <1>8. CASE AdoptStatus \/ AdoptPointer \/ ReconcileDies \/ UNCHANGED vars
    BY <1>2, <1>8 DEF AdoptStatus, AdoptPointer, ReconcileDies, vars, history
  <1> QED BY <1>3, <1>4, <1>5, <1>6, <1>7, <1>8 DEF Next, Accepting, Working, Process, Reporting

LEMMA LinesStayOK ==
    ASSUME OInv, [Next]_vars, NEW m \in Messages
    PROVE  LineOK(m)'
  <1>1. LineOK(m) /\ RowStep(m) /\ QueueStep(m)
    BY RowsMove, QueueMoves DEF OInv, LinesMove
  <1>2. submit'[m] = "new" => line'[m] = NoWriting
    BY <1>1 DEF LineOK, RowStep, QueueStep
  <1>3. submit'[m] # "new" => line'[m].status # "none"
    BY <1>1 DEF LineOK, RowStep, QueueStep
  <1>4. QueueOK(m)'
    BY <1>1 DEF QueueStep
  <1>5. line'[m].sid # NoSid => Relates(line'[m].sid, m)
    BY <1>1 DEF LineOK, RowStep
  <1>6. PICK s : s = line'[m].sid
    OBVIOUS
  <1>7. s # NoSid => Relates(s, m)'
    BY <1>5, <1>6, RelatesStays
  <1>8. line'[m].status \in Shown => s # NoSid /\ line'[m].status \in Reported(s)
    BY <1>1, <1>6 DEF LineOK, RowStep
  <1>9. line'[m].status \in Shown => line'[m].status \in Reported(s)'
    BY <1>5, <1>6, <1>8, LogMoves DEF LogStep, Relates, Shown
  <1> QED BY <1>2, <1>3, <1>4, <1>6, <1>7, <1>8, <1>9 DEF LineOK, QueueOK

LEMMA JobsStayOK ==
    ASSUME OInv, [Next]_vars, NEW m \in Messages
    PROVE  JobOK(m)'
  <1>1. JobOK(m) /\ QueueStep(m)
    BY QueueMoves DEF OInv
  <1>2. CASE job[m] = "deleted"
    BY <1>1, <1>2, DoneStays DEF JobOK
  <1>3. CASE DeletedBy(m)
    <2>1. PICK w \in Workers : Delete(w) /\ m = Current(w)
      BY <1>3 DEF DeletedBy
    <2>2. Done(m)
      BY <2>1, InHandIs DEF Delete, At, HandOK
    <2> QED BY <2>2, DoneStays DEF JobOK
  <1>4. CASE job'[m] # "deleted"
    BY <1>4 DEF JobOK
  <1> QED BY <1>1, <1>2, <1>3, <1>4 DEF QueueStep

---------------------------------------------------------------------------
(* A line is sent by one worker, and not again. *)

LEMMA SendingIs ==
    ASSUME OInv, NEW w \in Workers, NEW k \in Instances, worker' = [worker EXCEPT ![w] = k]
    PROVE  \A v \in Workers : \A m : Sending(v, m)' =>
             IF v = w THEN k.at = "create" /\ First(k.batch) = m ELSE Sending(v, m)
  <1>1. worker \in [Workers -> Instances]
    BY DEF OInv, TypesOK
  <1>2. worker'[w] = k /\ \A v \in Workers : v # w => worker'[v] = worker[v]
    BY <1>1
  <1> QED BY <1>2 DEF Sending

\* A step after which nobody else sends and nothing was sent.
LEMMA OnceSame ==
    ASSUME OInv, [Next]_vars, Sent' \subseteq Sent,
           \A v \in Workers : \A m : Sending(v, m)' => Sending(v, m)
    PROVE  OnceOK'
  <1>1. OnceOK /\ LogOK
    BY DEF OInv
  <1>2. Unseen \subseteq Unseen'
    BY HistoryGrows DEF Unseen
  <1>3. \A s \in Sent' : s \in Sent /\ origin'[s] = origin[s] /\ origin[s] \in Messages
    BY <1>1, LogMoves DEF LogStep, LogOK
  <1>4. \A s, r \in Sent' : origin'[s] = origin'[r] /\ origin'[s] \notin Unseen' => s = r
    BY <1>1, <1>2, <1>3 DEF OnceOK
  <1>5. \A m \in Messages \ Unseen', w \in Workers :
          Sending(w, m)' => /\ \A s \in Sent' : origin'[s] # m
                            /\ \A v \in Workers : Sending(v, m)' => v = w
    BY <1>1, <1>2, <1>3 DEF OnceOK
  <1> QED BY <1>4, <1>5 DEF OnceOK

\* A worker begins to send a line.
LEMMA OnceBegun ==
    ASSUME OInv, [Next]_vars, Sent' \subseteq Sent, NEW w \in Workers, NEW m \in Messages,
           \A v \in Workers : \A n : Sending(v, n)' => (v # w /\ Sending(v, n)) \/ (v = w /\ n = m),
           m \notin Unseen' => \A v \in Workers \ {w} : ~Sending(v, m),
           m \notin Unseen' => \A s \in Sent : origin[s] # m
    PROVE  OnceOK'
  <1>1. OnceOK /\ LogOK
    BY DEF OInv
  <1>2. Unseen \subseteq Unseen'
    BY HistoryGrows DEF Unseen
  <1>3. \A s \in Sent' : s \in Sent /\ origin'[s] = origin[s] /\ origin[s] \in Messages
    BY <1>1, LogMoves DEF LogStep, LogOK
  <1>4. \A s, r \in Sent' : origin'[s] = origin'[r] /\ origin'[s] \notin Unseen' => s = r
    BY <1>1, <1>2, <1>3 DEF OnceOK
  <1>5. ASSUME NEW n \in Messages \ Unseen', NEW x \in Workers, Sending(x, n)'
        PROVE  /\ \A s \in Sent' : origin'[s] # n
               /\ \A v \in Workers : Sending(v, n)' => v = x
    <2>1. CASE n = m
      BY <1>3, <1>5, <2>1
    <2>2. CASE n # m
      <3>1. Sending(x, n) /\ \A v \in Workers : Sending(v, n)' => Sending(v, n)
        BY <1>5, <2>2
      <3> QED BY <1>1, <1>2, <1>3, <1>5, <3>1 DEF OnceOK
    <2> QED BY <2>1, <2>2
  <1> QED BY <1>4, <1>5 DEF OnceOK

\* A worker has sent its line, and no longer sends it.
LEMMA OnceSent ==
    ASSUME OInv, [Next]_vars, NEW w \in Workers, NEW m \in Messages, Sending(w, m), TwilioTakes(m),
           since' = since, submit[m] # "new", line[m].started,
           \A v \in Workers : \A n : Sending(v, n)' => v # w /\ Sending(v, n)
    PROVE  OnceOK'
  <1>1. OnceOK /\ LogOK
    BY DEF OInv
  <1>2. Unseen \subseteq Unseen'
    BY HistoryGrows DEF Unseen
  <1>3. PICK z : z = Newest + 1
    OBVIOUS
  <1>4. /\ Sent' = Sent \cup {z} /\ origin'[z] = m /\ z \notin Sent
        /\ \A s \in Sent : origin'[s] = origin[s] /\ origin[s] \in Messages
    <2>1. LogStep /\ Sent' = Sent \cup {z} /\ origin'[z] = m /\ z \notin Sent
      BY <1>3, LogGrows
    <2> QED BY <1>1, <2>1 DEF LogStep, LogOK
  <1>5. m \notin Unseen' => \A s \in Sent : origin[s] # m
    BY <1>1, <1>2 DEF OnceOK
  <1>6. m \notin Unseen' => \A v \in Workers : Sending(v, m) => v = w
    BY <1>1, <1>2 DEF OnceOK
  <1>7. \A s, r \in Sent' : origin'[s] = origin'[r] /\ origin'[s] \notin Unseen' => s = r
    <2>1. \A s, r \in Sent : origin[s] = origin[r] /\ origin[s] \notin Unseen' => s = r
      BY <1>1, <1>2 DEF OnceOK
    <2> QED BY <1>4, <1>5, <2>1
  <1>8. ASSUME NEW n \in Messages \ Unseen', NEW x \in Workers, Sending(x, n)'
        PROVE  /\ \A s \in Sent' : origin'[s] # n
               /\ \A v \in Workers : Sending(v, n)' => v = x
    <2>1. Sending(x, n) /\ x # w
      BY <1>8
    <2>2. n # m
      BY <1>6, <1>8, <2>1
    <2>3. (\A s \in Sent : origin[s] # n) /\ \A v \in Workers : Sending(v, n) => v = x
      BY <1>1, <1>2, <1>8, <2>1 DEF OnceOK
    <2> QED BY <1>4, <2>2, <2>3
  <1> QED BY <1>7, <1>8 DEF OnceOK

LEMMA OnceMoves ==
    ASSUME OInv, [Next]_vars
    PROVE  OnceOK'
  <1>1. ASSUME UNCHANGED <<worker, record>> PROVE OnceOK'
    <2>1. \A v \in Workers : \A m : Sending(v, m)' => Sending(v, m)
      BY <1>1 DEF Sending
    <2>2. Sent' \subseteq Sent
      BY <1>1 DEF Sent
    <2> QED BY <2>1, <2>2, OnceSame
  <1>2. ASSUME NEW w \in Workers, NEW k \in Instances, worker' = [worker EXCEPT ![w] = k], k.at # "create",
               UNCHANGED record
        PROVE  OnceOK'
    <2>1. \A v \in Workers : \A m : Sending(v, m)' => Sending(v, m)
      BY <1>2, SendingIs
    <2>2. Sent' \subseteq Sent
      BY <1>2 DEF Sent
    <2> QED BY <2>1, <2>2, OnceSame
  <1>3. ASSUME NEW w \in Workers, NEW step \in Steps \ {"create"}, Goes(w, step), UNCHANGED record
        PROVE  OnceOK'
    <2>1. PICK k \in Instances : worker' = [worker EXCEPT ![w] = k] /\ k.at = step
      BY <1>3, GoesIs
    <2> QED BY <1>2, <1>3, <2>1
  <1>4. ASSUME NEW w \in Workers, Goes(w, "create"), worker[w].at # "create", UNCHANGED record,
               NEW m \in Messages, m = Current(w), worker[w].at # "idle",
               m \notin Unseen' => \A v \in Workers \ {w} : ~Sending(v, m),
               m \notin Unseen' => \A s \in Sent : origin[s] # m
        PROVE  OnceOK'
    <2>1. PICK k \in Instances :
            worker' = [worker EXCEPT ![w] = k] /\ k.at = "create" /\ k.batch = worker[w].batch
      BY <1>4, GoesIs DEF Steps
    <2>2. First(k.batch) = m
      BY <1>4, <2>1, InHandIs
    <2>3. \A v \in Workers : \A n : Sending(v, n)' => (v # w /\ Sending(v, n)) \/ (v = w /\ n = m)
      BY <2>1, <2>2, SendingIs
    <2>4. Sent' \subseteq Sent
      BY <1>4 DEF Sent
    <2> QED BY <1>4, <2>3, <2>4, OnceBegun
  <1>5. ASSUME NEW w \in Workers, worker[w].at # "idle", Leave(w), UNCHANGED record PROVE OnceOK'
    <2>1. PICK k \in Instances : k = NextOf(w) /\ k.at \in {"idle", "get"}
      BY <1>5, LeavesWith
    <2> QED BY <1>2, <1>5, <2>1 DEF Leave
  <1>6. ASSUME NEW w \in Workers, Receive(w) PROVE OnceOK'
    <2>1. PICK B \in SUBSET Messages :
            /\ \A m \in B : job[m] = "visible"
            /\ worker' = [worker EXCEPT ![w].at = "get", ![w].batch = [m \in B |-> receives[m] + 1]]
      BY <1>6 DEF Receive
    <2>2. PICK batch : batch = [m \in B |-> receives[m] + 1]
      OBVIOUS
    <2>3. batch \in Batches
      <3>1. \A m \in B : LineOK(m)
        BY DEF OInv
      <3>2. receives \in [Messages -> 0 .. MaxReceives]
        BY DEF OInv, TypesOK
      <3>3. \A m \in B : receives[m] < MaxReceives
        BY <2>1, <3>1 DEF LineOK
      <3>4. \A m \in B : receives[m] + 1 \in 0 .. MaxReceives
        BY <3>2, <3>3, LimitsAssumption
      <3> QED BY <2>2, <3>4 DEF Batches
    <2>4. PICK k \in Instances : worker' = [worker EXCEPT ![w] = k] /\ k.at = "get"
      <3>1. worker' = [worker EXCEPT ![w].at = "get", ![w].batch = batch]
        BY <2>1, <2>2, Zenon
      <3> QED BY <2>3, <3>1, ReceiveIs
    <2>5. UNCHANGED record
      BY <1>6 DEF Receive, twilio
    <2> QED BY <1>2, <2>4, <2>5
  <1>7. ASSUME NEW w \in Workers, Get(w) PROVE OnceOK'
    <2>1. PICK l \in Lines : l = line[Current(w)]
      BY <1>7, InHandIs DEF Get, At
    <2>2. PICK at \in Steps \ {"create"} :
            at = IF l.sid # NoSid THEN "repoint"
                 ELSE IF l.status \in {"queued", "sending"} THEN "claim" ELSE "delete"
      BY DEF Steps
    <2>3. Gotten(w, l, at)
      BY <1>7, <2>1, <2>2, Zenon DEF Get, Gotten
    <2>4. PICK k \in Instances : worker' = [worker EXCEPT ![w] = k] /\ k.at = at
      BY <2>2, <2>3, GetIs
    <2>5. UNCHANGED record
      BY <1>7, Zenon DEF Get, twilio
    <2> QED BY <1>2, <2>2, <2>4, <2>5
  <1>8. ASSUME NEW w \in Workers, ListFinds(w) PROVE OnceOK'
    <2>1. PICK s \in Sids : worker' = [worker EXCEPT ![w].at = "point", ![w].sid = s, ![w].status = record[s]]
      BY <1>8 DEF ListFinds, Matches, SameText, Sent
    <2>2. PICK status \in Statuses : status = record[s]
      BY RankIs DEF OInv, TypesOK
    <2>3. Found(w, s, status)
      BY <2>1, <2>2, Zenon DEF Found
    <2>4. PICK k \in Instances : worker' = [worker EXCEPT ![w] = k] /\ k.at = "point"
      BY <2>3, FoundIs
    <2>5. UNCHANGED record
      BY <1>8, Zenon DEF ListFinds, twilio
    <2> QED BY <1>2, <2>4, <2>5
  <1>9. ASSUME NEW w \in Workers,
               \/ Repoint(w) \/ ClaimLost(w) \/ CreateRefused(w) \/ MarkFailed(w) \/ Point(w)
               \/ Attach(w) \/ ApplyStatus(w)
        PROVE  OnceOK'
    <2>1. UNCHANGED record
      BY <1>9 DEF Repoint, ClaimLost, CreateRefused, MarkFailed, Point, Attach, ApplyStatus, twilio
    <2>2. \E step \in {"delete", "list", "refused", "attach", "status"} : Goes(w, step)
      BY <1>9 DEF Repoint, ClaimLost, AfterLostClaim, CreateRefused, MarkFailed, Point, Attach, ApplyStatus
    <2> QED BY <1>3, <2>1, <2>2 DEF Steps
  <1>10. ASSUME NEW w \in Workers, Delete(w) \/ Throw(w) PROVE OnceOK'
    BY <1>5, <1>10 DEF Delete, Throw, At, Handling, twilio
  <1>11. ASSUME NEW w \in Workers, Crash(w) PROVE OnceOK'
    <2>1. Resting \in Instances /\ Resting.at # "create" /\ worker' = [worker EXCEPT ![w] = Resting]
      BY <1>11, RestingIs DEF Crash, Resting
    <2>2. UNCHANGED record
      BY <1>11 DEF Crash, twilio
    <2> QED BY <1>2, <2>1, <2>2
  <1>12. ASSUME NEW w \in Workers, Claim(w) PROVE OnceOK'
    <2>1. PICK m \in Messages : m = Current(w) /\ ~line[m].started
      BY <1>12, InHandIs DEF Claim, At, Claimable
    <2>2. \A v \in Workers : ~Sending(v, m)
      BY <2>1 DEF Sending, OInv, HandsOK, HandOK
    <2>3. \A s \in Sent : origin[s] # m
      BY <2>1 DEF OInv, LogOK
    <2>4. Goes(w, "create") /\ worker[w].at = "claim" /\ UNCHANGED record
      BY <1>12 DEF Claim, At, twilio
    <2> QED BY <1>4, <2>1, <2>2, <2>3, <2>4
  <1>13. ASSUME NEW w \in Workers, ListFails(w) PROVE OnceOK'
    <2>1. PICK m \in Messages : m = Current(w)
      BY <1>13, InHandIs DEF ListFails, At
    <2>2. m \in Unseen'
      BY <1>13, <2>1 DEF ListFails, Unseen
    <2>3. Goes(w, "create") /\ worker[w].at = "list" /\ UNCHANGED record
      BY <1>13 DEF ListFails, At, twilio
    <2> QED BY <1>4, <2>1, <2>2, <2>3
  <1>14. ASSUME NEW w \in Workers, ListFindsNothing(w) PROVE OnceOK'
    <2>1. PICK m \in Messages : m = Current(w)
      BY <1>14, InHandIs DEF ListFindsNothing, At
    <2>2. ASSUME NEW v \in Workers \ {w}, Sending(v, m) PROVE m \in Unseen'
      <3>1. Handling(v) /\ At(v, "create") /\ Current(v) = m
        BY <2>2, InHandIs DEF Sending, Handling, At
      <3> QED BY <1>14, <2>1, <3>1 DEF ListFindsNothing, Unseen
    <2>3. ASSUME NEW s \in Sent, origin[s] = m PROVE FALSE
      <3>1. PICK n \in Nat : n = Newest /\ Sent = 1 .. n
        BY LimitsAssumption DEF OInv, LogOK
      <3>2. SameText(m) \in SUBSET (1 .. n) /\ s \in SameText(m)
        BY <2>3, <3>1 DEF SameText
      <3>3. PICK x \in SameText(m) : \A y \in SameText(m) : y <= x
        BY <3>1, <3>2, Greatest
      <3>4. x \in Matches(m)
        BY <3>3 DEF Matches
      <3>5. x <= since[m]
        BY <1>14, <2>1, <3>4 DEF ListFindsNothing
      <3>6. since[m] < s /\ s <= x
        BY <2>3, <3>2, <3>3 DEF OInv, LogOK
      <3>7. x \in Nat /\ s \in Nat /\ since[m] \in Nat
        <4>1. since \in [Messages -> 0 .. MaxSends]
          BY DEF OInv, TypesOK
        <4> QED BY <3>1, <3>2, <3>3, <4>1
      <3> QED BY <3>5, <3>6, <3>7
    <2>4. Goes(w, "create") /\ worker[w].at = "list" /\ UNCHANGED record
      BY <1>14 DEF ListFindsNothing, At, twilio
    <2> QED BY <1>4, <2>1, <2>2, <2>3, <2>4
  <1>15. ASSUME NEW w \in Workers, worker[w].at = "create", TwilioTakes(Current(w)), since' = since,
                NEW k \in Instances, worker' = [worker EXCEPT ![w] = k], k.at # "create"
         PROVE  OnceOK'
    <2>1. PICK m \in Messages : /\ m = Current(w) /\ m = First(worker[w].batch)
                                /\ submit[m] # "new" /\ line[m].started
      BY <1>15, InHandIs DEF HandOK
    <2>2. Sending(w, m)
      BY <1>15, <2>1 DEF Sending
    <2>3. \A v \in Workers : \A n : Sending(v, n)' => v # w /\ Sending(v, n)
      BY <1>15, SendingIs
    <2> QED BY <1>15, <2>1, <2>2, <2>3, OnceSent
  <1>16. ASSUME NEW w \in Workers, Create(w) PROVE OnceOK'
    <2>1. worker[w].at = "create" /\ TwilioTakes(Current(w)) /\ UNCHANGED history
      BY <1>16, Zenon DEF Create, At
    <2>2. Current(w) \in Messages /\ submit[Current(w)] # "new" /\ line[Current(w)].started
      BY <2>1, InHandIs DEF HandOK
    <2>3. PICK s \in Sids : s = Newest + 1
      BY <2>1, <2>2, LogGrows DEF history
    <2>4. Found(w, s, "queued")
      BY <1>16, <2>3, Zenon DEF Create, Found
    <2>5. PICK k \in Instances : worker' = [worker EXCEPT ![w] = k] /\ k.at = "point"
      BY <2>4, RankIs, FoundIs
    <2> QED BY <1>15, <2>1, <2>5 DEF history
  <1>17. ASSUME NEW w \in Workers, CreateUnanswered(w) PROVE OnceOK'
    <2>1. worker[w].at = "create" /\ TwilioTakes(Current(w)) /\ Leave(w) /\ since' = since
      BY <1>17 DEF CreateUnanswered, At, history
    <2>2. PICK k \in Instances : k = NextOf(w) /\ k.at \in {"idle", "get"}
      BY <2>1, LeavesWith
    <2> QED BY <1>15, <2>1, <2>2 DEF Leave
  <1>18. ASSUME NEW n \in Messages,
                \/ AppendOutbound(n) \/ Enqueue(n) \/ EnqueueFails(n) \/ MarkEnqueueFailed(n)
                \/ AcceptDies(n) \/ Expire(n)
         PROVE  OnceOK'
    BY <1>1, <1>18 DEF AppendOutbound, Enqueue, EnqueueFails, MarkEnqueueFailed, AcceptDies, Expire, twilio
  <1>19. ASSUME NEW s \in Sids, Progress(s) PROVE OnceOK'
    <2>1. worker' = worker /\ record[s] # "none"
      BY <1>19 DEF Progress
    <2>2. \A r \in Sids : r # s => record'[r] = record[r]
      BY <1>19 DEF Progress, OInv, TypesOK
    <2>3. Sent' \subseteq Sent
      BY <2>1, <2>2 DEF Sent
    <2>4. \A v \in Workers : \A m : Sending(v, m)' => Sending(v, m)
      BY <2>1 DEF Sending
    <2> QED BY <2>3, <2>4, OnceSame
  <1>20. ASSUME NEW s \in Sids, StatusCallback(s) \/ Reconcile(s) PROVE OnceOK'
    BY <1>1, <1>20 DEF StatusCallback, Reconcile, SyncKnown, Hears, Adopt, Insert, Unpointed, twilio
  <1>21. CASE AdoptStatus \/ AdoptPointer \/ ReconcileDies \/ UNCHANGED vars
    BY <1>1, <1>21 DEF AdoptStatus, AdoptPointer, ReconcileDies, vars, twilio
  <1> QED BY <1>6, <1>7, <1>8, <1>9, <1>10, <1>11, <1>12, <1>13, <1>14, <1>16, <1>17, <1>18, <1>19, <1>20, <1>21
          DEF Next, Accepting, Working, Process, Reporting

---------------------------------------------------------------------------
(* The invariant holds at first and is kept. *)

LEMMA InitOutbound == Init => OInv
  <1> SUFFICES ASSUME Init PROVE OInv
    OBVIOUS
  <1>0. /\ Sids = 1 .. MaxSends /\ MaxSends \in Nat /\ MaxFaults \in Nat /\ MaxReceives \in Nat
    BY LimitsAssumption DEF Sids
  <1>1. Sent = {} /\ Newest = 0
    <2>1. Sent = {}
      BY DEF Init, Sent
    <2> QED BY <2>1, FS_EmptySet DEF Newest
  <1>2. NoWriting \in Lines
    BY RankIs DEF NoWriting, Lines
  <1>3. TypesOK
    <2>1. /\ text \in [Messages -> Texts] /\ line \in [Messages -> Lines]
          /\ submit \in [Messages -> {"new", "stored", "failing", "accepted", "refused", "died"}]
          /\ job \in [Messages -> {"none", "visible", "in flight", "deleted", "dead"}]
      BY <1>2 DEF Init
    <2>2. receives \in [Messages -> 0 .. MaxReceives] /\ since \in [Messages -> 0 .. MaxSends]
          /\ faults \in 0 .. MaxFaults
      BY <1>0 DEF Init
    <2>3. worker \in [Workers -> Instances]
      BY RestingIs DEF Init
    <2>4. /\ pointer \in [Sids -> Messages \cup {NoLine, Inserted}]
          /\ record \in [Sids -> {"none", "queued", "sent", "delivered", "undelivered"}]
          /\ origin \in [Sids -> Messages \cup {NoLine}]
      BY DEF Init
    <2>5. recon \in Adoptions /\ missed \subseteq Sids
      BY DEF Init, NoAdoption, Adoptions
    <2>6. blind \subseteq Messages /\ together \subseteq Messages /\ dropped \subseteq Messages
      BY DEF Init
    <2> QED BY <2>1, <2>2, <2>3, <2>4, <2>5, <2>6 DEF TypesOK
  <1>4. LogOK
    <2>1. \A m \in Messages : since[m] = 0
      BY DEF Init
    <2>2. Newest \in 0 .. MaxSends /\ Sent = 1 .. Newest
      BY <1>0, <1>1
    <2> QED BY <1>1, <2>1, <2>2 DEF LogOK
  <1>5. \A m \in Messages : LineOK(m) /\ JobOK(m)
    <2>1. NoWriting.status = "none" /\ NoWriting.sid = NoSid
      BY DEF NoWriting
    <2>2. \A m \in Messages : /\ line[m] = NoWriting /\ submit[m] = "new" /\ job[m] = "none" /\ receives[m] = 0
      BY DEF Init
    <2> QED BY <2>1, <2>2 DEF LineOK, JobOK, Shown
  <1>6. HandsOK
    <2>1. \A w \in Workers : worker[w] = Resting
      BY DEF Init
    <2> QED BY <2>1, RestingIs DEF HandsOK
  <1>7. ReconOK
    BY DEF Init, NoAdoption, ReconOK
  <1>8. PointersOK
    BY LinesAssumption DEF Init, PointersOK
  <1>9. OnceOK
    <2>1. \A w \in Workers : \A m : ~Sending(w, m)
      BY DEF Init, Sending, Resting
    <2> QED BY <1>1, <2>1 DEF OnceOK
  <1> QED BY <1>3, <1>4, <1>5, <1>6, <1>7, <1>8, <1>9 DEF OInv

LEMMA NextOutbound == OInv /\ [Next]_vars => OInv'
  <1> SUFFICES ASSUME OInv, [Next]_vars PROVE OInv'
    OBVIOUS
  <1>1. TypesOK'
    <2>1. text' \in [Messages -> Texts] /\ line' \in [Messages -> Lines]
      BY HistoryGrows, RowsMove DEF OInv, TypesOK, LinesMove
    <2>2. QueueTypes' /\ LogTypes'
      BY QueueMoves, LogMoves
    <2>3. HandTypes' /\ PointerTypes'
      BY HandsMove, PointersMove
    <2>4. ReconTypes' /\ FaultTypes'
      BY ReconMoves, FaultsMove
    <2> QED BY <2>1, <2>2, <2>3, <2>4, Zenon
            DEF TypesOK, QueueTypes, LogTypes, HandTypes, PointerTypes, ReconTypes, FaultTypes
  <1>2. LogOK'
    BY LogMoves DEF LogStep
  <1>3. \A m \in Messages : LineOK(m)' /\ JobOK(m)'
    BY LinesStayOK, JobsStayOK
  <1>4. HandsOK' /\ ReconOK' /\ PointersOK' /\ OnceOK'
    BY HandsMove, ReconMoves, PointersMove, OnceMoves
  <1> QED BY <1>1, <1>2, <1>3, <1>4, Zenon DEF OInv

LEMMA OutboundInvariant == Spec => []OInv
  BY InitOutbound, NextOutbound, PTL DEF Spec

---------------------------------------------------------------------------
(* The theorems. *)

\* Every variable of the outbound texts has its type, and a worker has lines in
\* hand exactly while it is handling them.
THEOREM OutboundTypes == Spec => []OutboundTypeOK
  <1>1. OInv => OutboundTypeOK
    <2> SUFFICES ASSUME OInv PROVE OutboundTypeOK
      OBVIOUS
    <2>1. TypesOK
      BY DEF OInv
    <2>2. ASSUME NEW w \in Workers
          PROVE  /\ worker[w].at \in Steps /\ DOMAIN worker[w].batch \subseteq Messages
                 /\ Handling(w) <=> DOMAIN worker[w].batch # {}
                 /\ worker[w].started \in BOOLEAN
                 /\ worker[w].sid \in Sids \cup {NoSid} /\ worker[w].status \in Statuses
      <3>1. PICK k \in Instances : k = worker[w] /\ HandOK(k)
        BY DEF OInv, TypesOK, HandsOK
      <3>2. DOMAIN k.batch \subseteq Messages
        BY DEF Instances, Batches
      <3>3. Handling(w) <=> DOMAIN k.batch # {}
        BY <3>1 DEF Handling, HandOK
      <3> QED BY <3>1, <3>2, <3>3 DEF Instances
    <2> QED BY <2>1, <2>2 DEF TypesOK, OutboundTypeOK, Adoptions
  <1> QED BY <1>1, OutboundInvariant, PTL

\* A text goes to Twilio twice only for a line whose log could not be read, or
\* that was looked for while another worker was sending it.
THEOREM SentOnce == Spec => []SentOnceUnlessUnseen
  <1>1. OInv => SentOnceUnlessUnseen
    <2> SUFFICES ASSUME OInv, NEW m \in Messages, m \notin blind \cup together
                 PROVE  ~(Cardinality(SendsOf(m)) > 1)
      BY DEF SentOnceUnlessUnseen
    <2>1. \A s, r \in SendsOf(m) : s = r
      BY DEF OInv, OnceOK, SendsOf, Unseen
    <2>2. CASE SendsOf(m) = {}
      BY <2>2, FS_EmptySet
    <2>3. CASE SendsOf(m) # {}
      <3>1. PICK s : SendsOf(m) = {s}
        BY <2>1, <2>3
      <3> QED BY <3>1, FS_Singleton
    <2> QED BY <2>2, <2>3
  <1> QED BY <1>1, OutboundInvariant, PTL

\* A line shown sent, delivered or undelivered stands for a text of its words
\* that Twilio reports so.
THEOREM ShownTrue == Spec => []ShownAsReported
  <1>1. OInv => ShownAsReported
    <2> SUFFICES ASSUME OInv, NEW m \in Messages, line[m].status \in {"sent", "delivered", "undelivered"}
                 PROVE  /\ line[m].sid \in Sent /\ text[origin[line[m].sid]] = text[m]
                        /\ line[m].status \in Reported(line[m].sid)
      BY DEF ShownAsReported
    <2>1. LineOK(m)
      BY DEF OInv
    <2> QED BY <2>1 DEF LineOK, Shown, Relates
  <1> QED BY <1>1, OutboundInvariant, PTL

\* A job leaves the queue only when its text is at Twilio or its line says that
\* it failed, twins and lines left to another worker apart.
THEOREM DeletedDone == Spec => []DeletedWhenDone
  <1>1. OInv => DeletedWhenDone
    BY DEF OInv, JobOK, Done, DeletedWhenDone
  <1> QED BY <1>1, OutboundInvariant, PTL

\* What the feed shows of a line only moves forward.
THEOREM FeedAdvances == Spec => FeedOnlyAdvances
  <1>1. OInv /\ [Next]_vars =>
          [\A m \in Messages :
             /\ Rank[line'[m].status] >= Rank[line[m].status]
             /\ line[m].status \in Final => line'[m].status = line[m].status
             /\ line[m].sid # NoSid => line'[m].sid = line[m].sid]_vars
    BY RowsMove DEF LinesMove, RowStep
  <1> QED BY <1>1, OutboundInvariant, PTL DEF Spec, FeedOnlyAdvances
=============================================================================
