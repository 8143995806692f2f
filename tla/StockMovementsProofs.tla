------------------------ MODULE StockMovementsProofs ------------------------
(***************************************************************************)
(* What movements of any number of lines keep, however many of them        *)
(* interleave, fail, crash or lose answers.                                *)
(*                                                                         *)
(* Consistent ties how far a movement is to the answers of its ledger      *)
(* calls, and Answered ties those to the units that moved.                 *)
(***************************************************************************)
EXTENDS StockMovements, SequenceTheorems, TLAPS

Numbers == 1 .. MaxLines
Settled == {"none", "done"} \cup Failures

---------------------------------------------------------------------------
(* The invariant. *)

LedgerTypeOK ==
    /\ balance \in [Locations -> [Products -> Int]]
    /\ asked \in [Calls -> Requests \cup {NoRequest}]
    /\ answer \in [Calls -> {"none", "open", "short", "done"} \cup Failures]
    /\ applied \subseteq Calls

PlaceTypeOK ==
    /\ at \in [Movements -> {"idle"} \cup Running \cup Ended]
    /\ job \in [Movements -> Jobs \cup {NoJob}]
    /\ line \in [Movements -> Nat]
    /\ \A m \in Movements : at[m] # "idle" => job[m] \in Jobs /\ line[m] \in DOMAIN job[m].lines

RecordTypeOK ==
    /\ why \in [Movements -> {"none", "journal"} \cup Failures]
    /\ outOfStep \in [Movements -> SUBSET Numbers]
    /\ journal \in [Movements -> {"none", "row", "row and pointer"}]
    /\ logged \in [Movements -> SUBSET Numbers]

\* A call was asked something before it was answered, and moved its units if it
\* was answered done, and only if it was answered done or with an error.
Answered ==
    \A c \in Calls :
        /\ answer[c] # "none" => asked[c] \in Requests
        /\ answer[c] = "done" => c \in applied
        /\ c \in applied => answer[c] \in {"done", "error"}

NothingAsked(m) ==
    \A i \in Numbers : answer[MoveCall(m, i)] = "none" /\ answer[UndoCall(m, i)] = "none"

\* The lines before k have moved and those after it were not begun.
MovedBefore(m, k) ==
    \A i \in Numbers :
        /\ i < k => answer[MoveCall(m, i)] = "done"
        /\ i > k => answer[MoveCall(m, i)] = "none"
        /\ answer[UndoCall(m, i)] = "none"

AllMoved(m) ==
    \A i \in Numbers :
        /\ i <= Len(job[m].lines) => answer[MoveCall(m, i)] = "done"
        /\ i > Len(job[m].lines) => answer[MoveCall(m, i)] = "none"
        /\ answer[UndoCall(m, i)] = "none"

\* Line f failed. The lines before it moved; of these, those after k were undone
\* or are out of step, and those before k were not undone yet.
UndoneAfter(m, k, f) ==
    /\ k < f
    /\ answer[MoveCall(m, f)] \in Failures
    /\ \A i \in Numbers :
         /\ i < f => answer[MoveCall(m, i)] = "done"
         /\ i > f => answer[MoveCall(m, i)] = "none"
         /\ i < k \/ i >= f => answer[UndoCall(m, i)] = "none" /\ i \notin outOfStep[m]
         /\ i = k => i \notin outOfStep[m]
         /\ k < i /\ i < f => /\ answer[UndoCall(m, i)] \in {"done"} \cup Failures
                              /\ i \in outOfStep[m] <=> answer[UndoCall(m, i)] # "done"

StocksOK(m) ==
    /\ at[m] = "idle" => NothingAsked(m)
    /\ at[m] = "move" => MovedBefore(m, line[m])
    /\ at[m] = "undo" => \E f \in Numbers : UndoneAfter(m, line[m], f)
    /\ at[m] = "failed" /\ why[m] # "journal" /\ Undoable(job[m])
           => \E f \in Numbers : UndoneAfter(m, 0, f)
    /\ at[m] \in {"journal", "pointer", "log", "created"} \/ journal[m] # "none" \/ logged[m] # {}
           => AllMoved(m)

RecordsOK(m) ==
    /\ at[m] \in {"idle", "move"} => outOfStep[m] = {}
    /\ at[m] \in {"idle", "move", "undo", "journal"} => journal[m] = "none"
    /\ at[m] \in {"idle", "move", "undo", "journal", "pointer", "log"} => logged[m] = {}
    /\ at[m] = "pointer" => job[m].add # Nowhere /\ journal[m] = "row"
    /\ at[m] \in {"log", "created"} =>
           journal[m] = IF job[m].add = Nowhere THEN "row" ELSE "row and pointer"

Consistent(m) == StocksOK(m) /\ RecordsOK(m)

IInv ==
    /\ LedgerTypeOK /\ PlaceTypeOK /\ RecordTypeOK
    /\ Answered
    /\ \A m \in Movements : Consistent(m)

---------------------------------------------------------------------------
(* Jobs and calls. *)

LEMMA JobLines ==
    ASSUME NEW j \in Jobs
    PROVE  /\ Len(j.lines) \in Numbers
           /\ DOMAIN j.lines = 1 .. Len(j.lines)
           /\ \A i \in 1 .. Len(j.lines) : i \in Numbers /\ j.lines[i] \in Products \X Quantities
<1>1. PICK n \in 1 .. MaxLines : j.lines \in [1 .. n -> Products \X Quantities]
  BY DEF Jobs, Lines
<1>2. j.lines \in Seq(Products \X Quantities)
  BY <1>1, MaxLinesAssumption, IsASeq
<1>3. DOMAIN j.lines = 1 .. n /\ DOMAIN j.lines = 1 .. Len(j.lines) /\ Len(j.lines) \in Nat
  BY <1>1, <1>2, LenProperties
<1>4. Len(j.lines) = n
  BY <1>3, MaxLinesAssumption
<1> QED BY <1>1, <1>3, <1>4, MaxLinesAssumption DEF Numbers

LEMMA Neighbours ==
    ASSUME NEW n \in Numbers, NEW k \in Numbers, k <= n
    PROVE  /\ k < n => k + 1 \in 1 .. n /\ k + 1 \in Numbers
           /\ k > 1 => k - 1 \in 1 .. n /\ k - 1 \in Numbers
           /\ k - 1 > 0 => k > 1
           /\ ~(k < n) => k = n
           /\ ~(k > 1) => k = 1
  BY MaxLinesAssumption DEF Numbers

LEMMA CallsAreApart ==
    ASSUME NEW m \in Movements, NEW i \in Numbers
    PROVE  /\ MoveCall(m, i) \in Calls /\ UndoCall(m, i) \in Calls
           /\ \A n \in Movements, k \in Numbers :
                /\ MoveCall(m, i) # UndoCall(n, k)
                /\ MoveCall(m, i) = MoveCall(n, k) => m = n /\ i = k
                /\ UndoCall(m, i) = UndoCall(n, k) => m = n /\ i = k
  BY DEF MoveCall, UndoCall, Calls, Numbers

LEMMA AskedIsRequest ==
    ASSUME NEW j \in Jobs, NEW i \in DOMAIN j.lines
    PROVE  /\ Asked(j.take, j.add, j.lines[i]) \in Requests
           /\ Asked(j.add, j.take, j.lines[i]) \in Requests
<1>1. /\ j.take \in Locations \cup {Nowhere} /\ j.add \in Locations \cup {Nowhere} /\ j.take # j.add
  BY DEF Jobs
<1>2. j.lines[i] \in Products \X Quantities
  BY JobLines
<1>3. j.lines[i][1] \in Products /\ j.lines[i][2] \in Quantities
  BY <1>2
<1> QED BY <1>1, <1>3 DEF Asked, Requests

---------------------------------------------------------------------------
(* What a step of the ledger does. *)

LEMMA AskForSteps ==
    ASSUME LedgerTypeOK, Answered, NEW c \in Calls, NEW r \in Requests, AskFor(c, r), applied' = applied
    PROVE  /\ LedgerTypeOK' /\ Answered'
           /\ answer[c] = "none" /\ answer'[c] = "open"
           /\ \A d \in Calls \ {c} : answer'[d] = answer[d]
<1> USE DEF AskFor, Becomes
<1>1. /\ answer' = [answer EXCEPT ![c] = "open"] /\ answer[c] = "none"
      /\ asked' = [asked EXCEPT ![c] = r] /\ balance' = balance
  OBVIOUS
<1>2. /\ answer'[c] = "open" /\ asked'[c] = r
      /\ \A d \in Calls \ {c} : answer'[d] = answer[d] /\ asked'[d] = asked[d]
  BY <1>1 DEF LedgerTypeOK
<1>3. LedgerTypeOK'
  BY <1>1 DEF LedgerTypeOK
<1>4. Answered'
  BY <1>1, <1>2 DEF Answered
<1> QED BY <1>1, <1>2, <1>3, <1>4

\* The units of a request move between numbers.
LEMMA MoveTypes ==
    ASSUME balance \in [Locations -> [Products -> Int]], NEW r \in Requests, Move(r)
    PROVE  balance' \in [Locations -> [Products -> Int]]
<1>1. r.product \in Products /\ r.quantity \in Int
  <2>1. r \in [take : Locations \cup {Nowhere}, add : Locations \cup {Nowhere},
              product : Products, quantity : Quantities]
    BY DEF Requests
  <2>2. r.product \in Products /\ r.quantity \in Quantities
    BY <2>1
  <2>3. Quantities \subseteq Nat
    BY MovedAssumption
  <2>4. r.quantity \in Nat
    BY <2>2, <2>3
  <2> QED BY <2>2, <2>4
<1>2. ASSUME NEW l \in Locations
      PROVE  /\ [balance[l] EXCEPT ![r.product] = @ - r.quantity] \in [Products -> Int]
             /\ [balance[l] EXCEPT ![r.product] = @ + r.quantity] \in [Products -> Int]
  <2>1. balance[l] \in [Products -> Int] /\ balance[l][r.product] \in Int
    BY <1>1
  <2>2. balance[l][r.product] - r.quantity \in Int /\ balance[l][r.product] + r.quantity \in Int
    BY <1>1, <2>1
  <2> QED BY <1>1, <2>1, <2>2
<1> QED BY <1>2 DEF Move

\* A call that is answered, noticed or abandoned was not settled.
LEMMA ReplySteps ==
    ASSUME LedgerTypeOK, Answered, NEW c \in Calls, Replies(c) \/ AbandonLine(c)
    PROVE  /\ LedgerTypeOK' /\ Answered'
           /\ UNCHANGED movement
           /\ \A d \in Calls : answer[d] \in Settled => answer'[d] = answer[d]
<1>1. PICK a \in {"short", "done", "insufficient", "conflict", "error"} :
          /\ answer' = [answer EXCEPT ![c] = a]
          /\ answer[c] \in {"open", "short"}
          /\ a = "done" => c \in applied'
          /\ a \notin {"done", "error"} => applied' = applied
          /\ applied' \in {applied, applied \cup {c}}
  BY DEF Replies, SettleLine, RefuseLine, AbandonLine, Settle, NoticeShortage, ReportShortage,
         Abandon, Becomes
<1>2. asked' = asked /\ UNCHANGED movement
  BY DEF Replies, SettleLine, RefuseLine, AbandonLine, Settle, NoticeShortage, ReportShortage, Abandon
<1>3. /\ answer'[c] = a
      /\ \A d \in Calls \ {c} : answer'[d] = answer[d]
  BY <1>1 DEF LedgerTypeOK
<1>4. balance' \in [Locations -> [Products -> Int]]
  <2>1. CASE balance' = balance
    BY <2>1 DEF LedgerTypeOK
  <2>2. CASE Move(asked[c])
    <3>1. asked[c] \in Requests
      BY <1>1 DEF Answered
    <3> QED BY <2>2, <3>1, MoveTypes DEF LedgerTypeOK
  <2> QED BY <2>1, <2>2 DEF Replies, SettleLine, RefuseLine, AbandonLine, Settle, NoticeShortage,
             ReportShortage, Abandon
<1>5. LedgerTypeOK'
  <2>1. answer' \in [Calls -> {"none", "open", "short", "done"} \cup Failures]
    BY <1>1 DEF LedgerTypeOK, Failures
  <2> QED BY <1>1, <1>2, <1>4, <2>1 DEF LedgerTypeOK
<1>6. Answered'
  <2> SUFFICES ASSUME NEW d \in Calls
               PROVE  (/\ answer[d] # "none" => asked[d] \in Requests
                       /\ answer[d] = "done" => d \in applied
                       /\ d \in applied => answer[d] \in {"done", "error"})'
    BY DEF Answered
  <2>1. CASE d = c
    BY <2>1, <1>1, <1>2, <1>3 DEF Answered
  <2>2. CASE d # c
    BY <2>2, <1>1, <1>2, <1>3 DEF Answered
  <2> QED BY <2>1, <2>2
<1>7. \A d \in Calls : answer[d] \in Settled => answer'[d] = answer[d]
  BY <1>1, <1>3 DEF Settled, Failures
<1> QED BY <1>2, <1>5, <1>6, <1>7

---------------------------------------------------------------------------
(* A movement that does not step stays consistent. *)

Untouched(m) ==
    /\ at'[m] = at[m] /\ job'[m] = job[m] /\ line'[m] = line[m] /\ why'[m] = why[m]
    /\ outOfStep'[m] = outOfStep[m] /\ journal'[m] = journal[m] /\ logged'[m] = logged[m]
    /\ \A i \in Numbers :
         /\ answer[MoveCall(m, i)] \in Settled => answer'[MoveCall(m, i)] = answer[MoveCall(m, i)]
         /\ answer[UndoCall(m, i)] \in Settled => answer'[UndoCall(m, i)] = answer[UndoCall(m, i)]

LEMMA UntouchedConsistent ==
    ASSUME NEW m \in Movements, Consistent(m), Untouched(m)
    PROVE  Consistent(m)'
<1>1. NothingAsked(m) => NothingAsked(m)'
  BY DEF NothingAsked, Untouched, Settled
<1>2. MovedBefore(m, line[m]) => MovedBefore(m, line[m])'
  BY DEF MovedBefore, Untouched, Settled
<1>3. AllMoved(m) => AllMoved(m)'
  BY DEF AllMoved, Untouched, Settled
<1>4. ASSUME NEW k, NEW f \in Numbers, UndoneAfter(m, k, f)
      PROVE  UndoneAfter(m, k, f)'
  BY <1>4 DEF UndoneAfter, Untouched, Settled
<1>5. StocksOK(m)'
  BY <1>1, <1>2, <1>3, <1>4 DEF Consistent, StocksOK, Untouched, Undoable
<1>6. RecordsOK(m)'
  BY DEF Consistent, RecordsOK, Untouched
<1> QED BY <1>5, <1>6 DEF Consistent

\* A step of m: nothing of another movement changes, and the ledger is left alone
\* or asked one thing for m.
StepOf(m) ==
    /\ \A n \in Movements \ {m} :
         /\ at'[n] = at[n] /\ job'[n] = job[n] /\ line'[n] = line[n] /\ why'[n] = why[n]
         /\ outOfStep'[n] = outOfStep[n] /\ journal'[n] = journal[n] /\ logged'[n] = logged[n]
    /\ applied' = applied
    /\ \/ UNCHANGED <<balance, asked, answer>>
       \/ \E c \in Calls, r \in Requests : c[1] = m /\ AskFor(c, r)

LEMMA StepKeepsInvariant ==
    ASSUME IInv, NEW m \in Movements, StepOf(m), PlaceTypeOK', RecordTypeOK', Consistent(m)'
    PROVE  IInv'
<1>1. CASE UNCHANGED <<balance, asked, answer>>
  <2>1. LedgerTypeOK' /\ Answered'
    BY <1>1 DEF IInv, StepOf, LedgerTypeOK, Answered
  <2>2. ASSUME NEW n \in Movements \ {m} PROVE Consistent(n)'
    <3>1. Untouched(n)
      BY <1>1 DEF StepOf, Untouched
    <3> QED BY <3>1, UntouchedConsistent DEF IInv
  <2> QED BY <2>1, <2>2 DEF IInv
<1>2. ASSUME NEW c \in Calls, NEW r \in Requests, c[1] = m, AskFor(c, r) PROVE IInv'
  <2>1. LedgerTypeOK' /\ Answered' /\ \A d \in Calls \ {c} : answer'[d] = answer[d]
    BY <1>2, AskForSteps DEF IInv, StepOf
  <2>2. ASSUME NEW n \in Movements \ {m} PROVE Consistent(n)'
    <3>1. ASSUME NEW i \in Numbers
          PROVE  answer'[MoveCall(n, i)] = answer[MoveCall(n, i)] /\ answer'[UndoCall(n, i)] = answer[UndoCall(n, i)]
      <4>1. MoveCall(n, i)[1] = n /\ UndoCall(n, i)[1] = n
        BY DEF MoveCall, UndoCall
      <4> QED BY <1>2, <2>1, <4>1, CallsAreApart
    <3>2. Untouched(n)
      BY <3>1 DEF StepOf, Untouched
    <3> QED BY <3>2, UntouchedConsistent DEF IInv
  <2> QED BY <2>1, <2>2 DEF IInv
<1> QED BY <1>1, <1>2 DEF StepOf

\* To ask for the move or the undo of a line changes the answer of that call alone.
LEMMA MoveLineFacts ==
    ASSUME IInv, NEW m \in Movements, NEW j \in Jobs, NEW i \in DOMAIN j.lines, MoveLine(m, j, i),
           applied' = applied
    PROVE  /\ \E c \in Calls, r \in Requests : c[1] = m /\ AskFor(c, r)
           /\ answer'[MoveCall(m, i)] = "open"
           /\ \A k \in Numbers : /\ k # i => answer'[MoveCall(m, k)] = answer[MoveCall(m, k)]
                                 /\ answer'[UndoCall(m, k)] = answer[UndoCall(m, k)]
<1>1. i \in Numbers
  BY JobLines
<1>2. /\ MoveCall(m, i) \in Calls /\ MoveCall(m, i)[1] = m
      /\ Asked(j.take, j.add, j.lines[i]) \in Requests
  BY <1>1, CallsAreApart, AskedIsRequest DEF MoveCall
<1>3. AskFor(MoveCall(m, i), Asked(j.take, j.add, j.lines[i]))
  BY DEF MoveLine
<1>4. answer'[MoveCall(m, i)] = "open" /\ \A d \in Calls \ {MoveCall(m, i)} : answer'[d] = answer[d]
  BY <1>2, <1>3, AskForSteps DEF IInv
<1>5. ASSUME NEW k \in Numbers
      PROVE  /\ k # i => answer'[MoveCall(m, k)] = answer[MoveCall(m, k)]
             /\ answer'[UndoCall(m, k)] = answer[UndoCall(m, k)]
  BY <1>1, <1>4, CallsAreApart
<1> QED BY <1>2, <1>3, <1>4, <1>5

LEMMA UndoLineFacts ==
    ASSUME IInv, NEW m \in Movements, NEW j \in Jobs, NEW i \in DOMAIN j.lines, UndoLine(m, j, i),
           applied' = applied
    PROVE  /\ \E c \in Calls, r \in Requests : c[1] = m /\ AskFor(c, r)
           /\ answer'[UndoCall(m, i)] = "open"
           /\ \A k \in Numbers : /\ k # i => answer'[UndoCall(m, k)] = answer[UndoCall(m, k)]
                                 /\ answer'[MoveCall(m, k)] = answer[MoveCall(m, k)]
<1>1. i \in Numbers
  BY JobLines
<1>2. /\ UndoCall(m, i) \in Calls /\ UndoCall(m, i)[1] = m
      /\ Asked(j.add, j.take, j.lines[i]) \in Requests
  BY <1>1, CallsAreApart, AskedIsRequest DEF UndoCall
<1>3. AskFor(UndoCall(m, i), Asked(j.add, j.take, j.lines[i]))
  BY DEF UndoLine
<1>4. answer'[UndoCall(m, i)] = "open" /\ \A d \in Calls \ {UndoCall(m, i)} : answer'[d] = answer[d]
  BY <1>2, <1>3, AskForSteps DEF IInv
<1>5. ASSUME NEW k \in Numbers
      PROVE  /\ k # i => answer'[UndoCall(m, k)] = answer[UndoCall(m, k)]
             /\ answer'[MoveCall(m, k)] = answer[MoveCall(m, k)]
  BY <1>1, <1>4, CallsAreApart
<1> QED BY <1>2, <1>3, <1>4, <1>5

LEMMA JobOf ==
    ASSUME PlaceTypeOK, NEW m \in Movements, at[m] # "idle"
    PROVE  /\ job[m] \in Jobs /\ line[m] \in DOMAIN job[m].lines
           /\ Len(job[m].lines) \in Numbers /\ DOMAIN job[m].lines = 1 .. Len(job[m].lines)
           /\ line[m] \in Numbers /\ line[m] <= Len(job[m].lines)
<1>1. job[m] \in Jobs /\ line[m] \in DOMAIN job[m].lines
  BY DEF PlaceTypeOK
<1>2. Len(job[m].lines) \in Numbers /\ DOMAIN job[m].lines = 1 .. Len(job[m].lines)
  BY <1>1, JobLines
<1> QED BY <1>1, <1>2, MaxLinesAssumption DEF Numbers

---------------------------------------------------------------------------
(* The steps of a movement, and its crash. *)

LEMMA BeginStep ==
    ASSUME IInv, NEW m \in Movements, Begin(m) PROVE IInv'
<1> USE DEF Begin, IInv
<1>1. PICK j \in Jobs : job' = [job EXCEPT ![m] = j] /\ MoveLine(m, j, 1)
  OBVIOUS
<1>2. 1 \in DOMAIN j.lines /\ 1 \in Numbers
  BY JobLines, MaxLinesAssumption DEF Numbers
<1>3. /\ at'[m] = "move" /\ line'[m] = 1 /\ job'[m] = j
      /\ UNCHANGED <<why, outOfStep, journal, logged>>
  BY <1>1 DEF PlaceTypeOK
<1>4. /\ \E c \in Calls, r \in Requests : c[1] = m /\ AskFor(c, r)
      /\ \A k \in Numbers : /\ k # 1 => answer'[MoveCall(m, k)] = answer[MoveCall(m, k)]
                            /\ answer'[UndoCall(m, k)] = answer[UndoCall(m, k)]
  BY <1>1, <1>2, MoveLineFacts
<1>5. StepOf(m)
  BY <1>1, <1>4 DEF StepOf, PlaceTypeOK
<1>6. PlaceTypeOK'
  BY <1>1, <1>2 DEF PlaceTypeOK, Running
<1>7. RecordTypeOK'
  BY <1>3 DEF RecordTypeOK
<1>8. NothingAsked(m) /\ outOfStep[m] = {} /\ journal[m] = "none" /\ logged[m] = {}
  BY DEF Consistent, StocksOK, RecordsOK
<1>9. MovedBefore(m, 1)'
  BY <1>4, <1>8 DEF MovedBefore, NothingAsked, Numbers
<1>10. Consistent(m)'
  BY <1>3, <1>8, <1>9 DEF Consistent, StocksOK, RecordsOK
<1> HIDE DEF Begin, IInv
<1> QED BY <1>5, <1>6, <1>7, <1>10, StepKeepsInvariant

LEMMA LineMovedStep ==
    ASSUME IInv, NEW m \in Movements, LineMoved(m) PROVE IInv'
<1> USE DEF LineMoved, LastLine, IInv
<1>0. PICK k \in Numbers : k = line[m]
  BY JobOf
<1>1. /\ job[m] \in Jobs /\ Len(job[m].lines) \in Numbers /\ DOMAIN job[m].lines = 1 .. Len(job[m].lines)
      /\ k = line[m] /\ k \in Numbers /\ k <= Len(job[m].lines)
  BY <1>0, JobOf
<1>2. /\ MovedBefore(m, k) /\ answer[MoveCall(m, k)] = "done"
      /\ outOfStep[m] = {} /\ journal[m] = "none" /\ logged[m] = {}
  BY <1>0 DEF Consistent, StocksOK, RecordsOK
<1>3. RecordTypeOK'
  BY DEF RecordTypeOK
<1>4. CASE k < Len(job[m].lines)
  <2>1. k + 1 \in DOMAIN job[m].lines /\ k + 1 \in Numbers
    BY <1>1, <1>4, Neighbours
  <2>2. MoveLine(m, job[m], k + 1) /\ line' = [line EXCEPT ![m] = k + 1] /\ at' = at /\ job' = job
    BY <1>0, <1>4
  <2>3. /\ \E c \in Calls, r \in Requests : c[1] = m /\ AskFor(c, r)
        /\ \A i \in Numbers : /\ i # k + 1 => answer'[MoveCall(m, i)] = answer[MoveCall(m, i)]
                              /\ answer'[UndoCall(m, i)] = answer[UndoCall(m, i)]
    BY <1>1, <2>1, <2>2, MoveLineFacts
  <2>4. StepOf(m)
    BY <2>2, <2>3 DEF StepOf, PlaceTypeOK
  <2>5. PlaceTypeOK'
    BY <2>1, <2>2 DEF PlaceTypeOK, Numbers
  <2>6. /\ line'[m] = k + 1 /\ at'[m] = "move"
        /\ UNCHANGED <<outOfStep, journal, logged>>
    BY <2>2 DEF PlaceTypeOK
  <2> HIDE DEF LineMoved, IInv
  <2>7. ASSUME NEW i \in Numbers
        PROVE  (/\ i < k + 1 => answer[MoveCall(m, i)] = "done"
                /\ i > k + 1 => answer[MoveCall(m, i)] = "none"
                /\ answer[UndoCall(m, i)] = "none")'
    <3>1. CASE i < k
      BY <3>1, <1>1, <1>2, <2>2, <2>3 DEF MovedBefore, Numbers
    <3>2. CASE i = k
      BY <3>2, <1>1, <1>2, <2>2, <2>3 DEF MovedBefore, Numbers
    <3>3. CASE i > k
      BY <3>3, <1>1, <1>2, <2>2, <2>3 DEF MovedBefore, Numbers
    <3> QED BY <1>1, <3>1, <3>2, <3>3 DEF Numbers
  <2>8. Consistent(m)'
    <3>1. MovedBefore(m, line[m])'
      BY <2>6, <2>7 DEF MovedBefore
    <3>2. outOfStep'[m] = {} /\ journal'[m] = "none" /\ logged'[m] = {}
      BY <1>2, <2>6
    <3> QED BY <2>6, <3>1, <3>2 DEF Consistent, StocksOK, RecordsOK
  <2> QED BY <1>3, <2>4, <2>5, <2>8, StepKeepsInvariant
<1>5. CASE ~(k < Len(job[m].lines))
  <2>1. at' = [at EXCEPT ![m] = "journal"] /\ UNCHANGED <<line, job, balance, asked, answer>>
    BY <1>0, <1>5
  <2>2. k = Len(job[m].lines)
    BY <1>1, <1>5 DEF Numbers
  <2>3. StepOf(m)
    BY <2>1 DEF StepOf, PlaceTypeOK
  <2>4. PlaceTypeOK'
    BY <2>1 DEF PlaceTypeOK, Running
  <2>5. AllMoved(m)
    BY <1>1, <1>2, <2>2 DEF MovedBefore, AllMoved, Numbers
  <2>6. Consistent(m)'
    BY <1>2, <2>1, <2>5 DEF Consistent, StocksOK, RecordsOK, AllMoved, PlaceTypeOK
  <2> HIDE DEF LineMoved, IInv
  <2> QED BY <1>3, <2>3, <2>4, <2>6, StepKeepsInvariant
<1> QED BY <1>4, <1>5

LEMMA LineFailedStep ==
    ASSUME IInv, NEW m \in Movements, LineFailed(m) PROVE IInv'
<1> USE DEF LineFailed, LastDone, IInv
<1>0. PICK k \in Numbers : k = line[m]
  BY JobOf
<1>1. /\ job[m] \in Jobs /\ Len(job[m].lines) \in Numbers /\ DOMAIN job[m].lines = 1 .. Len(job[m].lines)
      /\ k = line[m] /\ k \in Numbers /\ k <= Len(job[m].lines)
  BY <1>0, JobOf
<1>2. /\ MovedBefore(m, k) /\ answer[MoveCall(m, k)] \in Failures
      /\ outOfStep[m] = {} /\ journal[m] = "none" /\ logged[m] = {}
  BY <1>0 DEF Consistent, StocksOK, RecordsOK
<1>3. RecordTypeOK' /\ why'[m] \in Failures
  BY <1>0, <1>2 DEF RecordTypeOK
<1>4. CASE Undoable(job[m]) /\ k - 1 > 0
  <2>1. k - 1 \in DOMAIN job[m].lines /\ k - 1 \in Numbers
    BY <1>1, <1>4, Neighbours
  <2>2. /\ UndoLine(m, job[m], k - 1) /\ line' = [line EXCEPT ![m] = k - 1]
        /\ at' = [at EXCEPT ![m] = "undo"] /\ job' = job /\ UNCHANGED <<outOfStep, journal, logged>>
    BY <1>0, <1>4
  <2>3. /\ \E c \in Calls, r \in Requests : c[1] = m /\ AskFor(c, r)
        /\ \A i \in Numbers : /\ i # k - 1 => answer'[UndoCall(m, i)] = answer[UndoCall(m, i)]
                              /\ answer'[MoveCall(m, i)] = answer[MoveCall(m, i)]
    BY <1>1, <2>1, <2>2, UndoLineFacts
  <2>4. StepOf(m)
    BY <2>2, <2>3 DEF StepOf, PlaceTypeOK, RecordTypeOK
  <2>5. PlaceTypeOK'
    BY <2>1, <2>2 DEF PlaceTypeOK, Numbers, Running
  <2>6. line'[m] = k - 1 /\ at'[m] = "undo"
    BY <2>2 DEF PlaceTypeOK
  <2> HIDE DEF LineFailed, IInv
  <2>7. UndoneAfter(m, k - 1, k)'
    <3>1. k - 1 < k /\ answer'[MoveCall(m, k)] \in Failures
      BY <1>1, <1>2, <2>3 DEF Numbers
    <3>2. ASSUME NEW i \in Numbers
          PROVE  (/\ i < k => answer[MoveCall(m, i)] = "done"
                  /\ i > k => answer[MoveCall(m, i)] = "none"
                  /\ i # k - 1 => answer[UndoCall(m, i)] = "none"
                  /\ i \notin outOfStep[m])'
      BY <1>2, <2>2, <2>3 DEF MovedBefore
    <3>3. ASSUME NEW i \in Numbers
          PROVE  /\ i < k - 1 \/ i >= k => i # k - 1
                 /\ ~(k - 1 < i /\ i < k)
      BY DEF Numbers
    <3> QED BY <3>1, <3>2, <3>3 DEF UndoneAfter
  <2>8. Consistent(m)'
    <3>1. \E f \in Numbers : UndoneAfter(m, line[m], f)'
      BY <1>1, <2>6, <2>7 DEF UndoneAfter
    <3>2. journal'[m] = "none" /\ logged'[m] = {}
      BY <1>2, <2>2
    <3> QED BY <2>6, <3>1, <3>2 DEF Consistent, StocksOK, RecordsOK
  <2> QED BY <1>3, <2>4, <2>5, <2>8, StepKeepsInvariant
<1>5. CASE ~(Undoable(job[m]) /\ k - 1 > 0)
  <2>1. /\ at' = [at EXCEPT ![m] = "failed"]
        /\ UNCHANGED <<line, job, balance, asked, answer, outOfStep, journal, logged>>
    BY <1>0, <1>5
  <2>2. StepOf(m)
    BY <2>1 DEF StepOf, PlaceTypeOK, RecordTypeOK
  <2>3. PlaceTypeOK'
    BY <2>1 DEF PlaceTypeOK, Ended
  <2>4. at'[m] = "failed"
    BY <2>1 DEF PlaceTypeOK
  <2>5. Undoable(job[m]) => UndoneAfter(m, 0, k)'
    <3>1. Undoable(job[m]) => k = 1
      BY <1>1, <1>5 DEF Numbers
    <3> QED BY <1>1, <1>2, <2>1, <3>1 DEF UndoneAfter, MovedBefore, Numbers
  <2>6. Consistent(m)'
    BY <1>1, <1>2, <2>1, <2>4, <2>5 DEF Consistent, StocksOK, RecordsOK
  <2> HIDE DEF LineFailed, IInv
  <2> QED BY <1>3, <2>2, <2>3, <2>6, StepKeepsInvariant
<1> QED BY <1>4, <1>5

LEMMA LineUndoneStep ==
    ASSUME IInv, NEW m \in Movements, LineUndone(m) PROVE IInv'
<1> USE DEF LineUndone, UndoAnswered, MoreToUndo, IInv
<1>0. PICK k \in Numbers : k = line[m]
  BY JobOf
<1>1. /\ job[m] \in Jobs /\ Len(job[m].lines) \in Numbers /\ DOMAIN job[m].lines = 1 .. Len(job[m].lines)
      /\ k = line[m] /\ k \in Numbers /\ k <= Len(job[m].lines)
  BY <1>0, JobOf
<1>2. PICK f \in Numbers : UndoneAfter(m, k, f)
  BY <1>0 DEF Consistent, StocksOK
<1>3. journal[m] = "none" /\ logged[m] = {} /\ UNCHANGED <<journal, logged, job, why>>
  BY DEF Consistent, RecordsOK
<1>4. RecordTypeOK'
  BY <1>1, <1>0 DEF RecordTypeOK
<1>5. /\ answer[UndoCall(m, k)] \in {"done"} \cup Failures
      /\ outOfStep'[m] = IF answer[UndoCall(m, k)] = "done" THEN outOfStep[m] ELSE outOfStep[m] \cup {k}
      /\ \A n \in Movements \ {m} : outOfStep'[n] = outOfStep[n]
  BY <1>0 DEF RecordTypeOK
<1>6. ASSUME \A i \in Numbers : answer'[MoveCall(m, i)] = answer[MoveCall(m, i)],
             \A i \in Numbers : i # k - 1 => answer'[UndoCall(m, i)] = answer[UndoCall(m, i)]
      PROVE  UndoneAfter(m, k - 1, f)'
  <2>1. k - 1 < f /\ answer'[MoveCall(m, f)] \in Failures
    BY <1>1, <1>2, <1>6 DEF UndoneAfter, Numbers
  <2>2. ASSUME NEW i \in Numbers
        PROVE  (/\ i < f => answer[MoveCall(m, i)] = "done"
                /\ i > f => answer[MoveCall(m, i)] = "none")'
    BY <1>2, <1>6 DEF UndoneAfter
  <2>3. ASSUME NEW i \in Numbers, i < k - 1 \/ i >= f
        PROVE  (answer[UndoCall(m, i)] = "none" /\ i \notin outOfStep[m])'
    <3>1. i # k /\ i # k - 1 /\ (i < k \/ i >= f)
      BY <2>3, <1>1, <1>2 DEF UndoneAfter, Numbers
    <3> QED BY <3>1, <1>2, <1>5, <1>6 DEF UndoneAfter
  <2>4. ASSUME NEW i \in Numbers, i = k - 1 PROVE i \notin outOfStep'[m]
    <3>1. i # k /\ i < k
      BY <2>4, <1>1 DEF Numbers
    <3> QED BY <3>1, <1>2, <1>5 DEF UndoneAfter
  <2>5. ASSUME NEW i \in Numbers, k - 1 < i, i < f
        PROVE  (/\ answer[UndoCall(m, i)] \in {"done"} \cup Failures
                /\ i \in outOfStep[m] <=> answer[UndoCall(m, i)] # "done")'
    <3>1. i # k - 1 /\ (i = k \/ k < i)
      BY <2>5, <1>1 DEF Numbers
    <3>2. CASE i = k
      BY <3>1, <3>2, <1>2, <1>5, <1>6 DEF UndoneAfter
    <3>3. CASE k < i
      <4>1. i # k
        BY <3>3, <1>1 DEF Numbers
      <4> QED BY <2>5, <3>1, <3>3, <4>1, <1>2, <1>5, <1>6 DEF UndoneAfter
    <3> QED BY <3>1, <3>2, <3>3
  <2>6. ASSUME NEW i \in Numbers
        PROVE  (/\ i < k - 1 \/ i >= f => answer[UndoCall(m, i)] = "none" /\ i \notin outOfStep[m]
                /\ i = k - 1 => i \notin outOfStep[m]
                /\ k - 1 < i /\ i < f => /\ answer[UndoCall(m, i)] \in {"done"} \cup Failures
                                         /\ i \in outOfStep[m] <=> answer[UndoCall(m, i)] # "done")'
    BY <2>3, <2>4, <2>5
  <2> QED BY <2>1, <2>2, <2>6 DEF UndoneAfter
<1>7. CASE k > 1
  <2>1. k - 1 \in DOMAIN job[m].lines /\ k - 1 \in Numbers
    BY <1>1, <1>7, Neighbours
  <2>2. UndoLine(m, job[m], k - 1) /\ line' = [line EXCEPT ![m] = k - 1] /\ at' = at
    BY <1>0, <1>7
  <2>3. /\ \E c \in Calls, r \in Requests : c[1] = m /\ AskFor(c, r)
        /\ \A i \in Numbers : /\ i # k - 1 => answer'[UndoCall(m, i)] = answer[UndoCall(m, i)]
                              /\ answer'[MoveCall(m, i)] = answer[MoveCall(m, i)]
    BY <1>1, <2>1, <2>2, UndoLineFacts
  <2>4. StepOf(m)
    BY <1>3, <1>5, <2>2, <2>3 DEF StepOf, PlaceTypeOK
  <2>5. PlaceTypeOK'
    BY <1>3, <2>1, <2>2 DEF PlaceTypeOK, Numbers
  <2>6. line'[m] = k - 1 /\ at'[m] = "undo"
    BY <2>2 DEF PlaceTypeOK
  <2>7. UndoneAfter(m, k - 1, f)'
    BY <1>6, <2>3
  <2> HIDE DEF LineUndone, IInv
  <2>8. Consistent(m)'
    <3>1. \E e \in Numbers : UndoneAfter(m, line[m], e)'
      BY <2>6, <2>7 DEF UndoneAfter
    <3>2. journal'[m] = "none" /\ logged'[m] = {}
      BY <1>3
    <3> QED BY <2>6, <3>1, <3>2 DEF Consistent, StocksOK, RecordsOK
  <2> QED BY <1>4, <2>4, <2>5, <2>8, StepKeepsInvariant
<1>8. CASE ~(k > 1)
  <2>1. at' = [at EXCEPT ![m] = "failed"] /\ UNCHANGED <<line, balance, asked, answer>>
    BY <1>0, <1>8
  <2>2. StepOf(m)
    BY <1>3, <1>5, <2>1 DEF StepOf, PlaceTypeOK
  <2>3. PlaceTypeOK'
    BY <1>3, <2>1 DEF PlaceTypeOK, Ended
  <2>4. at'[m] = "failed"
    BY <2>1 DEF PlaceTypeOK
  <2>5. k - 1 = 0
    BY <1>1, <1>8 DEF Numbers
  <2>6. UndoneAfter(m, 0, f)'
    BY <1>6, <2>1, <2>5
  <2>7. Consistent(m)'
    BY <1>3, <2>4, <2>6 DEF Consistent, StocksOK, RecordsOK
  <2> HIDE DEF LineUndone, IInv
  <2> QED BY <1>4, <2>2, <2>3, <2>7, StepKeepsInvariant
<1> QED BY <1>7, <1>8

\* The steps that leave the ledger alone once every line has moved.
LEMMA JournalStep ==
    ASSUME IInv, NEW m \in Movements,
           WriteJournal(m) \/ WritePointer(m) \/ JournalFails(m) \/ RecordMovement(m)
    PROVE  IInv'
<1> USE DEF WriteJournal, WritePointer, JournalFails, RecordMovement, Journals
<1>1. at[m] \in {"journal", "pointer", "log"}
  OBVIOUS
<1>2. UNCHANGED <<balance, asked, answer, applied, job, line, outOfStep>>
  OBVIOUS
<1>3. AllMoved(m) /\ RecordsOK(m)
  BY <1>1 DEF IInv, Consistent, StocksOK
<1>4. AllMoved(m)'
  BY <1>2, <1>3 DEF AllMoved
<1>5. PICK next \in {"pointer", "log", "failed", "created"} : at' = [at EXCEPT ![m] = next]
  OBVIOUS
<1>6. at'[m] = next /\ \A n \in Movements \ {m} : at'[n] = at[n]
  BY <1>5 DEF IInv, PlaceTypeOK
<1>7. PlaceTypeOK'
  BY <1>1, <1>2, <1>5, <1>6 DEF IInv, PlaceTypeOK, Running, Ended
<1>8. RecordTypeOK'
  <2>1. job[m] \in Jobs
    BY <1>1, JobOf DEF IInv
  <2>2. DOMAIN job[m].lines \subseteq Numbers
    BY <2>1, JobLines
  <2>3. RecordTypeOK
    BY DEF IInv
  <2>4. why' \in [Movements -> {"none", "journal"} \cup Failures]
    BY <2>3 DEF RecordTypeOK
  <2>5. journal' \in [Movements -> {"none", "row", "row and pointer"}]
    BY <2>3 DEF RecordTypeOK
  <2>6. logged' \in [Movements -> SUBSET Numbers]
    BY <2>2, <2>3 DEF RecordTypeOK
  <2> QED BY <1>2, <2>3, <2>4, <2>5, <2>6 DEF RecordTypeOK
<1>9. StepOf(m)
  BY <1>2, <1>6 DEF IInv, StepOf, RecordTypeOK
<1>10. RecordsOK(m)' /\ (at'[m] = "failed" => why'[m] = "journal")
  <2>1. CASE WriteJournal(m)
    <3>1. /\ journal'[m] = "row" /\ logged'[m] = {}
          /\ at'[m] = IF job'[m].add # Nowhere THEN "pointer" ELSE "log"
      BY <2>1, <1>2, <1>3 DEF IInv, RecordsOK, RecordTypeOK, PlaceTypeOK
    <3> QED BY <3>1 DEF RecordsOK
  <2>2. CASE WritePointer(m)
    <3>1. /\ journal'[m] = "row and pointer" /\ logged'[m] = {}
          /\ at'[m] = "log" /\ job'[m].add # Nowhere
      BY <2>2, <1>2, <1>3 DEF IInv, RecordsOK, RecordTypeOK, PlaceTypeOK
    <3> QED BY <3>1 DEF RecordsOK
  <2>3. CASE JournalFails(m)
    <3>1. at'[m] = "failed" /\ why'[m] = "journal"
      BY <2>3 DEF IInv, RecordTypeOK, PlaceTypeOK
    <3> QED BY <3>1 DEF RecordsOK
  <2>4. CASE RecordMovement(m)
    <3>1. /\ at'[m] = "created"
          /\ journal'[m] = IF job'[m].add = Nowhere THEN "row" ELSE "row and pointer"
      BY <2>4, <1>2, <1>3 DEF IInv, RecordsOK, PlaceTypeOK
    <3> QED BY <3>1 DEF RecordsOK
  <2> QED BY <2>1, <2>2, <2>3, <2>4
<1>12. StocksOK(m)'
  BY <1>4, <1>6, <1>10 DEF StocksOK
<1> QED BY <1>7, <1>8, <1>9, <1>10, <1>12, StepKeepsInvariant DEF Consistent

LEMMA CrashStep ==
    ASSUME IInv, NEW m \in Movements, Crash(m) PROVE IInv'
<1> USE DEF Crash
<1>1. /\ at[m] \in Running
      /\ UNCHANGED <<balance, asked, answer, applied, job, line, why, outOfStep, journal>>
  OBVIOUS
<1>2. at'[m] = "crashed" /\ \A n \in Movements \ {m} : at'[n] = at[n]
  BY DEF IInv, PlaceTypeOK
<1>3. PlaceTypeOK'
  BY <1>1 DEF IInv, PlaceTypeOK, Ended, Running
<1>4. RecordTypeOK' /\ \A n \in Movements \ {m} : logged'[n] = logged[n]
  <2>1. job[m] \in Jobs
    BY <1>1, JobOf DEF IInv, Running
  <2>2. DOMAIN job[m].lines \subseteq Numbers
    BY <2>1, JobLines
  <2> QED BY <1>1, <2>2 DEF IInv, RecordTypeOK
<1>5. StepOf(m)
  BY <1>1, <1>2, <1>4 DEF StepOf
<1>6. logged'[m] # {} => at[m] = "log"
  BY DEF IInv, RecordTypeOK
<1>7. (journal[m] # "none" \/ at[m] = "log") => AllMoved(m)'
  BY <1>1 DEF IInv, Consistent, StocksOK, AllMoved
<1>8. Consistent(m)'
  BY <1>1, <1>2, <1>6, <1>7 DEF Consistent, StocksOK, RecordsOK
<1> QED BY <1>3, <1>4, <1>5, <1>8, StepKeepsInvariant

LEMMA ReplyStep ==
    ASSUME IInv, NEW c \in Calls, Replies(c) \/ AbandonLine(c) PROVE IInv'
<1>1. /\ LedgerTypeOK' /\ Answered' /\ UNCHANGED movement
      /\ \A d \in Calls : answer[d] \in Settled => answer'[d] = answer[d]
  BY ReplySteps DEF IInv
<1>2. PlaceTypeOK' /\ RecordTypeOK'
  BY <1>1 DEF IInv, movement, PlaceTypeOK, RecordTypeOK
<1>3. ASSUME NEW m \in Movements PROVE Consistent(m)'
  <2>1. Untouched(m)
    BY <1>1, CallsAreApart DEF Untouched, movement
  <2> QED BY <2>1, UntouchedConsistent DEF IInv
<1> QED BY <1>1, <1>2, <1>3 DEF IInv

---------------------------------------------------------------------------

LEMMA InitInvariant == MovementsInit => IInv
<1> SUFFICES ASSUME MovementsInit PROVE IInv
  OBVIOUS
<1> USE DEF MovementsInit
<1>1. LedgerTypeOK
  <2>1. balance \in [Locations -> [Products -> Int]]
    <3>1. Stocked \subseteq Int
      BY StockedAssumption
    <3> QED BY <3>1
  <2> QED BY <2>1 DEF LedgerTypeOK
<1>2. PlaceTypeOK /\ RecordTypeOK
  BY DEF PlaceTypeOK, RecordTypeOK
<1>3. Answered
  BY DEF Answered
<1>4. ASSUME NEW m \in Movements PROVE Consistent(m)
  <2>1. NothingAsked(m)
    BY CallsAreApart DEF NothingAsked
  <2> QED BY <2>1 DEF Consistent, StocksOK, RecordsOK
<1> QED BY <1>1, <1>2, <1>3, <1>4 DEF IInv

LEMMA NextInvariant == IInv /\ [MovementsNext]_movementVars => IInv'
<1> SUFFICES ASSUME IInv, [MovementsNext]_movementVars PROVE IInv'
  OBVIOUS
<1>1. ASSUME NEW m \in Movements, Begin(m) PROVE IInv'
  BY <1>1, BeginStep
<1>2. ASSUME NEW m \in Movements, Handle(m) PROVE IInv'
  BY <1>2, LineMovedStep, LineFailedStep, LineUndoneStep, JournalStep DEF Handle
<1>3. ASSUME NEW m \in Movements, JournalFails(m) PROVE IInv'
  BY <1>3, JournalStep
<1>4. ASSUME NEW m \in Movements, Crash(m) PROVE IInv'
  BY <1>4, CrashStep
<1>5. ASSUME NEW c \in Calls, Replies(c) \/ AbandonLine(c) PROVE IInv'
  BY <1>5, ReplyStep
<1>6. ASSUME UNCHANGED movementVars PROVE IInv'
  <2>1. UNCHANGED <<balance, asked, answer, applied, at, job, line, why, outOfStep, journal, logged>>
    BY <1>6 DEF movementVars, movement
  <2>2. LedgerTypeOK' /\ Answered' /\ PlaceTypeOK' /\ RecordTypeOK'
    BY <2>1 DEF IInv, LedgerTypeOK, Answered, PlaceTypeOK, RecordTypeOK
  <2>3. ASSUME NEW m \in Movements PROVE Consistent(m)'
    <3>1. Untouched(m)
      BY <2>1 DEF Untouched
    <3> QED BY <3>1, UntouchedConsistent DEF IInv
  <2> QED BY <2>2, <2>3 DEF IInv
<1> QED BY <1>1, <1>2, <1>3, <1>4, <1>5, <1>6 DEF MovementsNext

LEMMA InvariantHolds == MovementsSpec => []IInv
  BY InitInvariant, NextInvariant, PTL DEF MovementsSpec

---------------------------------------------------------------------------

\* Every variable keeps its type, and a running movement is at one of its lines
\* (StockService and TransfersService).
THEOREM MovementsTypeCorrect == MovementsSpec => []MovementsTypeOK
<1>1. IInv => MovementsTypeOK
  BY DEF IInv, LedgerTypeOK, PlaceTypeOK, RecordTypeOK, MovementsTypeOK, Numbers
<1> QED BY <1>1, InvariantHolds, PTL

\* The journal never claims units that did not move (createTransfer, receiveStock,
\* returnStock, deductStock).
THEOREM JournalStaysTrue == MovementsSpec => []JournalIsTrue
<1>1. ASSUME IInv PROVE JournalIsTrue
  <2> SUFFICES ASSUME NEW m \in Movements
               PROVE  /\ journal[m] # "none" \/ logged[m] # {} => Displaced(m) = DOMAIN job[m].lines
                      /\ at[m] = "created" =>
                            journal[m] = IF job[m].add = Nowhere THEN "row" ELSE "row and pointer"
    BY DEF JournalIsTrue
  <2>1. at[m] = "created" => journal[m] = IF job[m].add = Nowhere THEN "row" ELSE "row and pointer"
    BY <1>1 DEF IInv, Consistent, RecordsOK
  <2>2. ASSUME journal[m] # "none" \/ logged[m] # {} PROVE Displaced(m) = DOMAIN job[m].lines
    <3>1. AllMoved(m) /\ at[m] # "idle"
      BY <1>1, <2>2 DEF IInv, Consistent, StocksOK, RecordsOK
    <3>2. /\ DOMAIN job[m].lines = 1 .. Len(job[m].lines)
          /\ Len(job[m].lines) \in Numbers
      BY <1>1, <3>1, JobOf DEF IInv
    <3>3. ASSUME NEW i \in Numbers
          PROVE  /\ UndoCall(m, i) \notin applied
                 /\ MoveCall(m, i) \in applied <=> i <= Len(job[m].lines)
      <4>1. MoveCall(m, i) \in Calls /\ UndoCall(m, i) \in Calls
        BY CallsAreApart
      <4>2. i <= Len(job[m].lines) \/ i > Len(job[m].lines)
        BY <3>2 DEF Numbers
      <4> QED BY <1>1, <3>1, <4>1, <4>2 DEF IInv, Answered, AllMoved
    <3>4. ASSUME NEW i \in Numbers PROVE i \in Displaced(m) <=> i \in DOMAIN job[m].lines
      BY <3>2, <3>3 DEF Displaced, Numbers
    <3>5. Displaced(m) \subseteq Numbers
      BY DEF Displaced, Numbers
    <3>6. 1 .. Len(job[m].lines) \subseteq Numbers
      BY <3>2, MaxLinesAssumption DEF Numbers
    <3> QED BY <3>2, <3>4, <3>5, <3>6
  <2> QED BY <2>1, <2>2
<1> QED BY <1>1, InvariantHolds, PTL

\* What a failed transfer or deduction leaves moved is what it reports as out of
\* step, short of a lost answer (the undo of StockService).
THEOREM FailureReportsWhatItLeaves == MovementsSpec => []LeavesOnlyWhatItReports
<1>1. ASSUME IInv PROVE LeavesOnlyWhatItReports
  <2> SUFFICES ASSUME NEW m \in Movements, at[m] = "failed", why[m] # "journal",
                      Undoable(job[m]), ~Lost(m)
               PROVE  Displaced(m) = outOfStep[m]
    BY DEF LeavesOnlyWhatItReports
  <2>1. PICK f \in Numbers : UndoneAfter(m, 0, f)
    BY <1>1 DEF IInv, Consistent, StocksOK
  <2>2. ASSUME NEW c \in Calls, c[1] = m, answer[c] # "done" PROVE c \notin applied
    BY <1>1, <2>2 DEF IInv, Answered, Lost
  <2>3. ASSUME NEW i \in Numbers PROVE i \in Displaced(m) <=> i \in outOfStep[m]
    <3>1. /\ MoveCall(m, i) \in Calls /\ UndoCall(m, i) \in Calls
          /\ MoveCall(m, i)[1] = m /\ UndoCall(m, i)[1] = m
      BY CallsAreApart DEF MoveCall, UndoCall
    <3>2. /\ MoveCall(m, i) \in applied <=> answer[MoveCall(m, i)] = "done"
          /\ UndoCall(m, i) \in applied <=> answer[UndoCall(m, i)] = "done"
      BY <1>1, <2>2, <3>1 DEF IInv, Answered
    <3>3. i \in Displaced(m) <=>
            (answer[MoveCall(m, i)] = "done") # (answer[UndoCall(m, i)] = "done")
      BY <3>2 DEF Displaced, Numbers
    <3>4. CASE i < f
      <4>1. 0 < i
        BY DEF Numbers
      <4> QED BY <2>1, <3>3, <3>4, <4>1 DEF UndoneAfter
    <3>5. CASE i >= f
      <4>1. answer[MoveCall(m, i)] # "done"
        BY <2>1, <3>5 DEF UndoneAfter, Failures, Numbers
      <4> QED BY <2>1, <3>3, <3>5, <4>1 DEF UndoneAfter
    <3> QED BY <3>4, <3>5 DEF Numbers
  <2>4. outOfStep[m] \subseteq Numbers
    BY <1>1 DEF IInv, RecordTypeOK
  <2> QED BY <2>3, <2>4 DEF Displaced, Numbers
<1> QED BY <1>1, InvariantHolds, PTL

---------------------------------------------------------------------------
(* Movements run out of steps, and wait only for what is on its way. *)

\* The call that a running handler awaits was asked.
Awaits(m) ==
    /\ at[m] = "move" => answer[MoveCall(m, line[m])] # "none"
    /\ at[m] = "undo" => answer[UndoCall(m, line[m])] # "none"

AllAwait == \A m \in Movements : Awaits(m)

\* What a step of m uses up, and what it awaits afterwards.
Advances(m) ==
    /\ \A n \in Movements \ {m} : at'[n] = at[n] /\ line'[n] = line[n]
    /\ StepsLeft(m)' < StepsLeft(m) /\ StepsLeft(m)' \in Nat
    /\ \A c \in Calls : AnswerSteps(c)' <= AnswerSteps(c)
    /\ \A c \in Calls : answer[c] # "none" => answer'[c] # "none"
    /\ Awaits(m)'

\* A call that was asked takes fewer steps than one that was not.
LEMMA AskingUsesUp ==
    ASSUME LedgerTypeOK, NEW c \in Calls, NEW r \in Requests, AskFor(c, r)
    PROVE  /\ \A d \in Calls : AnswerSteps(d)' <= AnswerSteps(d)
           /\ \A d \in Calls : answer[d] # "none" => answer'[d] # "none"
<1>1. answer' = [answer EXCEPT ![c] = "open"] /\ answer[c] = "none"
  BY DEF AskFor, Becomes
<1>2. ASSUME NEW d \in Calls
      PROVE AnswerSteps(d)' <= AnswerSteps(d) /\ (answer[d] # "none" => answer'[d] # "none")
  <2>1. CASE d = c
    <3>1. answer[d] = "none" /\ answer'[d] = "open"
      BY <1>1, <2>1 DEF LedgerTypeOK
    <3> QED BY <3>1 DEF AnswerSteps
  <2>2. CASE d # c
    <3>1. answer'[d] = answer[d]
      BY <1>1, <2>2 DEF LedgerTypeOK
    <3> QED BY <3>1 DEF AnswerSteps
  <2> QED BY <2>1, <2>2
<1> QED BY <1>2

LEMMA SameAnswers ==
    ASSUME answer' = answer
    PROVE  /\ \A d \in Calls : AnswerSteps(d)' <= AnswerSteps(d)
           /\ \A d \in Calls : answer[d] # "none" => answer'[d] # "none"
  BY DEF AnswerSteps

LEMMA BeginAdvances ==
    ASSUME IInv, NEW m \in Movements, Begin(m) PROVE Advances(m)
<1>1. PICK j \in Jobs : job' = [job EXCEPT ![m] = j] /\ MoveLine(m, j, 1)
  BY DEF Begin
<1>2. /\ at[m] = "idle" /\ at' = [at EXCEPT ![m] = "move"] /\ line' = [line EXCEPT ![m] = 1]
      /\ applied' = applied
  BY DEF Begin
<1>3. 1 \in DOMAIN j.lines /\ 1 \in Numbers
  BY JobLines, MaxLinesAssumption DEF Numbers
<1>4. /\ \E c \in Calls, r \in Requests : c[1] = m /\ AskFor(c, r)
      /\ answer'[MoveCall(m, 1)] = "open"
  BY <1>1, <1>2, <1>3, MoveLineFacts
<1>5. /\ at'[m] = "move" /\ line'[m] = 1
      /\ \A n \in Movements \ {m} : at'[n] = at[n] /\ line'[n] = line[n]
  BY <1>2 DEF IInv, PlaceTypeOK
<1>6. StepsLeft(m)' < StepsLeft(m) /\ StepsLeft(m)' \in Nat
  BY <1>2, <1>5, MaxLinesAssumption DEF StepsLeft
<1> QED BY <1>4, <1>5, <1>6, AskingUsesUp DEF IInv, Advances, Awaits

LEMMA LineMovedAdvances ==
    ASSUME IInv, NEW m \in Movements, LineMoved(m) PROVE Advances(m)
<1>1. PICK k \in Numbers : k = line[m]
  BY JobOf DEF IInv, LineMoved
<1>2. /\ job[m] \in Jobs /\ DOMAIN job[m].lines = 1 .. Len(job[m].lines)
      /\ Len(job[m].lines) \in Numbers /\ k <= Len(job[m].lines) /\ at[m] = "move"
  BY <1>1, JobOf DEF IInv, LineMoved
<1>3. CASE k < LastLine(job[m])
  <2>1. /\ MoveLine(m, job[m], k + 1) /\ line' = [line EXCEPT ![m] = k + 1] /\ at' = at
        /\ applied' = applied
    BY <1>1, <1>3 DEF LineMoved
  <2>2. k + 1 \in DOMAIN job[m].lines /\ k + 1 \in Numbers
    BY <1>2, <1>3, Neighbours DEF LastLine
  <2>3. /\ \E c \in Calls, r \in Requests : c[1] = m /\ AskFor(c, r)
        /\ answer'[MoveCall(m, k + 1)] = "open"
    BY <1>2, <2>1, <2>2, MoveLineFacts
  <2>4. /\ at'[m] = "move" /\ line'[m] = k + 1
        /\ \A n \in Movements \ {m} : at'[n] = at[n] /\ line'[n] = line[n]
    BY <1>2, <2>1 DEF IInv, PlaceTypeOK
  <2>5. StepsLeft(m)' < StepsLeft(m) /\ StepsLeft(m)' \in Nat
    BY <1>1, <1>2, <2>2, <2>4, MaxLinesAssumption DEF StepsLeft, Numbers
  <2> QED BY <2>3, <2>4, <2>5, AskingUsesUp DEF IInv, Advances, Awaits
<1>4. CASE ~(k < LastLine(job[m]))
  <2>1. at' = [at EXCEPT ![m] = "journal"] /\ line' = line /\ answer' = answer
    BY <1>1, <1>4 DEF LineMoved
  <2>2. /\ at'[m] = "journal"
        /\ \A n \in Movements \ {m} : at'[n] = at[n] /\ line'[n] = line[n]
    BY <2>1 DEF IInv, PlaceTypeOK
  <2>3. StepsLeft(m)' < StepsLeft(m) /\ StepsLeft(m)' \in Nat
    BY <1>1, <1>2, <2>2, MaxLinesAssumption DEF StepsLeft, Numbers
  <2> QED BY <2>1, <2>2, <2>3, SameAnswers DEF Advances, Awaits
<1> QED BY <1>3, <1>4

LEMMA LineFailedAdvances ==
    ASSUME IInv, NEW m \in Movements, LineFailed(m) PROVE Advances(m)
<1>1. PICK k \in Numbers : k = line[m]
  BY JobOf DEF IInv, LineFailed
<1>2. /\ job[m] \in Jobs /\ DOMAIN job[m].lines = 1 .. Len(job[m].lines)
      /\ Len(job[m].lines) \in Numbers /\ k <= Len(job[m].lines) /\ at[m] = "move"
  BY <1>1, JobOf DEF IInv, LineFailed
<1>3. CASE Undoable(job[m]) /\ LastDone(m) > 0
  <2>1. /\ UndoLine(m, job[m], k - 1) /\ line' = [line EXCEPT ![m] = k - 1]
        /\ at' = [at EXCEPT ![m] = "undo"] /\ applied' = applied
    BY <1>1, <1>3 DEF LineFailed, LastDone
  <2>2. k - 1 \in DOMAIN job[m].lines /\ k - 1 \in Numbers
    BY <1>1, <1>2, <1>3, Neighbours DEF LastDone
  <2>3. /\ \E c \in Calls, r \in Requests : c[1] = m /\ AskFor(c, r)
        /\ answer'[UndoCall(m, k - 1)] = "open"
    BY <1>2, <2>1, <2>2, UndoLineFacts
  <2>4. /\ at'[m] = "undo" /\ line'[m] = k - 1
        /\ \A n \in Movements \ {m} : at'[n] = at[n] /\ line'[n] = line[n]
    BY <2>1 DEF IInv, PlaceTypeOK
  <2>5. StepsLeft(m)' < StepsLeft(m) /\ StepsLeft(m)' \in Nat
    BY <1>1, <1>2, <2>2, <2>4, MaxLinesAssumption DEF StepsLeft, Numbers
  <2> QED BY <2>3, <2>4, <2>5, AskingUsesUp DEF IInv, Advances, Awaits
<1>4. CASE ~(Undoable(job[m]) /\ LastDone(m) > 0)
  <2>1. at' = [at EXCEPT ![m] = "failed"] /\ line' = line /\ answer' = answer
    BY <1>4 DEF LineFailed
  <2>2. /\ at'[m] = "failed"
        /\ \A n \in Movements \ {m} : at'[n] = at[n] /\ line'[n] = line[n]
    BY <2>1 DEF IInv, PlaceTypeOK
  <2>3. StepsLeft(m)' < StepsLeft(m) /\ StepsLeft(m)' \in Nat
    BY <1>1, <1>2, <2>2, MaxLinesAssumption DEF StepsLeft, Numbers
  <2> QED BY <2>1, <2>2, <2>3, SameAnswers DEF Advances, Awaits
<1> QED BY <1>3, <1>4

LEMMA LineUndoneAdvances ==
    ASSUME IInv, NEW m \in Movements, LineUndone(m) PROVE Advances(m)
<1>1. PICK k \in Numbers : k = line[m]
  BY JobOf DEF IInv, LineUndone
<1>2. /\ job[m] \in Jobs /\ DOMAIN job[m].lines = 1 .. Len(job[m].lines)
      /\ Len(job[m].lines) \in Numbers /\ k <= Len(job[m].lines) /\ at[m] = "undo"
  BY <1>1, JobOf DEF IInv, LineUndone
<1>3. CASE MoreToUndo(m)
  <2>1. /\ UndoLine(m, job[m], k - 1) /\ line' = [line EXCEPT ![m] = k - 1]
        /\ at' = at /\ applied' = applied
    BY <1>1, <1>3 DEF LineUndone
  <2>2. k - 1 \in DOMAIN job[m].lines /\ k - 1 \in Numbers
    BY <1>1, <1>2, <1>3, Neighbours DEF MoreToUndo
  <2>3. /\ \E c \in Calls, r \in Requests : c[1] = m /\ AskFor(c, r)
        /\ answer'[UndoCall(m, k - 1)] = "open"
    BY <1>2, <2>1, <2>2, UndoLineFacts
  <2>4. /\ at'[m] = "undo" /\ line'[m] = k - 1
        /\ \A n \in Movements \ {m} : at'[n] = at[n] /\ line'[n] = line[n]
    BY <1>2, <2>1 DEF IInv, PlaceTypeOK
  <2>5. StepsLeft(m)' < StepsLeft(m) /\ StepsLeft(m)' \in Nat
    BY <1>1, <1>2, <2>2, <2>4, MaxLinesAssumption DEF StepsLeft, Numbers
  <2> QED BY <2>3, <2>4, <2>5, AskingUsesUp DEF IInv, Advances, Awaits
<1>4. CASE ~MoreToUndo(m)
  <2>1. at' = [at EXCEPT ![m] = "failed"] /\ line' = line /\ answer' = answer
    BY <1>4 DEF LineUndone
  <2>2. /\ at'[m] = "failed"
        /\ \A n \in Movements \ {m} : at'[n] = at[n] /\ line'[n] = line[n]
    BY <2>1 DEF IInv, PlaceTypeOK
  <2>3. StepsLeft(m)' < StepsLeft(m) /\ StepsLeft(m)' \in Nat
    BY <1>1, <1>2, <2>2, MaxLinesAssumption DEF StepsLeft, Numbers
  <2> QED BY <2>1, <2>2, <2>3, SameAnswers DEF Advances, Awaits
<1> QED BY <1>3, <1>4

\* The journal, the log and a crash await nothing of the ledger.
LEMMA OthersAdvance ==
    ASSUME IInv, NEW m \in Movements,
           \/ WriteJournal(m) \/ WritePointer(m) \/ JournalFails(m) \/ RecordMovement(m)
           \/ Crash(m)
    PROVE  Advances(m)
<1> USE DEF WriteJournal, WritePointer, JournalFails, RecordMovement, Journals, Crash
<1>1. line' = line /\ answer' = answer
  OBVIOUS
<1>2. PICK next \in {"pointer", "log", "failed", "created", "crashed"} :
          /\ at' = [at EXCEPT ![m] = next]
          /\ \/ at[m] = "journal" /\ next # "created"
             \/ at[m] = "pointer" /\ next \notin {"pointer", "created"}
             \/ at[m] = "log" /\ next \in {"created", "crashed"}
             \/ at[m] \in {"move", "undo"} /\ next = "crashed"
  BY DEF Running
<1> HIDE DEF WriteJournal, WritePointer, JournalFails, RecordMovement, Journals, Crash
<1>3. at'[m] = next /\ \A n \in Movements \ {m} : at'[n] = at[n] /\ line'[n] = line[n]
  BY <1>1, <1>2 DEF IInv, PlaceTypeOK
<1>4. at[m] # "idle" => line[m] \in 1 .. MaxLines
  BY JobOf DEF IInv, Numbers
<1>5. StepsLeft(m)' < StepsLeft(m) /\ StepsLeft(m)' \in Nat
  BY <1>2, <1>3, <1>4, MaxLinesAssumption DEF StepsLeft
<1> QED BY <1>1, <1>3, <1>5, SameAnswers DEF Advances, Awaits

LEMMA MovementAdvances ==
    ASSUME IInv, NEW m \in Movements, Begin(m) \/ Handle(m) \/ JournalFails(m) \/ Crash(m)
    PROVE  Advances(m)
  BY BeginAdvances, LineMovedAdvances, LineFailedAdvances, LineUndoneAdvances, OthersAdvance DEF Handle

LEMMA ReplyUsesUp ==
    ASSUME IInv, NEW c \in Calls, Replies(c) \/ AbandonLine(c)
    PROVE  /\ AnswerSteps(c)' < AnswerSteps(c)
           /\ \A d \in Calls : AnswerSteps(d)' <= AnswerSteps(d)
           /\ \A d \in Calls : answer[d] # "none" => answer'[d] # "none"
           /\ at' = at /\ line' = line
<1>1. PICK a \in {"short", "done", "insufficient", "conflict", "error"} :
          /\ answer' = [answer EXCEPT ![c] = a]
          /\ answer[c] = "open" \/ (answer[c] = "short" /\ a # "short")
  BY DEF Replies, SettleLine, RefuseLine, AbandonLine, Settle, NoticeShortage, ReportShortage,
         Abandon, Becomes
<1>2. at' = at /\ line' = line
  BY DEF Replies, SettleLine, RefuseLine, AbandonLine, movement
<1>3. answer'[c] = a /\ \A d \in Calls \ {c} : answer'[d] = answer[d]
  BY <1>1 DEF IInv, LedgerTypeOK
<1>4. AnswerSteps(c)' < AnswerSteps(c)
  BY <1>1, <1>3 DEF AnswerSteps
<1>5. ASSUME NEW d \in Calls
      PROVE  AnswerSteps(d)' <= AnswerSteps(d) /\ (answer[d] # "none" => answer'[d] # "none")
  <2>1. CASE d = c
    BY <1>1, <1>3, <2>1 DEF AnswerSteps
  <2>2. CASE d # c
    BY <1>3, <2>2 DEF AnswerSteps
  <2> QED BY <2>1, <2>2
<1> QED BY <1>2, <1>4, <1>5

\* Where a movement stands, its steps are a natural number.
LEMMA StepsAreNumbers ==
    ASSUME IInv, NEW m \in Movements PROVE StepsLeft(m) \in Nat
<1>1. at[m] # "idle" => line[m] \in 1 .. MaxLines
  BY JobOf DEF IInv, Numbers
<1> QED BY <1>1, MaxLinesAssumption DEF StepsLeft

LEMMA AwaitsHolds == MovementsSpec => []AllAwait
<1>1. MovementsInit => AllAwait
  BY DEF MovementsInit, AllAwait, Awaits
<1>2. ASSUME IInv, AllAwait, [MovementsNext]_movementVars PROVE AllAwait'
  <2> SUFFICES ASSUME NEW n \in Movements PROVE Awaits(n)'
    BY DEF AllAwait
  <2>0. \A m \in Movements : Awaits(m)
    BY <1>2 DEF AllAwait
  <2>1. at[n] \in {"move", "undo"} =>
          MoveCall(n, line[n]) \in Calls /\ UndoCall(n, line[n]) \in Calls
    BY <1>2, JobOf, CallsAreApart DEF IInv
  <2>2. CASE UNCHANGED <<at, line, answer>>
    BY <2>0, <2>2 DEF Awaits
  <2>3. ASSUME NEW m \in Movements, Advances(m) PROVE Awaits(n)'
    <3>1. CASE m = n
      BY <2>3, <3>1 DEF Advances
    <3>2. CASE m # n
      BY <2>0, <2>1, <2>3, <3>2 DEF Advances, Awaits
    <3> QED BY <3>1, <3>2
  <2>4. ASSUME at' = at, line' = line,
               \A c \in Calls : answer[c] # "none" => answer'[c] # "none"
        PROVE  Awaits(n)'
    BY <2>0, <2>1, <2>4 DEF Awaits
  <2>5. ASSUME NEW m \in Movements, Begin(m) \/ Handle(m) \/ JournalFails(m) \/ Crash(m)
        PROVE  Awaits(n)'
    BY <1>2, <2>3, <2>5, MovementAdvances
  <2>6. ASSUME NEW c \in Calls, Replies(c) \/ AbandonLine(c) PROVE Awaits(n)'
    BY <1>2, <2>4, <2>6, ReplyUsesUp
  <2>7. CASE UNCHANGED movementVars
    BY <2>2, <2>7 DEF movementVars, movement
  <2> QED BY <1>2, <2>5, <2>6, <2>7 DEF MovementsNext
<1> QED BY <1>1, <1>2, InvariantHolds, PTL DEF MovementsSpec

\* A running handler is never stuck: it waits for a call that the repository has
\* yet to answer, or the answer is there for it to go on with, and the call it
\* makes next was not made before (the awaits of StockService).
NeverStuck ==
    \A m \in Movements :
        /\ at[m] = "move" =>
             /\ answer[MoveCall(m, line[m])] \in {"open", "short", "done"} \cup Failures
             /\ line[m] < LastLine(job[m]) => answer[MoveCall(m, line[m] + 1)] = "none"
             /\ LastDone(m) > 0 => answer[UndoCall(m, LastDone(m))] = "none"
        /\ at[m] = "undo" =>
             /\ answer[UndoCall(m, line[m])] \in {"open", "short", "done"} \cup Failures
             /\ MoreToUndo(m) => answer[UndoCall(m, line[m] - 1)] = "none"

THEOREM NobodyIsStuck == MovementsSpec => []NeverStuck
<1>1. ASSUME IInv, AllAwait PROVE NeverStuck
  <2> SUFFICES ASSUME NEW m \in Movements
      PROVE  /\ at[m] = "move" =>
                  /\ answer[MoveCall(m, line[m])] \in {"open", "short", "done"} \cup Failures
                  /\ line[m] < LastLine(job[m]) => answer[MoveCall(m, line[m] + 1)] = "none"
                  /\ LastDone(m) > 0 => answer[UndoCall(m, LastDone(m))] = "none"
             /\ at[m] = "undo" =>
                  /\ answer[UndoCall(m, line[m])] \in {"open", "short", "done"} \cup Failures
                  /\ MoreToUndo(m) => answer[UndoCall(m, line[m] - 1)] = "none"
    BY DEF NeverStuck
  <2>1. ASSUME at[m] \in {"move", "undo"}
        PROVE  /\ line[m] \in Numbers /\ line[m] <= LastLine(job[m]) /\ LastLine(job[m]) \in Numbers
               /\ MoveCall(m, line[m]) \in Calls /\ UndoCall(m, line[m]) \in Calls
               /\ line[m] < LastLine(job[m]) => line[m] + 1 \in Numbers
               /\ line[m] - 1 > 0 => line[m] - 1 \in Numbers /\ line[m] > 1
               /\ line[m] > 1 => line[m] - 1 \in Numbers
    <3>1. line[m] \in Numbers /\ line[m] <= LastLine(job[m]) /\ LastLine(job[m]) \in Numbers
      BY <1>1, <2>1, JobOf DEF IInv, LastLine
    <3> QED BY <3>1, CallsAreApart, MaxLinesAssumption DEF Numbers
  <2>2. ASSUME at[m] = "move"
        PROVE  /\ answer[MoveCall(m, line[m])] \in {"open", "short", "done"} \cup Failures
               /\ line[m] < LastLine(job[m]) => answer[MoveCall(m, line[m] + 1)] = "none"
               /\ LastDone(m) > 0 => answer[UndoCall(m, LastDone(m))] = "none"
    <3>1. answer[MoveCall(m, line[m])] \in {"open", "short", "done"} \cup Failures
      BY <1>1, <2>1, <2>2 DEF IInv, LedgerTypeOK, AllAwait, Awaits
    <3>2. MovedBefore(m, line[m])
      BY <1>1, <2>2 DEF IInv, Consistent, StocksOK
    <3>3. line[m] < LastLine(job[m]) => line[m] + 1 > line[m]
      BY <2>1, <2>2 DEF Numbers
    <3> QED BY <2>1, <2>2, <3>1, <3>2, <3>3 DEF MovedBefore, LastDone
  <2>3. ASSUME at[m] = "undo"
        PROVE  /\ answer[UndoCall(m, line[m])] \in {"open", "short", "done"} \cup Failures
               /\ MoreToUndo(m) => answer[UndoCall(m, line[m] - 1)] = "none"
    <3>1. answer[UndoCall(m, line[m])] \in {"open", "short", "done"} \cup Failures
      BY <1>1, <2>1, <2>3 DEF IInv, LedgerTypeOK, AllAwait, Awaits
    <3>2. PICK f \in Numbers : UndoneAfter(m, line[m], f)
      BY <1>1, <2>3 DEF IInv, Consistent, StocksOK
    <3>3. line[m] > 1 => line[m] - 1 < line[m]
      BY <2>1, <2>3 DEF Numbers
    <3> QED BY <2>1, <2>3, <3>1, <3>2, <3>3 DEF UndoneAfter, MoreToUndo
  <2> QED BY <2>2, <2>3
<1> QED BY <1>1, InvariantHolds, AwaitsHolds, PTL

\* A movement and its undo come to an end: no step of a movement or of the
\* repository but uses up one of the finitely many that are left (moveLines, undo).
THEOREM MovementsComeToAnEnd == MovementsSpec => MovementsRunOut
<1>1. ASSUME IInv, [MovementsNext]_movementVars
      PROVE  [/\ \A m \in Movements : StepsLeft(m)' <= StepsLeft(m) /\ StepsLeft(m)' \in Nat
              /\ \A c \in Calls : AnswerSteps(c)' <= AnswerSteps(c)
              /\ \/ \E m \in Movements : StepsLeft(m)' < StepsLeft(m)
                 \/ \E c \in Calls : AnswerSteps(c)' < AnswerSteps(c)]_movementVars
  <2>1. ASSUME NEW m \in Movements, Advances(m)
        PROVE  \A n \in Movements : StepsLeft(n)' <= StepsLeft(n) /\ StepsLeft(n)' \in Nat
    <3> SUFFICES ASSUME NEW n \in Movements PROVE StepsLeft(n)' <= StepsLeft(n) /\ StepsLeft(n)' \in Nat
      OBVIOUS
    <3>1. CASE n = m
      BY <2>1, <3>1, <1>1, StepsAreNumbers DEF Advances
    <3>2. CASE n # m
      <4>1. at'[n] = at[n] /\ line'[n] = line[n]
        BY <2>1, <3>2 DEF Advances
      <4>2. StepsLeft(n)' = StepsLeft(n)
        BY <4>1 DEF StepsLeft
      <4> QED BY <1>1, <4>2, StepsAreNumbers
    <3> QED BY <3>1, <3>2
  <2>2. ASSUME at' = at, line' = line
        PROVE  \A n \in Movements : StepsLeft(n)' <= StepsLeft(n) /\ StepsLeft(n)' \in Nat
    <3>1. ASSUME NEW n \in Movements PROVE StepsLeft(n)' = StepsLeft(n)
      BY <2>2 DEF StepsLeft
    <3> QED BY <1>1, <3>1, StepsAreNumbers
  <2>3. ASSUME NEW m \in Movements, Begin(m) \/ Handle(m) \/ JournalFails(m) \/ Crash(m)
        PROVE  /\ \A n \in Movements : StepsLeft(n)' <= StepsLeft(n) /\ StepsLeft(n)' \in Nat
               /\ \A c \in Calls : AnswerSteps(c)' <= AnswerSteps(c)
               /\ StepsLeft(m)' < StepsLeft(m)
    BY <1>1, <2>1, <2>3, MovementAdvances DEF Advances
  <2>4. ASSUME NEW c \in Calls, Replies(c) \/ AbandonLine(c)
        PROVE  /\ \A n \in Movements : StepsLeft(n)' <= StepsLeft(n) /\ StepsLeft(n)' \in Nat
               /\ \A d \in Calls : AnswerSteps(d)' <= AnswerSteps(d)
               /\ AnswerSteps(c)' < AnswerSteps(c)
    BY <1>1, <2>2, <2>4, ReplyUsesUp
  <2> QED BY <1>1, <2>3, <2>4 DEF MovementsNext
<1> QED BY <1>1, InvariantHolds, PTL DEF MovementsSpec, MovementsRunOut

\* The movements keep to the contract of the repository they call: what they and it
\* do together is a behaviour of the ledger, so a call is made once, of two
\* different places, and nothing but the ledger moves a unit (StockService).
THEOREM MovementsKeepToTheLedger == MovementsSpec => LedgerSpec
<1>1. MovementsInit => LedgerInit
  <2>1. MovementsInit => balance \in [Locations -> [Products -> Int]]
    BY InitInvariant DEF IInv, LedgerTypeOK
  <2>2. MovementsInit => asked = [c \in Calls |-> NoRequest] /\ answer = [c \in Calls |-> "none"]
    BY DEF MovementsInit
  <2> QED BY <2>1, <2>2 DEF LedgerInit
<1>2. ASSUME IInv, [MovementsNext]_movementVars PROVE [LedgerNext]_ledgerVars
  <2>1. ASSUME NEW c \in Calls, NEW r \in Requests, AskFor(c, r) PROVE LedgerNext
    BY <2>1 DEF LedgerNext, Ask
  <2>2. ASSUME NEW m \in Movements, Begin(m) PROVE LedgerNext
    <3>1. PICK j \in Jobs : MoveLine(m, j, 1)
      BY <2>2 DEF Begin
    <3>2. 1 \in DOMAIN j.lines /\ applied' = applied
      BY <2>2, JobLines, MaxLinesAssumption DEF Begin, Numbers
    <3> QED BY <1>2, <2>1, <3>1, <3>2, MoveLineFacts
  <2>3. ASSUME NEW m \in Movements, Handle(m) \/ JournalFails(m) \/ Crash(m)
        PROVE  LedgerNext \/ UNCHANGED ledgerVars
    <3>1. applied' = applied
      BY <2>3 DEF Handle, LineMoved, LineFailed, LineUndone, WriteJournal, WritePointer, JournalFails,
                  RecordMovement, Journals, Crash
    <3>2. CASE LineMoved(m)
      <4>1. CASE line[m] < LastLine(job[m])
        <5>1. job[m] \in Jobs /\ line[m] + 1 \in DOMAIN job[m].lines
          BY <1>2, <3>2, <4>1, JobOf, Neighbours DEF IInv, LineMoved, LastLine
        <5> QED BY <1>2, <2>1, <3>1, <3>2, <4>1, <5>1, MoveLineFacts DEF LineMoved
      <4> QED BY <3>2, <4>1 DEF LineMoved, ledgerVars
    <3>3. CASE LineFailed(m)
      <4>1. CASE Undoable(job[m]) /\ LastDone(m) > 0
        <5>1. job[m] \in Jobs /\ LastDone(m) \in DOMAIN job[m].lines
          BY <1>2, <3>3, <4>1, JobOf, Neighbours DEF IInv, LineFailed, LastDone
        <5> QED BY <1>2, <2>1, <3>1, <3>3, <4>1, <5>1, UndoLineFacts DEF LineFailed
      <4> QED BY <3>3, <4>1 DEF LineFailed, ledgerVars
    <3>4. CASE LineUndone(m)
      <4>1. CASE MoreToUndo(m)
        <5>1. job[m] \in Jobs /\ line[m] - 1 \in DOMAIN job[m].lines
          BY <1>2, <3>4, <4>1, JobOf, Neighbours DEF IInv, LineUndone, MoreToUndo
        <5> QED BY <1>2, <2>1, <3>1, <3>4, <4>1, <5>1, UndoLineFacts DEF LineUndone
      <4> QED BY <3>4, <4>1 DEF LineUndone, ledgerVars
    <3>5. CASE WriteJournal(m) \/ WritePointer(m) \/ JournalFails(m) \/ RecordMovement(m) \/ Crash(m)
      BY <3>5 DEF WriteJournal, WritePointer, JournalFails, RecordMovement, Journals, Crash, ledgerVars
    <3> QED BY <2>3, <3>2, <3>3, <3>4, <3>5 DEF Handle
  <2>4. ASSUME NEW c \in Calls, Replies(c) \/ AbandonLine(c) PROVE LedgerNext
    BY <2>4 DEF Replies, SettleLine, RefuseLine, AbandonLine, LedgerNext
  <2>5. UNCHANGED movementVars => UNCHANGED ledgerVars
    BY DEF movementVars, ledgerVars
  <2> QED BY <1>2, <2>2, <2>3, <2>4, <2>5 DEF MovementsNext
<1> QED BY <1>1, <1>2, InvariantHolds, PTL DEF MovementsSpec, LedgerSpec
=============================================================================
