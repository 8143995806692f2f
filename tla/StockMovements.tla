--------------------------- MODULE StockMovements ---------------------------
(***************************************************************************)
(* Movements of several lines: StockService (stock.service.ts) under the   *)
(* handlers of TransfersService (transfers.service.ts).                    *)
(*                                                                         *)
(* A transfer, a receive, and a deduction (a return, or a job's use) move  *)
(* their lines one by one, each by a call of the stock repository, which   *)
(* is StockLedger here: StockRepository implements it. A transfer or a     *)
(* deduction that fails on a line undoes the lines before it in reverse    *)
(* order, best effort, and throws the error of that line; a receive just   *)
(* throws. Once every line moved, the journal row is written, then its     *)
(* destination pointer, then an audit log line per item.                   *)
(*                                                                         *)
(* A handler runs from one await to the next without interruption, so an   *)
(* answer and the call it leads to are one step. Movements interleave, and *)
(* the process may die at any of them. The transfer.created event changes  *)
(* nothing here.                                                           *)
(***************************************************************************)
EXTENDS Integers, Sequences, FiniteSets

CONSTANTS
    Locations, Products, Quantities, Nowhere, NoRequest,
    Movements,      \* requests to the transfers endpoints, each made once
    NoJob,          \* what an idle movement was asked
    MaxLines,       \* bound: the lines of a movement
    Stocked         \* bound: what a location may hold of a product at the start

ASSUME MaxLinesAssumption == MaxLines \in Nat \ {0}
ASSUME StockedAssumption == Stocked \subseteq Nat
ASSUME MovedAssumption == Quantities \subseteq Nat \ {0}
ASSUME NowhereAssumption == Nowhere \notin Locations

VARIABLES
    balance, asked, answer,     \* the ledger: see StockLedger
    at,         \* where each movement is
    job,        \* what it was asked to move
    line,       \* the line being moved or undone
    why,        \* the error it throws
    outOfStep,  \* the lines reported as STOCK OUT OF STEP
    journal,    \* the rows of its journal entry
    logged,     \* the lines with an audit log entry
    applied     \* history: the ledger calls that moved their units

movement == <<at, job, line, why, outOfStep, journal, logged>>
movementVars == <<balance, asked, answer, applied, movement>>

\* One ledger call to move each line, and one to undo it.
Calls == Movements \X {"move", "undo"} \X (1 .. MaxLines)

INSTANCE StockLedger

Lines == UNION {[1 .. n -> Products \X Quantities] : n \in 1 .. MaxLines}
Jobs == {j \in [take : Locations \cup {Nowhere}, add : Locations \cup {Nowhere},
                lines : Lines] : j.take # j.add}

\* StockService.receive has no undo.
Undoable(j) == j.take # Nowhere

Asked(from, to, item) ==
    [take |-> from, add |-> to, product |-> item[1], quantity |-> item[2]]

MoveCall(m, i) == <<m, "move", i>>
UndoCall(m, i) == <<m, "undo", i>>

MoveLine(m, j, i) == AskFor(MoveCall(m, i), Asked(j.take, j.add, j.lines[i]))

UndoLine(m, j, i) == AskFor(UndoCall(m, i), Asked(j.add, j.take, j.lines[i]))

Failures == {"insufficient", "conflict", "error"}
Running == {"move", "undo", "journal", "pointer", "log"}
Ended == {"created", "failed", "crashed"}

MovementsInit ==
    /\ balance \in [Locations -> [Products -> Stocked]]
    /\ asked = [c \in Calls |-> NoRequest]
    /\ answer = [c \in Calls |-> "none"]
    /\ applied = {}
    /\ at = [m \in Movements |-> "idle"]
    /\ job = [m \in Movements |-> NoJob]
    /\ line = [m \in Movements |-> 0]
    /\ why = [m \in Movements |-> "none"]
    /\ outOfStep = [m \in Movements |-> {}]
    /\ journal = [m \in Movements |-> "none"]
    /\ logged = [m \in Movements |-> {}]

---------------------------------------------------------------------------
(* StockService: the lines. *)

Begin(m) ==
    /\ at[m] = "idle"
    /\ \E j \in Jobs :
         /\ job' = [job EXCEPT ![m] = j]
         /\ MoveLine(m, j, 1)
    /\ at' = [at EXCEPT ![m] = "move"]
    /\ line' = [line EXCEPT ![m] = 1]
    /\ UNCHANGED <<why, outOfStep, journal, logged, applied>>

\* A mutant: the last line is forgotten.
AllButLast(j) == Len(j.lines) - 1

LastLine(j) == Len(j.lines)

\* The line moved: on to the next one, or to the journal.
LineMoved(m) ==
    /\ at[m] = "move"
    /\ answer[MoveCall(m, line[m])] = "done"
    /\ IF line[m] < LastLine(job[m])
       THEN /\ MoveLine(m, job[m], line[m] + 1)
            /\ line' = [line EXCEPT ![m] = @ + 1]
            /\ UNCHANGED at
       ELSE /\ at' = [at EXCEPT ![m] = "journal"]
            /\ UNCHANGED <<line, balance, asked, answer>>
    /\ UNCHANGED <<job, why, outOfStep, journal, logged, applied>>

\* A mutant: the undo starts with the line that failed.
UndoesFromFailed(m) == line[m]

\* The newest line that moved.
LastDone(m) == line[m] - 1

\* The line failed: undo the lines that moved, or throw.
LineFailed(m) ==
    /\ at[m] = "move"
    /\ answer[MoveCall(m, line[m])] \in Failures
    /\ why' = [why EXCEPT ![m] = answer[MoveCall(m, line[m])]]
    /\ IF Undoable(job[m]) /\ LastDone(m) > 0
       THEN /\ UndoLine(m, job[m], LastDone(m))
            /\ at' = [at EXCEPT ![m] = "undo"]
            /\ line' = [line EXCEPT ![m] = LastDone(m)]
       ELSE /\ at' = [at EXCEPT ![m] = "failed"]
            /\ UNCHANGED <<line, balance, asked, answer>>
    /\ UNCHANGED <<job, outOfStep, journal, logged, applied>>

MoreToUndo(m) == line[m] > 1

\* A mutant: nobody catches the error of an undo.
UndoSucceeded(m) == answer[UndoCall(m, line[m])] = "done"

UndoAnswered(m) == answer[UndoCall(m, line[m])] \in {"done"} \cup Failures

\* An undo was answered: one that failed is reported, the rest are still undone.
LineUndone(m) ==
    /\ at[m] = "undo"
    /\ UndoAnswered(m)
    /\ outOfStep' = [outOfStep EXCEPT ![m] =
            IF answer[UndoCall(m, line[m])] = "done" THEN @ ELSE @ \cup {line[m]}]
    /\ IF MoreToUndo(m)
       THEN /\ UndoLine(m, job[m], line[m] - 1)
            /\ line' = [line EXCEPT ![m] = @ - 1]
            /\ UNCHANGED at
       ELSE /\ at' = [at EXCEPT ![m] = "failed"]
            /\ UNCHANGED <<line, balance, asked, answer>>
    /\ UNCHANGED <<job, why, journal, logged, applied>>

---------------------------------------------------------------------------
(* TransfersService: the journal and the log. *)

Journals(m, row, next) ==
    /\ journal' = [journal EXCEPT ![m] = row]
    /\ at' = [at EXCEPT ![m] = next]
    /\ UNCHANGED <<balance, asked, answer, applied, job, line, outOfStep, logged>>

WriteJournal(m) ==
    /\ at[m] = "journal"
    /\ Journals(m, "row", IF job[m].add # Nowhere THEN "pointer" ELSE "log")
    /\ UNCHANGED why

WritePointer(m) ==
    /\ at[m] = "pointer"
    /\ Journals(m, "row and pointer", "log")
    /\ UNCHANGED why

\* A mutant: a put that fails is tried again, as often as it fails.
JournalsAgain(m) ==
    /\ \/ at[m] = "journal" /\ \E row \in {"none", "row"} : Journals(m, row, "journal")
       \/ at[m] = "pointer" /\ \E row \in {"row", "row and pointer"} : Journals(m, row, "pointer")
    /\ why' = [why EXCEPT ![m] = "journal"]

\* A put fails, having written its row or not; the handler throws.
JournalFails(m) ==
    /\ \/ at[m] = "journal" /\ \E row \in {"none", "row"} : Journals(m, row, "failed")
       \/ at[m] = "pointer" /\ \E row \in {"row", "row and pointer"} : Journals(m, row, "failed")
    /\ why' = [why EXCEPT ![m] = "journal"]

\* A mutant: the log numbers the lines from zero.
RecordsFromZero(m) ==
    /\ at[m] = "log"
    /\ \E kept \in SUBSET (0 .. Len(job[m].lines) - 1) : logged' = [logged EXCEPT ![m] = kept]
    /\ at' = [at EXCEPT ![m] = "created"]
    /\ UNCHANGED <<balance, asked, answer, applied, job, line, why, outOfStep, journal>>

\* A log entry that cannot be written is dropped with a warning.
RecordMovement(m) ==
    /\ at[m] = "log"
    /\ \E kept \in SUBSET (DOMAIN job[m].lines) : logged' = [logged EXCEPT ![m] = kept]
    /\ at' = [at EXCEPT ![m] = "created"]
    /\ UNCHANGED <<balance, asked, answer, applied, job, line, why, outOfStep, journal>>

\* The process dies; a call it had sent goes on by itself, and of the log only
\* some lines are written.
Crash(m) ==
    /\ at[m] \in Running
    /\ at' = [at EXCEPT ![m] = "crashed"]
    /\ \E kept \in SUBSET (IF at[m] = "log" THEN DOMAIN job[m].lines ELSE {}) :
         logged' = [logged EXCEPT ![m] = kept]
    /\ UNCHANGED <<balance, asked, answer, applied, job, line, why, outOfStep, journal>>

Handle(m) ==
    \/ LineMoved(m) \/ LineFailed(m) \/ LineUndone(m)
    \/ WriteJournal(m) \/ WritePointer(m) \/ RecordMovement(m)

---------------------------------------------------------------------------
(* The repository answers. *)

SettleLine(c) ==
    /\ Settle(c)
    /\ applied' = applied \cup {c}
    /\ UNCHANGED movement

RefuseLine(c) ==
    /\ NoticeShortage(c) \/ ReportShortage(c)
    /\ UNCHANGED <<applied, movement>>

AbandonLine(c) ==
    /\ Abandon(c)
    /\ UNCHANGED <<applied, movement>>

Replies(c) == SettleLine(c) \/ RefuseLine(c)

MovementsNext ==
    \/ \E m \in Movements : Begin(m) \/ Handle(m) \/ JournalFails(m) \/ Crash(m)
    \/ \E c \in Calls : Replies(c) \/ AbandonLine(c)

MovementsSpec == MovementsInit /\ [][MovementsNext]_movementVars

\* The repository answers every call (CallsRunOut of StockRepository)
\* and the event loop resumes a handler whose await is answered.
MovementsFairness ==
    /\ \A m \in Movements : WF_movementVars(Handle(m))
    /\ \A c \in Calls : WF_movementVars(Replies(c))

FairMovements == MovementsSpec /\ MovementsFairness

---------------------------------------------------------------------------
(* Properties. *)

\* Every variable has its type; the line of a running movement is one of its
\* lines.
MovementsTypeOK ==
    /\ balance \in [Locations -> [Products -> Int]]
    /\ asked \in [Calls -> Requests \cup {NoRequest}]
    /\ answer \in [Calls -> {"none", "open", "short", "done"} \cup Failures]
    /\ applied \subseteq Calls
    /\ at \in [Movements -> {"idle"} \cup Running \cup Ended]
    /\ job \in [Movements -> Jobs \cup {NoJob}]
    /\ \A m \in Movements : at[m] # "idle" => job[m] \in Jobs /\ line[m] \in DOMAIN job[m].lines
    /\ why \in [Movements -> {"none", "journal"} \cup Failures]
    /\ outOfStep \in [Movements -> SUBSET (1 .. MaxLines)]
    /\ journal \in [Movements -> {"none", "row", "row and pointer"}]
    /\ logged \in [Movements -> SUBSET (1 .. MaxLines)]

\* The lines whose units are not where they were before m.
Displaced(m) == {i \in 1 .. MaxLines : (MoveCall(m, i) \in applied) # (UndoCall(m, i) \in applied)}

\* A call of m failed although its units moved.
Lost(m) == \E c \in applied : c[1] = m /\ answer[c] = "error"

\* The journal never claims units that did not move: a movement with a journal
\* row or a log line has moved every one of its lines and undone none, and it
\* is answered as made only with its journal complete.
JournalIsTrue ==
    \A m \in Movements :
        /\ journal[m] # "none" \/ logged[m] # {} => Displaced(m) = DOMAIN job[m].lines
        /\ at[m] = "created" =>
              journal[m] = IF job[m].add = Nowhere THEN "row" ELSE "row and pointer"

\* A transfer or a deduction whose stock calls fail leaves moved exactly the
\* lines it reports as out of step, when no answer of a call that moved its
\* units was lost.
LeavesOnlyWhatItReports ==
    \A m \in Movements :
        at[m] = "failed" /\ why[m] # "journal" /\ Undoable(job[m]) /\ ~Lost(m)
        => Displaced(m) = outOfStep[m]

\* Every movement ends, however its lines fare, short of a crash: created or
\* failed.
EveryMovementEnds == \A m \in Movements : at[m] \in Running ~> at[m] \in Ended

\* How many steps a handler still makes at most, and an answer still takes.
StepsLeft(m) ==
    CASE at[m] = "idle"    -> 2 * MaxLines + 4
      [] at[m] = "move"    -> 2 * MaxLines + 4 - line[m]
      [] at[m] = "undo"    -> line[m]
      [] at[m] = "journal" -> 3
      [] at[m] = "pointer" -> 2
      [] at[m] = "log"     -> 1
      [] OTHER             -> 0

AnswerSteps(c) ==
    CASE answer[c] = "none"  -> 3
      [] answer[c] = "open"  -> 2
      [] answer[c] = "short" -> 1
      [] OTHER               -> 0

\* A movement and its undo come to an end, whatever fails: every step, of any
\* movement or of the repository, uses up some of the finitely many steps left, and
\* no step gives any back, so nothing is tried again and no undo is undone.
MovementsRunOut ==
    [][/\ \A m \in Movements : StepsLeft(m)' <= StepsLeft(m) /\ StepsLeft(m)' \in Nat
       /\ \A c \in Calls : AnswerSteps(c)' <= AnswerSteps(c)
       /\ \/ \E m \in Movements : StepsLeft(m)' < StepsLeft(m)
          \/ \E c \in Calls : AnswerSteps(c)' < AnswerSteps(c)]_movementVars
=============================================================================
