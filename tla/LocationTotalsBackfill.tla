----------------------- MODULE LocationTotalsBackfill -----------------------
(***************************************************************************)
(* scripts/backfill-location-totals.ts, run against live stock writes.     *)
(*                                                                         *)
(* An imported location has no totals. The script gives it zeros (Seed),   *)
(* after which stock writes move them; reads what the location row holds   *)
(* (ReadTotals), counts its stock rows (StockOf), and writes the count on  *)
(* condition that the location row still holds what was read               *)
(* (ReconcileWrite). A refused condition means another count.              *)
(*                                                                         *)
(* The rows are counted one by one: a Query is consistent row by row, and  *)
(* a long one is read in pages. Any request may throw, which ends the      *)
(* process; it is run again by hand. No location is deleted while it runs. *)
(***************************************************************************)
EXTENDS StockRepository

CONSTANTS
    CountAttempts,  \* ATTEMPTS of the script
    Runs            \* bound: how often the script is run

ASSUME CountAttemptsAssumption == CountAttempts \in Nat \ {0}
ASSUME RunsAssumption == Runs \in Nat

VARIABLES
    runs,       \* runs started
    todo,       \* locations the running scan has still to return
    at,         \* the location being reconciled, or Nowhere
    step,       \* what reconcile does next
    seen,       \* the totals read from the location row
    counted,    \* the quantities read so far, of the rows in its domain
    tries,      \* attempt of the reconcile loop
    outcome,    \* of the last reconcile of each location
    seeded,     \* history: the location got its zeros from the script
    moved,      \* history: stock writes to `at` since its totals were read, to 2
    raced,      \* history: the last count was accepted although stock had moved
    overwritten,\* history: it was written so, after two movements that cancelled out
    blind       \* history: a write changed a row and not the totals there were

script == <<runs, todo, at, step, seen, counted, tries, outcome>>
history == <<seeded, moved, raced, overwritten, blind>>
allVars == <<vars, script, history>>

NothingSeen == [units |-> Absent, items |-> Absent]
NoRows == [p \in {} |-> 0]

BackfillInit ==
    /\ Init
    /\ runs = 0 /\ todo = {} /\ at = Nowhere /\ step = "scan"
    /\ seen = NothingSeen /\ counted = NoRows /\ tries = 0
    /\ outcome = [l \in Locations |-> "none"]
    /\ seeded = [l \in Locations |-> FALSE]
    /\ moved = 0
    /\ raced = [l \in Locations |-> FALSE]
    /\ overwritten = [l \in Locations |-> FALSE]
    /\ blind = [l \in Locations |-> FALSE]

---------------------------------------------------------------------------
(* The script. *)

StartRun ==
    /\ step = "scan" /\ todo = {}
    /\ runs < Runs
    /\ runs' = runs + 1
    /\ todo' = Locations
    /\ outcome' = [l \in Locations |-> "none"]
    /\ UNCHANGED <<vars, at, step, seen, counted, tries, history>>

\* A mutant: the zeros are written over what the location keeps.
SeedsZeros ==
    /\ step = "scan" /\ \E l \in todo :
         /\ at' = l
         /\ todo' = todo \ {l}
         /\ seeded' = [seeded EXCEPT ![l] = @ \/ totalUnits[l] = Absent]
         /\ totalUnits' = [totalUnits EXCEPT ![l] = 0]
         /\ uniqueItems' = [uniqueItems EXCEPT ![l] = 0]
    /\ step' = "read" /\ tries' = 1
    /\ UNCHANGED <<stock, onHand, calls, runs, seen, counted, outcome, moved, raced, overwritten, blind>>

\* LOCATION_TOTALS_SEED on the next location: if_not_exists(total, 0).
Seed ==
    /\ step = "scan" /\ \E l \in todo :
         /\ at' = l
         /\ todo' = todo \ {l}
         /\ seeded' = [seeded EXCEPT ![l] = @ \/ totalUnits[l] = Absent]
         /\ totalUnits' = [totalUnits EXCEPT ![l] = Quantity(@)]
         /\ uniqueItems' = [uniqueItems EXCEPT ![l] = Quantity(@)]
    /\ step' = "read" /\ tries' = 1
    /\ UNCHANGED <<stock, onHand, calls, runs, seen, counted, outcome, moved, raced, overwritten, blind>>

\* A consistent Get of the location row.
ReadTotals ==
    /\ step = "read"
    /\ seen' = [units |-> totalUnits[at], items |-> uniqueItems[at]]
    /\ counted' = NoRows
    /\ moved' = 0
    /\ step' = "count"
    /\ UNCHANGED <<vars, runs, todo, at, tries, outcome, seeded, raced, overwritten, blind>>

\* The Query reads one more row.
StockOf(p) ==
    /\ step = "count"
    /\ p \in Products \ DOMAIN counted
    /\ counted' = [x \in DOMAIN counted \cup {p} |->
                      IF x = p THEN Quantity(stock[at][p]) ELSE counted[x]]
    /\ UNCHANGED <<vars, runs, todo, at, step, seen, tries, outcome, history>>

\* sumLocationStock over the rows that were read.
Actual == [units |-> Total(counted), items |-> Held(counted)]

\* reconcile returns: the scan goes on with the next location.
Outcome(o) ==
    /\ outcome' = [outcome EXCEPT ![at] = o]
    /\ at' = Nowhere /\ step' = "scan" /\ tries' = 0
    /\ seen' = NothingSeen /\ counted' = NoRows /\ moved' = 0
    /\ UNCHANGED <<runs, todo>>

Counted == step = "count" /\ DOMAIN counted = Products

\* totalsReconcileWrite returns null.
LeaveAlone ==
    /\ Counted
    /\ Actual = seen
    /\ Outcome("unchanged")
    /\ raced' = [raced EXCEPT ![at] = moved > 0]
    /\ UNCHANGED <<vars, seeded, overwritten, blind>>

\* A mutant: the condition pins the units only to exist.
StillExists(s) == totalUnits[at] # Absent

StillHolds(s) == s = [units |-> totalUnits[at], items |-> uniqueItems[at]]

ReconcileWrite ==
    /\ Counted
    /\ Actual # seen
    /\ StillHolds(seen)
    /\ totalUnits' = [totalUnits EXCEPT ![at] = Actual.units]
    /\ uniqueItems' = [uniqueItems EXCEPT ![at] = Actual.items]
    /\ Outcome("set")
    /\ raced' = [raced EXCEPT ![at] = moved > 1]
    /\ overwritten' = [overwritten EXCEPT ![at] = moved > 1]
    /\ UNCHANGED <<stock, onHand, calls, seeded, blind>>

\* The condition is refused: count again.
CountAgain ==
    /\ Counted
    /\ Actual # seen
    /\ ~StillHolds(seen)
    /\ tries < CountAttempts
    /\ tries' = tries + 1
    /\ step' = "read"
    /\ seen' = NothingSeen /\ counted' = NoRows /\ moved' = 0
    /\ UNCHANGED <<vars, runs, todo, at, outcome, seeded, raced, overwritten, blind>>

Busy ==
    /\ Counted
    /\ Actual # seen
    /\ ~StillHolds(seen)
    /\ tries >= CountAttempts
    /\ Outcome("busy")
    /\ UNCHANGED <<vars, seeded, raced, overwritten, blind>>

\* A request throws (or the process is killed): main rejects, the run is over.
Throw ==
    /\ todo # {} \/ at # Nowhere
    /\ at' = Nowhere /\ step' = "scan" /\ tries' = 0 /\ todo' = {}
    /\ seen' = NothingSeen /\ counted' = NoRows /\ moved' = 0
    /\ UNCHANGED <<vars, runs, outcome, seeded, raced, overwritten, blind>>

Script ==
    \/ StartRun \/ Seed \/ ReadTotals \/ (\E p \in Products : StockOf(p))
    \/ LeaveAlone \/ ReconcileWrite \/ CountAgain \/ Busy \/ Throw

---------------------------------------------------------------------------
(* Stock writes go on as they do without the script. *)

Live ==
    /\ Next
    /\ moved' = IF at # Nowhere /\ stock'[at] # stock[at] /\ moved < 2
                THEN moved + 1 ELSE moved
    /\ blind' = [l \in Locations |-> blind[l] \/
                    (/\ stock'[l] # stock[l]
                     /\ totalUnits[l] # Absent
                     /\ totalUnits'[l] = totalUnits[l])]
    /\ UNCHANGED <<script, seeded, raced, overwritten>>

BackfillNext == Script \/ Live

BackfillSpec == BackfillInit /\ [][BackfillNext]_allVars

---------------------------------------------------------------------------
(* Properties. *)

\* Every variable of the script has its type.
BackfillTypeOK ==
    /\ TypeOK
    /\ runs \in 0 .. Runs
    /\ todo \subseteq Locations
    /\ at \in Locations \cup {Nowhere}
    /\ step \in {"scan", "read", "count"}
    /\ step = "scan" <=> at = Nowhere
    /\ seen \in [units : Amount, items : Amount]
    /\ DOMAIN counted \subseteq Products
    /\ \A p \in DOMAIN counted : counted[p] \in Int
    /\ tries \in 0 .. CountAttempts
    /\ outcome \in [Locations -> {"none", "set", "unchanged", "busy"}]
    /\ seeded \in [Locations -> BOOLEAN]
    /\ moved \in 0 .. 2
    /\ raced \in [Locations -> BOOLEAN]
    /\ overwritten \in [Locations -> BOOLEAN]
    /\ blind \in [Locations -> BOOLEAN]

RightAt(l) ==
    /\ totalUnits[l] = Total(Shelf(l))
    /\ uniqueItems[l] = Held(Shelf(l))

\* A location the script reports as set or already right has the right totals
\* from then on, unless stock moved under the count unseen: a write that had
\* left the totals out before the seed, any write when the count happened to
\* equal what was read, two writes that cancelled out.
ReconciledIsRight ==
    \A l \in Locations :
        outcome[l] \in {"set", "unchanged"} /\ ~raced[l] /\ ~blind[l] => RightAt(l)

\* Totals that were kept before the script came stay right, in every run and also
\* in one that throws half way ("a total that is already kept is never touched"),
\* but for one case that the condition of the reconcile's write cannot tell: two or
\* more stock writes moved the rows while they were counted, the count saw some and
\* not others, and they left the totals at what had been read. The script then writes its wrong count
\* over them, and `overwritten` is where it did. A count that is merely found equal
\* touches nothing, so it is no excuse here.
KeptTotalsStayRight ==
    \A l \in Locations :
        totalUnits[l] # Absent /\ ~seeded[l] /\ ~overwritten[l] => RightAt(l)
=============================================================================
