---------------------------- MODULE StockLedger ----------------------------
(***************************************************************************)
(* What a caller of the stock repository is promised, whatever else is     *)
(* being written at the same time: every stock write either moves all its  *)
(* units in one instant or moves none.                                     *)
(*                                                                         *)
(*   done          the units moved, once                                   *)
(*   insufficient  at an instant of the call the source held too little,   *)
(*                 and nothing moved                                       *)
(*   conflict      nothing moved: the rows kept changing                   *)
(*   error         the call failed on the way: the units moved once or     *)
(*                 not at all, and the caller cannot tell                  *)
(*                                                                         *)
(* A request names the location units are taken from, the one they are     *)
(* added to (either may be Nowhere), the product and the quantity.         *)
(***************************************************************************)
EXTENDS Integers

CONSTANTS Locations, Products, Calls, Quantities, Nowhere, NoRequest

VARIABLES balance, asked, answer

ledgerVars == <<balance, asked, answer>>

Requests ==
    {r \in [take : Locations \cup {Nowhere}, add : Locations \cup {Nowhere},
            product : Products, quantity : Quantities] : r.take # r.add}

\* The source can give the units; a supplier (no source) always can.
CanGive(r) == r.take # Nowhere => balance[r.take][r.product] >= r.quantity

\* The units of r leave the source and arrive at the destination.
Move(r) ==
    balance' = [l \in Locations |->
        IF l = r.take THEN [balance[l] EXCEPT ![r.product] = @ - r.quantity]
        ELSE IF l = r.add THEN [balance[l] EXCEPT ![r.product] = @ + r.quantity]
        ELSE balance[l]]

Becomes(c, a) == answer' = [answer EXCEPT ![c] = a]

LedgerInit ==
    /\ balance \in [Locations -> [Products -> Int]]
    /\ asked = [c \in Calls |-> NoRequest]
    /\ answer = [c \in Calls |-> "none"]

AskFor(c, r) ==
    /\ answer[c] = "none"
    /\ asked' = [asked EXCEPT ![c] = r]
    /\ Becomes(c, "open")
    /\ UNCHANGED balance

Ask(c) == \E r \in Requests : AskFor(c, r)

Settle(c) ==
    /\ answer[c] = "open"
    /\ CanGive(asked[c])
    /\ Move(asked[c])
    /\ Becomes(c, "done") \/ Becomes(c, "error")
    /\ UNCHANGED asked

\* The shortage is noticed at one instant and reported at a later one.
NoticeShortage(c) ==
    /\ answer[c] = "open"
    /\ ~CanGive(asked[c])
    /\ Becomes(c, "short")
    /\ UNCHANGED <<balance, asked>>

ReportShortage(c) ==
    /\ answer[c] = "short"
    /\ Becomes(c, "insufficient")
    /\ UNCHANGED <<balance, asked>>

Abandon(c) ==
    /\ answer[c] \in {"open", "short"}
    /\ Becomes(c, "conflict") \/ Becomes(c, "error")
    /\ UNCHANGED <<balance, asked>>

LedgerNext ==
    \E c \in Calls : \/ Ask(c) \/ Settle(c) \/ NoticeShortage(c)
                     \/ ReportShortage(c) \/ Abandon(c)

LedgerSpec == LedgerInit /\ [][LedgerNext]_ledgerVars
===========================================================================
