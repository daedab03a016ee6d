------------------------------ MODULE OrderBook -------------------------------
(***************************************************************************)
(* What the shop promises about an order, its units and its money, without *)
(* saying who settles it: the order's status, the claim on its units and   *)
(* the customer's charge as one machine (DESIGN.md 4.1 and 4.2 together).  *)
(* An order becomes PAID for money that was captured, and in the same step *)
(* its units are sold; any other end leaves the units to be given back.    *)
(*                                                                         *)
(* Two entry points keep less than that, each when a deployment has it:    *)
(* markOrderPaid writes the status before the claim, on the caller's word  *)
(* that there was a charge, and verification sells the units of an order   *)
(* that was closed while it asked the gateway.                             *)
(***************************************************************************)
CONSTANTS
    Orders,
    PaidFirst,      \* may an order be PAID before its units are sold?
    SoldLate        \* may units be sold for a charge of a closed order?

VARIABLES
    status,     \* status[o]: as the customer sees it
    units,      \* units[o]: what became of the units: none, held, sold, returned
    captured    \* captured[o]: the gateway has captured what o costs

bookVars == <<status, units, captured>>

Ends == {"PAYMENT_FAILED", "CANCELLED", "EXPIRED"}

BookInit ==
    /\ status = [o \in Orders |-> "NONE"]
    /\ units = [o \in Orders |-> "none"]
    /\ captured = [o \in Orders |-> FALSE]

Open(o) ==
    /\ status[o] = "NONE" /\ units[o] = "none"
    /\ status' = [status EXCEPT ![o] = "PENDING_PAYMENT"]
    /\ units' = [units EXCEPT ![o] = "held"]
    /\ UNCHANGED captured

(* A customer may pay for an order that is closed already.                 *)
Capture(o) ==
    /\ status[o] # "NONE" /\ ~captured[o]
    /\ captured' = [captured EXCEPT ![o] = TRUE]
    /\ UNCHANGED <<status, units>>

Pay(o) ==
    /\ status[o] = "PENDING_PAYMENT" /\ units[o] = "held" /\ captured[o]
    /\ status' = [status EXCEPT ![o] = "PAID"]
    /\ units' = [units EXCEPT ![o] = "sold"]
    /\ UNCHANGED captured

(* With its units at once, or leaving them to whoever comes next.          *)
Close(o, end) ==
    /\ status[o] = "PENDING_PAYMENT"
    /\ status' = [status EXCEPT ![o] = end]
    /\ \/ UNCHANGED units
       \/ units[o] = "held" /\ units' = [units EXCEPT ![o] = "returned"]
    /\ UNCHANGED captured

(* Also while the order is open: a reservation has a TTL of its own.       *)
GiveBack(o) ==
    /\ units[o] = "held"
    /\ status[o] # "PAID" \/ PaidFirst
    /\ units' = [units EXCEPT ![o] = "returned"]
    /\ UNCHANGED <<status, captured>>

MarkPaid(o) ==
    /\ PaidFirst
    /\ status[o] = "PENDING_PAYMENT"
    /\ status' = [status EXCEPT ![o] = "PAID"]
    /\ UNCHANGED <<units, captured>>

SellAfterwards(o) ==
    /\ units[o] = "held"
    /\ \/ PaidFirst /\ status[o] = "PAID"
       \/ SoldLate /\ captured[o] /\ status[o] \in Ends
    /\ units' = [units EXCEPT ![o] = "sold"]
    /\ UNCHANGED <<status, captured>>

BookNext ==
    \E o \in Orders :
        \/ Open(o) \/ Capture(o) \/ Pay(o)
        \/ \E end \in Ends : Close(o, end)
        \/ GiveBack(o) \/ MarkPaid(o) \/ SellAfterwards(o)

BookSpec == BookInit /\ [][BookNext]_bookVars
=============================================================================
