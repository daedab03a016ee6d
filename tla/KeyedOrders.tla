------------------------------ MODULE KeyedOrders -----------------------------
(***************************************************************************)
(* What a client may rely on when it sends an Idempotency-Key with its     *)
(* checkouts, without saying how it is kept (DESIGN.md 1.3, the third      *)
(* invariant, and Scenario B).  A key stands for one order at most, made   *)
(* by one request that was not answered yet, of some units, for the total  *)
(* that this request expected.  A request is answered once, with the order *)
(* of its own key and the total it expected itself.  Orders and answers    *)
(* are never taken back.                                                   *)
(***************************************************************************)
EXTENDS Integers

CONSTANTS Requests, Keys, Prices, MaxQty,
          Totals        \* the totals a client may expect

VARIABLES asked,        \* asked[r]: the key and total r was sent with; {}: not sent
          placed,       \* the orders
          answered      \* answered[r]: the order and total r was told; {}: nothing yet

deskVars == <<asked, placed, answered>>

DeskInit ==
    /\ asked = [r \in Requests |-> {}]
    /\ placed = {}
    /\ answered = [r \in Requests |-> {}]

(* The answer to q is the order of its key.                                *)
Tell(r, q) ==
    /\ answered[r] = {}
    /\ \E o \in placed :
          /\ o.key = q.key
          /\ answered' = [answered EXCEPT ![r] = {[order |-> o.id, total |-> q.expected]}]

(* Answered at once if the key is known.                                   *)
Ask(r) ==
    /\ asked[r] = {}
    /\ UNCHANGED placed
    /\ \E q \in [key : Keys, expected : Totals] :
          /\ asked' = [asked EXCEPT ![r] = {q}]
          /\ UNCHANGED answered \/ Tell(r, q)

Place(r, q) ==
    /\ answered[r] = {}
    /\ \A o \in placed : o.key # q.key
    /\ \E units \in 1..MaxQty, price \in Prices :
          placed' = placed \union {[id |-> r, key |-> q.key, qty |-> units,
                                   unitPrice |-> price, total |-> q.expected]}
    /\ UNCHANGED <<asked, answered>>

Answer(r, q) == Tell(r, q) /\ UNCHANGED <<asked, placed>>

DeskNext ==
    \E r \in Requests : \/ Ask(r)
                        \/ \E q \in asked[r] : Place(r, q) \/ Answer(r, q)

DeskSpec == DeskInit /\ [][DeskNext]_deskVars
=============================================================================
