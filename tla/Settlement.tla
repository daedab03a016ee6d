----------------------------- MODULE Settlement ------------------------------
(***************************************************************************)
(* How an order is settled: everything that decides whether an order is    *)
(* paid, and what becomes of its reservation.  Five parties compete: the   *)
(* customer (cancel, browser callback), the gateway's webhooks, the        *)
(* reconciliation job, the outbox's compensation and the expiry of         *)
(* reservations (module Inventory).  None of them holds a lock: they meet  *)
(* in the database, in transactions guarded by the order's status.         *)
(*                                                                         *)
(* A gateway call is never made inside a transaction, so every handler     *)
(* that asks the gateway acts on an answer about an order it read earlier. *)
(* The gateway itself is external and modelled from how the code uses it.  *)
(***************************************************************************)
EXTENDS Inventory

CONSTANTS
    EventKinds,      \* the kinds of webhook event that may be sent
    ChargeResults,   \* what a charge that goes through may capture
    GatewayRetries,  \* may a declined charge be paid later, same reference?
    LiveVerify       \* does provider.verify report the charge, or only PENDING?

ASSUME SettlementAssumption ==
    /\ EventKinds \subseteq {"charge.success", "charge.failed", "other", "unknown"}
    /\ ChargeResults \subseteq {"SUCCESS", "MISMATCH"}
    /\ GatewayRetries \in BOOLEAN
    /\ LiveVerify \in BOOLEAN

VARIABLES
    order,          \* the order document's status; NONE: not created
    payment,        \* the payment document's status
    event,          \* webhook events: on their way, or their document's status
    handling,       \* events whose handler passed Layer 1 and still runs
    verifying,      \* verifyOrderPayment requests of each order
    reconciling,    \* the reconciliation of each order it picked
    unfinished,     \* second transaction a two-step order operation still owes
    initiating,     \* orders whose INITIATE_PAYMENT row may still be compensated
    charge          \* the gateway's own record of the order's reference

orderVars  == <<order, payment>>
webhookVars == <<event, handling>>
pollVars   == <<verifying, reconciling>>
restVars   == <<unfinished, initiating, charge>>
settlementVars == <<inventoryVars, orderVars, webhookVars, pollVars, restVars>>

OrderStatus == {"NONE", "PENDING_PAYMENT", "PAID", "PAYMENT_FAILED", "CANCELLED", "EXPIRED"}
PaymentStatus == {"NONE", "INITIATED", "SUCCESS", "FAILED", "ABANDONED"}
EventStatus == {"NONE", "SENT", "RECEIVED", "PROCESSED", "IGNORED", "FAILED"}

(* "MISMATCH": captured, but not the amount or currency of the payment.    *)
ChargeStatus == {"PENDING", "SUCCESS", "FAILED", "MISMATCH"}

Pending(o) == order[o] = "PENDING_PAYMENT"

SettlementInit ==
    /\ InventoryInit
    /\ order = [o \in Orders |-> "NONE"]
    /\ payment = [o \in Orders |-> "NONE"]
    /\ event = [e \in Orders \X EventKinds |-> "NONE"]
    /\ handling = {}
    /\ verifying = [o \in Orders |-> "idle"]
    /\ reconciling = [o \in Orders |-> "idle"]
    /\ unfinished = [o \in Orders |-> "none"]
    /\ initiating = {}
    /\ charge = [o \in Orders |-> "PENDING"]

-----------------------------------------------------------------------------
(* What several handlers do in their transaction, always guarded by the    *)
(* status: an order that is not PENDING_PAYMENT keeps it, and its stock.   *)

(* Mutant: a reservation that is gone is no reason to refuse the payment.  *)
MarkPaidAnyway(o) ==
    IF Pending(o)
    THEN /\ order' = [order EXCEPT ![o] = "PAID"]
         /\ IF reservation[o].status = "ACTIVE"
            THEN CommitReservation(o)
            ELSE UNCHANGED <<inventory, reservation>>
    ELSE UNCHANGED <<order, inventory, reservation>>

(* An order whose reservation is gone aborts the transaction.              *)
MarkPaid(o) ==
    IF Pending(o)
    THEN order' = [order EXCEPT ![o] = "PAID"] /\ CommitReservation(o)
    ELSE UNCHANGED <<order, inventory, reservation>>

(* Mutant: the update is by _id, without the status.                       *)
MarkUnpaidByIdOnly(o, status) ==
    order' = [order EXCEPT ![o] = status] /\ ReleaseReservation(o)

(* Mutant: the reservation is released, the counter is forgotten.          *)
MarkUnpaidKeepsCounter(o, status) ==
    IF Pending(o) /\ reservation[o].status = "ACTIVE"
    THEN /\ order' = [order EXCEPT ![o] = status]
         /\ Settle(o, "RELEASED")
         /\ UNCHANGED inventory
    ELSE UNCHANGED <<order, inventory, reservation>>

MarkUnpaid(o, status) ==
    IF Pending(o)
    THEN order' = [order EXCEPT ![o] = status] /\ ReleaseReservation(o)
    ELSE UNCHANGED <<order, inventory, reservation>>

SetPayment(o, status) == payment' = [payment EXCEPT ![o] = status]

-----------------------------------------------------------------------------
(* The checkout transaction: reservation, order, payment and outbox rows.  *)
PlaceOrder(o, items) ==
    /\ order[o] = "NONE"
    /\ ReserveStock(o, items)
    /\ order' = [order EXCEPT ![o] = "PENDING_PAYMENT"]
    /\ SetPayment(o, "INITIATED")
    /\ initiating' = initiating \union {o}
    /\ UNCHANGED <<jobVars, webhookVars, pollVars, unfinished, charge>>

(* Cancel, markOrderPaid, markOrderPaymentFailed and expireOrder change    *)
(* the status in one write and the reservation in a later transaction.     *)
Transition(entryPoint, o, status, owes) ==
    /\ entryPoint \in EntryPoints
    /\ Pending(o)
    /\ order' = [order EXCEPT ![o] = status]
    /\ unfinished' = [unfinished EXCEPT ![o] = owes]
    /\ UNCHANGED <<inventoryVars, payment, webhookVars, pollVars, initiating, charge>>

CancelOrder(o) == Transition("cancelOrder", o, "CANCELLED", "release")
MarkOrderPaid(o) == Transition("markOrderPaid", o, "PAID", "commit")
MarkOrderPaymentFailed(o) ==
    Transition("markOrderPaymentFailed", o, "PAYMENT_FAILED", "release")
ExpireOrder(o) == Transition("expireOrder", o, "EXPIRED", "release")

FinishRelease(o) ==
    /\ unfinished[o] = "release"
    /\ ReleaseReservation(o)
    /\ unfinished' = [unfinished EXCEPT ![o] = "none"]
    /\ UNCHANGED <<jobVars, orderVars, webhookVars, pollVars, initiating, charge>>

FinishCommit(o) ==
    /\ unfinished[o] = "commit"
    /\ CommitReservation(o)
    /\ unfinished' = [unfinished EXCEPT ![o] = "none"]
    /\ UNCHANGED <<jobVars, orderVars, webhookVars, pollVars, initiating, charge>>

(* The process dies in between, or the second transaction throws.          *)
SecondStepLost(o) ==
    /\ unfinished[o] # "none"
    /\ unfinished' = [unfinished EXCEPT ![o] = "none"]
    /\ UNCHANGED <<inventoryVars, orderVars, webhookVars, pollVars, initiating, charge>>

-----------------------------------------------------------------------------
(* The gateway (external): charges, and the events it sends about them.    *)

Report(o, kind) == IF <<o, kind>> \in DOMAIN event THEN event[<<o, kind>>] ELSE "NONE"

Send(e) == event' = IF e \in DOMAIN event THEN [event EXCEPT ![e] = "SENT"] ELSE event

(* The authorization URL outlives the order: customers pay at any time.    *)
CustomerPays(o, result) ==
    /\ order[o] # "NONE"
    /\ charge[o] = "PENDING" \/ (GatewayRetries /\ charge[o] = "FAILED")
    /\ charge' = [charge EXCEPT ![o] = result]
    /\ Send(<<o, "charge.success">>)
    /\ UNCHANGED <<inventoryVars, orderVars, handling, pollVars, unfinished, initiating>>

ChargeDeclined(o) ==
    /\ order[o] # "NONE"
    /\ charge[o] = "PENDING"
    /\ charge' = [charge EXCEPT ![o] = "FAILED"]
    /\ Send(<<o, "charge.failed">>)
    /\ UNCHANGED <<inventoryVars, orderVars, handling, pollVars, unfinished, initiating>>

(* Any other type, or a reference that is no payment of this shop.         *)
GatewayNotifies(o, kind) ==
    /\ kind \in EventKinds \intersect {"other", "unknown"}
    /\ order[o] # "NONE"
    /\ event[<<o, kind>>] = "NONE"
    /\ Send(<<o, kind>>)
    /\ UNCHANGED <<inventoryVars, orderVars, handling, pollVars, restVars>>

-----------------------------------------------------------------------------
(* processWebhook.  Its first write is the event document, in no           *)
(* transaction; the rest follows later.  A second delivery of a received   *)
(* event answers DUPLICATE and changes nothing.                            *)
WebhookReceive(e) ==
    /\ "webhook" \in EntryPoints
    /\ event[e] = "SENT"
    /\ event' = [event EXCEPT ![e] = "RECEIVED"]
    /\ handling' = handling \union {e}
    /\ UNCHANGED <<inventoryVars, orderVars, pollVars, restVars>>

WebhookEnds(e, status) ==
    /\ e \in handling
    /\ handling' = handling \ {e}
    /\ event' = [event EXCEPT ![e] = status]
    /\ UNCHANGED <<jobVars, pollVars, restVars>>

WebhookIgnored(e) ==
    /\ e[2] \in {"unknown", "other"}
    /\ WebhookEnds(e, "IGNORED")
    /\ UNCHANGED <<inventory, reservation, orderVars>>

WebhookSuspiciousAmount(e) ==
    /\ e[2] = "charge.success" /\ charge[e[1]] = "MISMATCH"
    /\ WebhookEnds(e, "FAILED")
    /\ UNCHANGED <<inventory, reservation, orderVars>>

(* Mutant: a reservation that is gone is logged, and the event is done.    *)
WebhookSuccessGivesUp(e) ==
    /\ e[2] = "charge.success" /\ charge[e[1]] # "MISMATCH"
    /\ IF Pending(e[1]) /\ reservation[e[1]].status # "ACTIVE"
       THEN UNCHANGED <<order, inventory, reservation>>
       ELSE MarkPaid(e[1])
    /\ SetPayment(e[1], "SUCCESS")
    /\ WebhookEnds(e, "PROCESSED")

WebhookSuccess(e) ==
    /\ e[2] = "charge.success" /\ charge[e[1]] # "MISMATCH"
    /\ MarkPaid(e[1])
    /\ SetPayment(e[1], "SUCCESS")
    /\ WebhookEnds(e, "PROCESSED")

(* Mutant: a decline gives the stock back, and the customer may try again. *)
WebhookFailedStaysOpen(e) ==
    /\ e[2] = "charge.failed"
    /\ ReleaseReservation(e[1]) /\ UNCHANGED order
    /\ SetPayment(e[1], "FAILED")
    /\ WebhookEnds(e, "PROCESSED")

WebhookFailed(e) ==
    /\ e[2] = "charge.failed"
    /\ MarkUnpaid(e[1], "PAYMENT_FAILED")
    /\ SetPayment(e[1], "FAILED")
    /\ WebhookEnds(e, "PROCESSED")

(* A crash, an exhausted transaction or a throw: the document stays        *)
(* RECEIVED, and the next delivery is taken for a duplicate.               *)
WebhookLost(e) ==
    /\ e \in handling
    /\ handling' = handling \ {e}
    /\ UNCHANGED <<inventoryVars, orderVars, event, pollVars, restVars>>

-----------------------------------------------------------------------------
(* What provider.verify answers.  The PaymentProvider interface reports    *)
(* the charge; the Paystack provider in the code does not call the gateway *)
(* yet and answers PENDING.                                                *)
Answer(o) == IF LiveVerify THEN charge[o] ELSE "PENDING"

(* verifyOrderPayment: read the order, ask the gateway, then write.        *)
VerifyRead(o) ==
    /\ "verify" \in EntryPoints
    /\ Pending(o) /\ verifying[o] = "idle"
    /\ verifying' = [verifying EXCEPT ![o] = "asking"]
    /\ UNCHANGED <<inventoryVars, orderVars, webhookVars, reconciling, restVars>>

(* Mutant: SUCCESS is enough, the amount is not compared.                  *)
VerifyAskAnyAmount(o) ==
    LET paid == Answer(o) \in {"SUCCESS", "MISMATCH"} IN
    /\ verifying[o] = "asking"
    /\ verifying' = [verifying EXCEPT ![o] = IF paid THEN "confirmed" ELSE "idle"]
    /\ UNCHANGED <<inventoryVars, orderVars, webhookVars, reconciling, restVars>>

VerifyAsk(o) ==
    /\ verifying[o] = "asking"
    /\ verifying' = [verifying EXCEPT ![o] = IF Answer(o) = "SUCCESS" THEN "confirmed" ELSE "idle"]
    /\ UNCHANGED <<inventoryVars, orderVars, webhookVars, reconciling, restVars>>

(* The order is only updated if it is still PENDING_PAYMENT, the payment   *)
(* and the reservation are written in any case.                            *)
VerifyApply(o) ==
    /\ verifying[o] = "confirmed"
    /\ order' = IF Pending(o) THEN [order EXCEPT ![o] = "PAID"] ELSE order
    /\ SetPayment(o, "SUCCESS")
    /\ CommitReservation(o)
    /\ verifying' = [verifying EXCEPT ![o] = "idle"]
    /\ UNCHANGED <<jobVars, webhookVars, reconciling, restVars>>

VerifyLost(o) ==
    /\ verifying[o] # "idle"
    /\ verifying' = [verifying EXCEPT ![o] = "idle"]
    /\ UNCHANGED <<inventoryVars, orderVars, webhookVars, reconciling, restVars>>

-----------------------------------------------------------------------------
(* reconcilePendingOrders, one order of its batch at a time.  Its `now` is *)
(* the start of the batch: "late" remembers that the order was due then.   *)
(* Mutant: the comparison of expiresAt with now is the wrong way round.    *)
ReconcilePickReversed(o) ==
    /\ "reconcile" \in EntryPoints
    /\ Pending(o) /\ reconciling[o] = "idle"
    /\ reconciling' = [reconciling EXCEPT ![o] = IF o \in due THEN "picked" ELSE "late"]
    /\ UNCHANGED <<inventoryVars, orderVars, webhookVars, verifying, restVars>>

ReconcilePick(o) ==
    /\ "reconcile" \in EntryPoints
    /\ Pending(o) /\ reconciling[o] = "idle"
    /\ reconciling' = [reconciling EXCEPT ![o] = IF o \in due THEN "late" ELSE "picked"]
    /\ UNCHANGED <<inventoryVars, orderVars, webhookVars, verifying, restVars>>

(* A charge of the wrong amount, or one that is pending before its TTL,    *)
(* leaves the order as it is.                                              *)
Verdict(o) ==
    CASE Answer(o) \in {"SUCCESS", "FAILED"} -> Answer(o)
      [] Answer(o) = "PENDING" /\ reconciling[o] = "late" -> "ABANDONED"
      [] OTHER -> "idle"

ReconcileAsk(o) ==
    /\ reconciling[o] \in {"picked", "late"}
    /\ reconciling' = [reconciling EXCEPT ![o] = Verdict(o)]
    /\ UNCHANGED <<inventoryVars, orderVars, webhookVars, verifying, restVars>>

ReconcileApply(o) ==
    /\ \/ reconciling[o] = "SUCCESS" /\ MarkPaid(o)
       \/ reconciling[o] = "FAILED" /\ MarkUnpaid(o, "PAYMENT_FAILED")
       \/ reconciling[o] = "ABANDONED" /\ MarkUnpaid(o, "EXPIRED")
    /\ SetPayment(o, reconciling[o])
    /\ reconciling' = [reconciling EXCEPT ![o] = "idle"]
    /\ UNCHANGED <<jobVars, webhookVars, verifying, restVars>>

(* The gateway does not answer, the transaction throws, the process dies.  *)
ReconcileLost(o) ==
    /\ reconciling[o] # "idle"
    /\ reconciling' = [reconciling EXCEPT ![o] = "idle"]
    /\ UNCHANGED <<inventoryVars, orderVars, webhookVars, verifying, restVars>>

-----------------------------------------------------------------------------
(* The outbox row that initialises the charge; module Outbox has its       *)
(* claims and retries.  Out of retries, it fails the order, and a tick     *)
(* that lost its lease may do so after another one completed the row: it   *)
(* is done when no attempt at the row is left or running.                  *)
InitiatePaymentDone(o) ==
    /\ "outbox" \in EntryPoints
    /\ o \in initiating
    /\ initiating' = initiating \ {o}
    /\ UNCHANGED <<inventoryVars, orderVars, webhookVars, pollVars, unfinished, charge>>

(* Mutant: the payment fails whatever its status.                          *)
CompensateAnyPayment(o) ==
    /\ "outbox" \in EntryPoints
    /\ o \in initiating
    /\ MarkUnpaid(o, "PAYMENT_FAILED")
    /\ SetPayment(o, "FAILED")
    /\ initiating' = initiating \ {o}
    /\ UNCHANGED <<jobVars, webhookVars, pollVars, unfinished, charge>>

CompensateInitiatePayment(o) ==
    /\ "outbox" \in EntryPoints
    /\ o \in initiating
    /\ MarkUnpaid(o, "PAYMENT_FAILED")
    /\ SetPayment(o, IF payment[o] = "INITIATED" THEN "FAILED" ELSE payment[o])
    /\ initiating' = initiating \ {o}
    /\ UNCHANGED <<jobVars, webhookVars, pollVars, unfinished, charge>>

-----------------------------------------------------------------------------
CustomerNext(o) ==
    \/ \E items \in ItemLists : PlaceOrder(o, items)
    \/ CancelOrder(o) \/ MarkOrderPaid(o) \/ MarkOrderPaymentFailed(o) \/ ExpireOrder(o)
    \/ FinishRelease(o) \/ FinishCommit(o) \/ SecondStepLost(o)
    \/ VerifyRead(o) \/ VerifyAsk(o) \/ VerifyApply(o) \/ VerifyLost(o)

GatewayNext(o) ==
    \/ \E result \in ChargeResults : CustomerPays(o, result)
    \/ ChargeDeclined(o)
    \/ \E kind \in EventKinds : GatewayNotifies(o, kind)

WebhookNext(e) ==
    \/ WebhookReceive(e) \/ WebhookIgnored(e) \/ WebhookSuspiciousAmount(e)
    \/ WebhookSuccess(e) \/ WebhookFailed(e) \/ WebhookLost(e)

JobsNext(o) ==
    \/ ReconcilePick(o) \/ ReconcileAsk(o) \/ ReconcileApply(o) \/ ReconcileLost(o)
    \/ InitiatePaymentDone(o) \/ CompensateInitiatePayment(o)

StockNext ==
    /\ BackgroundNext \/ \E o \in Orders : ScheduleReservationExpiry(o)
    /\ UNCHANGED <<orderVars, webhookVars, pollVars, restVars>>

SettlementNext ==
    \/ \E o \in Orders : CustomerNext(o) \/ GatewayNext(o) \/ JobsNext(o)
    \/ \E e \in Orders \X EventKinds : WebhookNext(e)
    \/ StockNext

SettlementSpec == SettlementInit /\ [][SettlementNext]_settlementVars

(* The interval timer keeps starting sweeps, and a transaction that is     *)
(* attempted again and again is not aborted every time.  Nothing is        *)
(* assumed of customers, of the gateway, of a request that lost its        *)
(* process, nor of reconciliation, which nothing schedules.                *)
SweeperFairness ==
    \A s \in Sweepers :
        /\ WF_settlementVars(SweepStart(s) /\ UNCHANGED <<orderVars, webhookVars, pollVars, restVars>>)
        /\ \A o \in Orders :
              SF_settlementVars(SweepOne(s, o) /\ UNCHANGED <<orderVars, webhookVars, pollVars, restVars>>)

(* An order that is open at its TTL is due; time does not stop.            *)
ClockFairness ==
    \A o \in Orders :
        WF_settlementVars(TtlElapses(o) /\ UNCHANGED <<orderVars, webhookVars, pollVars, restVars>>)

FairSettlementSpec == SettlementSpec /\ SweeperFairness /\ ClockFairness

-----------------------------------------------------------------------------
SettlementTypeOK ==
    /\ InventoryTypeOK
    /\ order \in [Orders -> OrderStatus]
    /\ payment \in [Orders -> PaymentStatus]
    /\ event \in [Orders \X EventKinds -> EventStatus]
    /\ handling \subseteq Orders \X EventKinds
    /\ verifying \in [Orders -> {"idle", "asking", "confirmed"}]
    /\ reconciling \in [Orders -> {"idle", "picked", "late", "SUCCESS", "FAILED", "ABANDONED"}]
    /\ unfinished \in [Orders -> {"none", "release", "commit"}]
    /\ initiating \subseteq Orders
    /\ charge \in [Orders -> ChargeStatus]

(* invariant-checker.ts: every PAID order has a COMMITTED reservation.     *)
(* Whatever the sweeper, a cancellation or a second webhook did meanwhile. *)
PaidIsCommitted ==
    \A o \in Orders : order[o] = "PAID" => reservation[o].status = "COMMITTED"

(* DESIGN.md 4.2, ACTIVE --> COMMITTED: Order PAID.  Units leave the shelf *)
(* for paid orders only: a cancelled or failed order gives its units back. *)
SoldIsPaid ==
    \A o \in Orders : reservation[o].status = "COMMITTED" => order[o] = "PAID"

(* No order is PAID on a stale, partial or declined charge.                *)
PaidWasCharged == \A o \in Orders : order[o] = "PAID" => charge[o] = "SUCCESS"

(* No unit is sold for money that was not captured, not even by a          *)
(* verification that finds its order closed (payments.service.ts:383).     *)
SoldWasCharged ==
    \A o \in Orders : reservation[o].status = "COMMITTED" => charge[o] = "SUCCESS"

(* The gateway declined the charge at some time, and said so.              *)
Declined(o) == Report(o, "charge.failed") # "NONE"

(* Money the shop was told of is on record: once an order is PAID, or the  *)
(* report of its charge is PROCESSED, in time or after the order was       *)
(* closed, its payment says SUCCESS.  The unguarded writes of              *)
(* payments.service.ts:171, :306 and :324 leave two exceptions, each with  *)
(* its trace: a decline, heard of after the customer paid with another     *)
(* card, and a reconciliation that found the order due, and its charge     *)
(* pending, before it was paid.                                            *)
ReportedMoneyIsOnRecord ==
    \A o \in Orders :
        order[o] = "PAID" \/ Report(o, "charge.success") = "PROCESSED"
            => \/ payment[o] = "SUCCESS"
               \/ payment[o] = "FAILED" /\ Declined(o)
               \/ payment[o] = "ABANDONED" /\ o \in due

(* A webhook that is PROCESSED left nothing undone.  While an order is     *)
(* open although its charge is captured, the report is on its way, or its  *)
(* document still says RECEIVED: the handler is at work, died, or could    *)
(* not commit because the reservation is gone (payments.service.ts:120).   *)
NoReportIsDropped ==
    \A o \in Orders :
        Pending(o) /\ charge[o] = "SUCCESS"
            => Report(o, "charge.success") \in {"SENT", "RECEIVED"}

(* DESIGN.md, Scenario D: an open order has its stock, so that it can be   *)
(* paid.  Only expiry takes it away while the order stays open, and never  *)
(* before the TTL: a release belongs to an order that was closed first, a  *)
(* commit to one that was paid.                                            *)
OpenOrdersKeepStock ==
    \A o \in Orders :
        Pending(o) => \/ reservation[o].status = "ACTIVE"
                      \/ reservation[o].status = "EXPIRED" /\ o \in due

(* DESIGN.md, Scenario D: stock is committed if paid.  Whoever fails or    *)
(* expires an order whose charge is captured is behind the times: it heard *)
(* of a decline from before the capture, or it found the order past its    *)
(* TTL, or it is the outbox, which never learned whether the charge was    *)
(* initialised.                                                            *)
CapturedOrdersFailLate ==
    [][\A o \in Orders :
          (Pending(o) /\ charge[o] = "SUCCESS" /\ order'[o] \in {"PAYMENT_FAILED", "EXPIRED"})
              => \/ Declined(o)
                 \/ order'[o] = "EXPIRED" /\ o \in due
                 \/ order'[o] = "PAYMENT_FAILED" /\ o \in initiating]_settlementVars

(* DESIGN.md 1.3, fourth invariant, and the diagram of 4.1: PENDING_PAYMENT*)
(* is left once, for one status, for good.                                 *)
SettledForGood ==
    [][\A o \in Orders :
          order[o] \notin {"NONE", "PENDING_PAYMENT"} => order'[o] = order[o]]_settlementVars

(* Orders, payments and webhooks touch the stock only through the          *)
(* operations of the inventory component, so that what holds of it alone   *)
(* holds here.                                                             *)
ImplementsInventory == InventorySpec

Book == INSTANCE OrderBook
            WITH PaidFirst <- "markOrderPaid" \in EntryPoints,
                 SoldLate  <- "verify" \in EntryPoints,
                 status    <- order,
                 units     <- [o \in Orders |-> ClaimOf(reservation[o].status)],
                 captured  <- [o \in Orders |-> charge[o] = "SUCCESS"]

(* DESIGN.md 4.1 and 4.2, the two diagrams as one machine: whoever settles *)
(* an order, its status and its units change together, and PAID is for     *)
(* money that was captured.                                                *)
ImplementsOrderBook == Book!BookSpec

(* An order that is settled without being paid holds no stock in the end.  *)
UnpaidGivesBack ==
    \A o \in Orders :
        order[o] \in {"CANCELLED", "PAYMENT_FAILED", "EXPIRED"}
            ~> reservation[o].status # "ACTIVE"
=============================================================================
