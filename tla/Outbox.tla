------------------------------- MODULE Outbox -------------------------------
(***************************************************************************)
(* The outbox dispatcher: rows written by checkout, claimed under a lease  *)
(* and dispatched by the ticks of several server instances.                *)
(*                                                                         *)
(* Two things make it hard.  A lease ends by the clock, not when its       *)
(* handler ends, so two ticks may work on one row, and both write its      *)
(* outcome by _id.  And setInterval starts a tick whether or not the one   *)
(* before it has ended, so the ticks of one instance overlap as well.      *)
(*                                                                         *)
(* The claim loop of a tick is one action that takes a set of rows: its    *)
(* claims are separate writes, of rows no other tick can claim meanwhile.  *)
(***************************************************************************)
EXTENDS Integers, FiniteSets

CONSTANTS
    Events,        \* the outbox rows
    Initiates,     \* those of type INITIATE_PAYMENT; the others are CLEAR_CART
    MaxAttempts,   \* the maxAttempts of every row
    BatchSize,     \* BATCH_SIZE: rows claimed per tick
    Instances,     \* server processes
    Slots          \* bound: ticks of one instance that may overlap

ASSUME OutboxAssumption ==
    /\ Initiates \subseteq Events
    /\ MaxAttempts \in Nat \ {0}
    /\ BatchSize \in Nat \ {0}

Ticks == Instances \X Slots

VARIABLES
    row,        \* status and attempts of each row
    leased,     \* rows whose lockedUntil is in the future
    delayed,    \* rows whose nextAttemptAt is in the future
    job,        \* what a tick is doing for a row, and with which event.attempts
    handled,    \* rows whose handler has done its work at least once
    order,      \* the status of the order that an INITIATE_PAYMENT row is for
    server,     \* each instance: up, stopping, stopped, down
    currentTick,\* the slot of the instance's latest tick
    cut         \* history: INITIATE_PAYMENT rows whose last attempt was cut short

vars == <<row, leased, delayed, job, handled, order, server, currentTick, cut>>

Idle == [step |-> "none", attempt |-> 0]

Steps == {"none", "claimed", "asking", "returned", "threw", "compensated"}

(* The rows that a tick has claimed and not settled yet.                   *)
Working(t) == {e \in Events : job[t][e].step # "none"}

OutboxInit ==
    /\ row = [e \in Events |-> [status |-> "PENDING", attempts |-> 0]]
    /\ leased = {}
    /\ delayed = {}
    /\ job = [t \in Ticks |-> [e \in Events |-> Idle]]
    /\ handled = {}
    /\ order = [e \in Initiates |-> "PENDING_PAYMENT"]
    /\ server = [i \in Instances |-> "up"]
    /\ currentTick \in [Instances -> Slots]
    /\ cut = {}

-----------------------------------------------------------------------------
(* Mutant: a row whose tick died is not looked for.                        *)
EligiblePending(e) ==
    /\ row[e].status = "PENDING"
    /\ e \notin delayed
    /\ e \notin leased
    /\ row[e].attempts < MaxAttempts

(* The query of the claim.                                                 *)
Eligible(e) ==
    /\ row[e].status \in {"PENDING", "PROCESSING"}
    /\ e \notin delayed
    /\ e \notin leased
    /\ row[e].attempts < MaxAttempts

(* Mutant: the claim does not count the attempt.                           *)
ClaimUncounted(t, S) ==
    /\ row' = [e \in Events |-> IF e \in S THEN [row[e] EXCEPT !.status = "PROCESSING"] ELSE row[e]]
    /\ leased' = leased \union S
    /\ job' = [job EXCEPT ![t] =
                  [e \in Events |->
                      IF e \in S THEN [step |-> "claimed", attempt |-> row[e].attempts] ELSE @[e]]]

(* What findOneAndUpdate writes and returns, for the rows of one batch.    *)
Claim(t, S) ==
    /\ row' = [e \in Events |->
                  IF e \in S THEN [status |-> "PROCESSING", attempts |-> row[e].attempts + 1]
                             ELSE row[e]]
    /\ leased' = leased \union S
    /\ job' = [job EXCEPT ![t] =
                  [e \in Events |->
                      IF e \in S THEN [step |-> "claimed", attempt |-> row[e].attempts + 1]
                                 ELSE @[e]]]

(* A tick: it becomes currentTick, and claims what it finds.  Concurrent   *)
(* ticks share the rows in any way; a tick alone may find none.            *)
Tick(t, S) ==
    /\ server[t[1]] = "up"
    /\ Working(t) = {}
    /\ \A e \in S : Eligible(e)
    /\ Cardinality(S) <= BatchSize
    /\ S = {} => \A e \in Events : ~Eligible(e)
    /\ Claim(t, S)
    /\ currentTick' = [currentTick EXCEPT ![t[1]] = t[2]]
    /\ UNCHANGED <<delayed, handled, order, server, cut>>

-----------------------------------------------------------------------------
(* The handlers, one row of one tick at a time.                            *)
Goes(t, e, from, to) ==
    /\ job[t][e].step = from
    /\ job' = [job EXCEPT ![t][e].step = to]

SettleUnchanged == UNCHANGED <<row, leased, delayed, server, currentTick, cut>>

(* handleInitiatePayment reads the order: unless it is open, nothing to do.*)
HandlerReads(t, e) ==
    /\ e \in Initiates
    /\ Goes(t, e, "claimed", IF order[e] = "PENDING_PAYMENT" THEN "asking" ELSE "returned")
    /\ UNCHANGED <<handled, order>> /\ SettleUnchanged

(* The gateway initialises the charge and its URL is stored.               *)
HandlerInitiates(t, e) ==
    /\ Goes(t, e, "asking", "returned")
    /\ handled' = handled \union {e}
    /\ UNCHANGED order /\ SettleUnchanged

HandlerClearsCart(t, e) ==
    /\ e \notin Initiates
    /\ Goes(t, e, "claimed", "returned")
    /\ handled' = handled \union {e}
    /\ UNCHANGED order /\ SettleUnchanged

(* The handler throws, and so may the write of COMPLETED after it.         *)
HandlerThrows(t, e) ==
    /\ \E from \in {"claimed", "asking", "returned"} : Goes(t, e, from, "threw")
    /\ UNCHANGED <<handled, order>> /\ SettleUnchanged

(* Mutant: an attempt too early.                                           *)
ExhaustedEarly(t, e) == job[t][e].attempt >= MaxAttempts - 1

(* Mutant: an attempt too late.                                            *)
ExhaustedLate(t, e) == job[t][e].attempt > MaxAttempts

(* By what this tick claimed, not by what the row says by now.             *)
Exhausted(t, e) == job[t][e].attempt >= MaxAttempts

Compensate(t, e) ==
    /\ e \in Initiates
    /\ Exhausted(t, e)
    /\ Goes(t, e, "threw", "compensated")
    /\ order' = IF order[e] = "PENDING_PAYMENT"
                THEN [order EXCEPT ![e] = "PAYMENT_FAILED"] ELSE order
    /\ UNCHANGED handled /\ SettleUnchanged

(* The compensation's own failure is logged, nothing more.                 *)
CompensationFails(t, e) ==
    /\ e \in Initiates
    /\ Exhausted(t, e)
    /\ Goes(t, e, "threw", "compensated")
    /\ cut' = cut \union {e}
    /\ UNCHANGED <<row, leased, delayed, handled, order, server, currentTick>>

(* The row's outcome is written by _id, and its lease dropped, whoever     *)
(* holds the lease by now.                                                 *)
Settle(t, e, status) ==
    /\ job' = [job EXCEPT ![t][e] = Idle]
    /\ row' = [row EXCEPT ![e].status = status]
    /\ leased' = leased \ {e}
    /\ UNCHANGED <<handled, order, server, currentTick, cut>>

(* Mutant: the row is completed before its handler has returned.           *)
MarkCompletedFirst(t, e) ==
    /\ job[t][e].step \in {"asking", "returned"}
    /\ Settle(t, e, "COMPLETED")
    /\ UNCHANGED delayed

MarkCompleted(t, e) ==
    /\ job[t][e].step = "returned"
    /\ Settle(t, e, "COMPLETED")
    /\ UNCHANGED delayed

MarkFailed(t, e) ==
    /\ Exhausted(t, e)
    /\ job[t][e].step = IF e \in Initiates THEN "compensated" ELSE "threw"
    /\ Settle(t, e, "FAILED")
    /\ UNCHANGED delayed

ScheduleRetry(t, e) ==
    /\ ~Exhausted(t, e)
    /\ job[t][e].step = "threw"
    /\ Settle(t, e, "PENDING")
    /\ delayed' = delayed \union {e}

(* The write of FAILED or PENDING throws: allSettled swallows it, and the  *)
(* row stays PROCESSING under a lease nobody renews.                       *)
JobLost(t, e) ==
    /\ job[t][e].step \in {"threw", "compensated"}
    /\ job' = [job EXCEPT ![t][e] = Idle]
    /\ cut' = cut \union {d \in Initiates : d = e /\ Exhausted(t, d)}
    /\ UNCHANGED <<row, leased, delayed, handled, order, server, currentTick>>

-----------------------------------------------------------------------------
(* The clock, the other writers of the order, and the server's life.       *)
LeaseExpires(e) ==
    /\ e \in leased
    /\ leased' = leased \ {e}
    /\ UNCHANGED <<row, delayed, job, handled, order, server, currentTick, cut>>

BackoffElapses(e) ==
    /\ e \in delayed
    /\ delayed' = delayed \ {e}
    /\ UNCHANGED <<row, leased, job, handled, order, server, currentTick, cut>>

(* Module Settlement has the handlers that settle an order otherwise.      *)
OrderSettles(e) ==
    /\ order[e] = "PENDING_PAYMENT"
    /\ order' = [order EXCEPT ![e] = "SETTLED"]
    /\ UNCHANGED <<row, leased, delayed, job, handled, server, currentTick, cut>>

(* stop() clears the interval and awaits currentTick.                      *)
StopRequested(i) ==
    /\ server[i] = "up"
    /\ server' = [server EXCEPT ![i] = "stopping"]
    /\ UNCHANGED <<row, leased, delayed, job, handled, order, currentTick, cut>>

StopResolves(i) ==
    /\ server[i] = "stopping"
    /\ Working(<<i, currentTick[i]>>) = {}
    /\ server' = [server EXCEPT ![i] = "stopped"]
    /\ UNCHANGED <<row, leased, delayed, job, handled, order, currentTick, cut>>

(* A crash, the forced exit after 10 seconds, or the exit after a stop.    *)
Exits(i) ==
    /\ server[i] # "down"
    /\ server' = [server EXCEPT ![i] = "down"]
    /\ job' = [t \in Ticks |-> IF t[1] = i THEN [e \in Events |-> Idle] ELSE job[t]]
    /\ cut' = cut \union {e \in Initiates : \E t \in Ticks : t[1] = i /\ Exhausted(t, e)}
    /\ UNCHANGED <<row, leased, delayed, handled, order, currentTick>>

Restarts(i) ==
    /\ server[i] = "down"
    /\ server' = [server EXCEPT ![i] = "up"]
    /\ UNCHANGED <<row, leased, delayed, job, handled, order, currentTick, cut>>

-----------------------------------------------------------------------------
JobNext(t, e) ==
    \/ HandlerReads(t, e) \/ HandlerInitiates(t, e) \/ HandlerClearsCart(t, e)
    \/ HandlerThrows(t, e)
    \/ Compensate(t, e) \/ CompensationFails(t, e)
    \/ MarkCompleted(t, e) \/ MarkFailed(t, e) \/ ScheduleRetry(t, e) \/ JobLost(t, e)

ServerNext(i) == StopRequested(i) \/ StopResolves(i) \/ Exits(i) \/ Restarts(i)

OutboxNext ==
    \/ \E t \in Ticks, S \in SUBSET Events : Tick(t, S)
    \/ \E t \in Ticks, e \in Events : JobNext(t, e)
    \/ \E e \in Events : LeaseExpires(e) \/ BackoffElapses(e)
    \/ \E e \in Initiates : OrderSettles(e)
    \/ \E i \in Instances : ServerNext(i)

OutboxSpec == OutboxInit /\ [][OutboxNext]_vars

(* The clock runs, an instance that is asked to stop exits (it is forced   *)
(* to after 10 seconds) and one that is down comes back, handlers return   *)
(* or throw, and a row that is eligible again and again is claimed by      *)
(* a tick in the end.  Crashes and failing handlers are not excluded.      *)
OutboxFairness ==
    /\ \A e \in Events :
          /\ WF_vars(LeaseExpires(e))
          /\ WF_vars(BackoffElapses(e))
          /\ SF_vars(\E t \in Ticks, S \in SUBSET Events : e \in S /\ Tick(t, S))
          /\ \A t \in Ticks : WF_vars(JobNext(t, e))
    /\ \A i \in Instances :
          /\ WF_vars(Restarts(i))
          /\ WF_vars(server[i] \in {"stopping", "stopped"} /\ Exits(i))

FairOutboxSpec == OutboxSpec /\ OutboxFairness

-----------------------------------------------------------------------------
(* attempts never passes maxAttempts, however many ticks race for the row. *)
OutboxTypeOK ==
    /\ row \in [Events -> [status : {"PENDING", "PROCESSING", "COMPLETED", "FAILED"},
                           attempts : 0..MaxAttempts]]
    /\ leased \subseteq Events
    /\ delayed \subseteq Events
    /\ job \in [Ticks -> [Events -> [step : Steps, attempt : 0..MaxAttempts]]]
    /\ handled \subseteq Events
    /\ order \in [Initiates -> {"PENDING_PAYMENT", "PAYMENT_FAILED", "SETTLED"}]
    /\ server \in [Instances -> {"up", "stopping", "stopped", "down"}]
    /\ currentTick \in [Instances -> Slots]
    /\ cut \subseteq Initiates

(* The attempt number a tick claims is its own: two ticks may work on one  *)
(* row, after a lease ran out, but never as the same attempt, so at most   *)
(* one of them ever finds the row exhausted and compensates.               *)
AttemptsAreDistinct ==
    \A t, u \in Ticks, e \in Events :
        (t # u /\ job[t][e].step # "none" /\ job[u][e].step # "none")
            => job[t][e].attempt # job[u][e].attempt

(* At least once: a COMPLETED row had its charge initialised or its cart   *)
(* cleared, unless its order needed no charge any more.                    *)
CompletedWasDone ==
    \A e \in Events :
        row[e].status = "COMPLETED"
            => \/ e \in handled
               \/ e \in Initiates /\ order[e] # "PENDING_PAYMENT"

(* The outbox fails an order only once every attempt was made.             *)
FailedAfterAllAttempts ==
    \A e \in Initiates :
        order[e] = "PAYMENT_FAILED" => row[e].attempts = MaxAttempts

(* A row that is neither COMPLETED nor FAILED and has attempts left is     *)
(* tried again, whatever crashed while it was leased: so it runs out of    *)
(* attempts, or is settled, again and again.                               *)
UnsettledRowsAreRetried ==
    \A e \in Events :
        []<>(row[e].attempts = MaxAttempts \/ row[e].status \in {"COMPLETED", "FAILED"})

(* DESIGN.md, Scenario C, as far as it goes: once the last attempt is over *)
(* the order is not left open without a charge, unless that attempt was    *)
(* cut short: its process died, or its compensation failed.  Nobody can    *)
(* claim the row again then.                                               *)
ExhaustedIsCompensated ==
    \A e \in Initiates :
        (row[e].attempts = MaxAttempts /\ \A t \in Ticks : ~Exhausted(t, e))
            => e \in handled \/ order[e] # "PENDING_PAYMENT" \/ e \in cut
=============================================================================
