---------------------------- MODULE OutboxProofs ----------------------------
(***************************************************************************)
(* The outbox, for any rows, instances, overlapping ticks, batch size and  *)
(* number of attempts.  The attempt number that a claim returns is what    *)
(* the argument turns on: it is never above the row's counter, and the     *)
(* claim that raises the counter gets a number nobody else holds.  A tick  *)
(* that finds its row exhausted therefore holds the last attempt, and      *)
(* until it ends, or is cut short, the compensation is still to come.      *)
(***************************************************************************)
EXTENDS Outbox, TLAPS

(* A tick's attempt number is one that the row has counted.                *)
AttemptsAreCounted ==
    \A t \in Ticks, e \in Events :
        job[t][e].step # "none" =>
            1 <= job[t][e].attempt /\ job[t][e].attempt <= row[e].attempts

(* A handler that has returned has done its work, or had none to do.       *)
Done(e) == e \in handled \/ (e \in Initiates /\ order[e] # "PENDING_PAYMENT")

ReturnedIsDone ==
    \A t \in Ticks, e \in Events : job[t][e].step = "returned" => Done(e)

CompensatedIsClosed ==
    \A t \in Ticks, e \in Initiates :
        job[t][e].step = "compensated" => order[e] # "PENDING_PAYMENT" \/ e \in cut

OutboxInv ==
    /\ OutboxTypeOK
    /\ CompensatedIsClosed
    /\ ExhaustedIsCompensated
    /\ AttemptsAreCounted
    /\ AttemptsAreDistinct
    /\ ReturnedIsDone
    /\ CompletedWasDone
    /\ FailedAfterAllAttempts

-----------------------------------------------------------------------------
LEMMA OutboxInitInv == OutboxInit => OutboxInv
  <1>. SUFFICES ASSUME OutboxInit PROVE OutboxInv
    OBVIOUS
  <1>. USE OutboxAssumption DEF OutboxInit, Idle, Steps
  <1>1. OutboxTypeOK
    BY DEF OutboxTypeOK
  <1>2. AttemptsAreCounted /\ AttemptsAreDistinct /\ ReturnedIsDone
    BY DEF AttemptsAreCounted, AttemptsAreDistinct, ReturnedIsDone
  <1>3. CompletedWasDone /\ FailedAfterAllAttempts
    BY DEF CompletedWasDone, FailedAfterAllAttempts
  <1>4. CompensatedIsClosed /\ ExhaustedIsCompensated
    BY DEF CompensatedIsClosed, ExhaustedIsCompensated
  <1>. QED
    BY <1>1, <1>2, <1>3, <1>4 DEF OutboxInv

(* The types of single fields.                                             *)
LEMMA FieldTypes ==
  ASSUME OutboxTypeOK
  PROVE  /\ \A e \in Events : row[e].attempts \in 0..MaxAttempts
         /\ \A t \in Ticks, e \in Events : job[t][e].attempt \in 0..MaxAttempts
         /\ \A t \in Ticks, e \in Events : job[t][e].step \in Steps
         /\ MaxAttempts \in Int /\ MaxAttempts >= 1
  BY OutboxAssumption DEF OutboxTypeOK

(* What a tick changes, row by row.                                        *)
LEMMA TickStep ==
  ASSUME OutboxInv, NEW t \in Ticks, NEW S \in SUBSET Events, Tick(t, S)
  PROVE  OutboxInv'
  <1>. USE OutboxAssumption DEF OutboxInv
  <1>1. \A e \in S : row[e].attempts < MaxAttempts
    BY DEF Tick, Eligible
  <1>2. \A e \in Events : job[t][e].step = "none"
    BY DEF Tick, Working
  <1>3. \A e \in Events :
           /\ row'[e].attempts = IF e \in S THEN row[e].attempts + 1 ELSE row[e].attempts
           /\ row'[e].status = IF e \in S THEN "PROCESSING" ELSE row[e].status
    BY DEF Tick, Claim, OutboxTypeOK
  <1>4. /\ \A e \in Events :
              job'[t][e].step # "none" =>
                 /\ e \in S
                 /\ job'[t][e].step = "claimed"
                 /\ job'[t][e].attempt = row[e].attempts + 1
        /\ \A e \in Events :
              job'[t][e].attempt = IF e \in S THEN row[e].attempts + 1 ELSE job[t][e].attempt
        /\ \A u \in Ticks \ {t} : job'[u] = job[u]
    <2>1. job' = [job EXCEPT ![t] =
                     [e \in Events |->
                         IF e \in S THEN [step |-> "claimed", attempt |-> row[e].attempts + 1]
                                    ELSE job[t][e]]]
      BY DEF Tick, Claim
    <2>2. \A e \in Events :
             job'[t][e] = IF e \in S THEN [step |-> "claimed", attempt |-> row[e].attempts + 1]
                                     ELSE job[t][e]
      BY <2>1 DEF OutboxTypeOK
    <2>. QED
      BY <2>1, <2>2, <1>2 DEF OutboxTypeOK
  <1>5. OutboxTypeOK'
    <2>1. row' \in [Events -> [status : {"PENDING", "PROCESSING", "COMPLETED", "FAILED"},
                               attempts : 0..MaxAttempts]]
      BY <1>1, <1>3 DEF Tick, Claim, OutboxTypeOK
    <2>2. job' \in [Ticks -> [Events -> [step : Steps, attempt : 0..MaxAttempts]]]
      <3>1. \A e \in S : row[e].attempts + 1 \in 0..MaxAttempts
        BY <1>1, FieldTypes
      <3>2. [e \in Events |->
                IF e \in S THEN [step |-> "claimed", attempt |-> row[e].attempts + 1]
                           ELSE job[t][e]]
               \in [Events -> [step : Steps, attempt : 0..MaxAttempts]]
        BY <3>1 DEF OutboxTypeOK, Steps
      <3>. QED
        BY <3>2 DEF Tick, Claim, OutboxTypeOK
    <2>3. /\ (leased \subseteq Events)' /\ (delayed \subseteq Events)'
          /\ (handled \subseteq Events)'
          /\ (order \in [Initiates -> {"PENDING_PAYMENT", "PAYMENT_FAILED", "SETTLED"}])'
          /\ (server \in [Instances -> {"up", "stopping", "stopped", "down"}])'
          /\ (cut \subseteq Initiates)'
      BY DEF Tick, Claim, OutboxTypeOK
    <2>4. (currentTick \in [Instances -> Slots])'
      BY DEF Tick, OutboxTypeOK, Ticks
    <2>. QED
      BY <2>1, <2>2, <2>3, <2>4 DEF OutboxTypeOK
  <1>6. AttemptsAreCounted'
    <2>. SUFFICES ASSUME NEW u \in Ticks, NEW e \in Events, job'[u][e].step # "none"
                  PROVE  1 <= job'[u][e].attempt /\ job'[u][e].attempt <= row'[e].attempts
      BY DEF AttemptsAreCounted
    <2>1. CASE u = t
      BY <1>2, <1>3, <1>4, <2>1, FieldTypes
    <2>2. CASE u # t
      BY <1>3, <1>4, <2>2, FieldTypes DEF AttemptsAreCounted
    <2>. QED
      BY <2>1, <2>2
  <1>7. AttemptsAreDistinct'
    <2>. SUFFICES ASSUME NEW u \in Ticks, NEW v \in Ticks, NEW e \in Events, u # v,
                         job'[u][e].step # "none", job'[v][e].step # "none"
                  PROVE  job'[u][e].attempt # job'[v][e].attempt
      BY DEF AttemptsAreDistinct
    <2>1. CASE u # t /\ v # t
      BY <1>4, <2>1 DEF AttemptsAreDistinct
    <2>2. CASE u = t
      BY <1>2, <1>3, <1>4, <2>2, FieldTypes DEF AttemptsAreCounted
    <2>3. CASE v = t
      BY <1>2, <1>3, <1>4, <2>3, FieldTypes DEF AttemptsAreCounted
    <2>. QED
      BY <2>1, <2>2, <2>3
  <1>8. ReturnedIsDone'
    <2>1. \A u \in Ticks, e \in Events :
             job'[u][e].step = "returned" => job[u][e].step = "returned"
      BY <1>4
    <2>. QED
      BY <2>1 DEF ReturnedIsDone, Done, Tick
  <1>9. CompletedWasDone'
    <2>1. \A e \in Events : row'[e].status = "COMPLETED" => row[e].status = "COMPLETED"
      BY <1>3
    <2>. QED
      BY <2>1 DEF CompletedWasDone, Tick
  <1>10. FailedAfterAllAttempts'
    BY <1>1, <1>3 DEF FailedAfterAllAttempts, Tick
  <1>11. CompensatedIsClosed'
    <2>1. \A u \in Ticks, e \in Events :
             job'[u][e].step = "compensated" => job[u][e].step = "compensated"
      BY <1>4
    <2>. QED
      BY <2>1 DEF CompensatedIsClosed, Tick
  <1>12. ExhaustedIsCompensated'
    <2>. SUFFICES ASSUME NEW e \in Initiates, row'[e].attempts = MaxAttempts,
                         \A u \in Ticks : ~(job'[u][e].attempt >= MaxAttempts)
                  PROVE  (e \in handled \/ order[e] # "PENDING_PAYMENT" \/ e \in cut)'
      BY DEF ExhaustedIsCompensated, Exhausted
    <2>1. e \in Events
      OBVIOUS
    <2>2. e \notin S
      BY <1>3, <1>4, <2>1, FieldTypes
    <2>3. \A u \in Ticks : job'[u][e].attempt = job[u][e].attempt
      BY <1>4, <2>1, <2>2
    <2>. QED
      BY <1>3, <2>1, <2>2, <2>3 DEF ExhaustedIsCompensated, Exhausted, Tick
  <1>. QED
    BY <1>5, <1>6, <1>7, <1>8, <1>9, <1>10, <1>11, <1>12

(* A step of a tick's work on a row keeps its attempt number, and every    *)
(* other tick's work.                                                      *)
LEMMA GoesStep ==
  ASSUME OutboxTypeOK, NEW t \in Ticks, NEW e \in Events,
         NEW from \in Steps \ {"none"}, NEW to \in Steps, Goes(t, e, from, to)
  PROVE  /\ job' \in [Ticks -> [Events -> [step : Steps, attempt : 0..MaxAttempts]]]
         /\ job[t][e].step = from /\ job'[t][e].step = to
         /\ \A u \in Ticks, f \in Events : job'[u][f].attempt = job[u][f].attempt
         /\ \A u \in Ticks, f \in Events :
               <<u, f>> # <<t, e>> => job'[u][f] = job[u][f]
         /\ \A u \in Ticks, f \in Events :
               job'[u][f].step # "none" => job[u][f].step # "none"
  <1>1. job' = [job EXCEPT ![t][e].step = to] /\ job[t][e].step = from
    BY DEF Goes
  <1>2. \A u \in Ticks, f \in Events :
           /\ job[u][f] \in [step : Steps, attempt : 0..MaxAttempts]
           /\ job'[u][f] = IF u = t /\ f = e THEN [job[t][e] EXCEPT !.step = to] ELSE job[u][f]
    BY <1>1 DEF OutboxTypeOK
  <1>3. job' \in [Ticks -> [Events -> [step : Steps, attempt : 0..MaxAttempts]]]
    <2>1. [job[t][e] EXCEPT !.step = to] \in [step : Steps, attempt : 0..MaxAttempts]
      BY <1>2
    <2>2. [job[t] EXCEPT ![e].step = to] \in [Events -> [step : Steps, attempt : 0..MaxAttempts]]
      BY <2>1 DEF OutboxTypeOK
    <2>. QED
      BY <1>1, <2>2 DEF OutboxTypeOK
  <1>. QED
    BY <1>1, <1>2, <1>3

LEMMA HandlerStep ==
  ASSUME OutboxInv, NEW t \in Ticks, NEW e \in Events,
         \/ HandlerReads(t, e) \/ HandlerInitiates(t, e) \/ HandlerClearsCart(t, e)
         \/ HandlerThrows(t, e) \/ Compensate(t, e) \/ CompensationFails(t, e)
  PROVE  OutboxInv'
  <1>. USE OutboxAssumption DEF OutboxInv
  <1>1. PICK from \in Steps \ {"none"}, to \in Steps : Goes(t, e, from, to)
    BY DEF HandlerReads, HandlerInitiates, HandlerClearsCart, HandlerThrows,
           Compensate, CompensationFails, Steps
  <1>2. /\ job' \in [Ticks -> [Events -> [step : Steps, attempt : 0..MaxAttempts]]]
        /\ job[t][e].step = from /\ job'[t][e].step = to
        /\ \A u \in Ticks, f \in Events : job'[u][f].attempt = job[u][f].attempt
        /\ \A u \in Ticks, f \in Events :
              <<u, f>> # <<t, e>> => job'[u][f] = job[u][f]
        /\ \A u \in Ticks, f \in Events :
              job'[u][f].step # "none" => job[u][f].step # "none"
    BY <1>1, GoesStep
  <1>3. UNCHANGED <<row, leased, delayed, server, currentTick>>
    BY DEF HandlerReads, HandlerInitiates, HandlerClearsCart, HandlerThrows,
           Compensate, CompensationFails, SettleUnchanged
  <1>4. /\ handled \subseteq handled' /\ handled' \subseteq Events
        /\ cut \subseteq cut' /\ cut' \subseteq Initiates
    BY DEF HandlerReads, HandlerInitiates, HandlerClearsCart, HandlerThrows,
           Compensate, CompensationFails, SettleUnchanged, OutboxTypeOK
  <1>5. /\ order' \in [Initiates -> {"PENDING_PAYMENT", "PAYMENT_FAILED", "SETTLED"}]
        /\ \A f \in Initiates : order[f] # "PENDING_PAYMENT" => order'[f] = order[f]
        /\ \A f \in Initiates :
              order'[f] = order[f] \/ (f = e /\ Compensate(t, e))
    BY DEF HandlerReads, HandlerInitiates, HandlerClearsCart, HandlerThrows,
           Compensate, CompensationFails, OutboxTypeOK
  <1>6. OutboxTypeOK'
    BY <1>2, <1>3, <1>4, <1>5 DEF OutboxTypeOK
  <1>7. AttemptsAreCounted'
    BY <1>2, <1>3 DEF AttemptsAreCounted
  <1>8. AttemptsAreDistinct'
    BY <1>2 DEF AttemptsAreDistinct
  <1>9. \A f \in Events : Done(f) => Done(f)'
    BY <1>4, <1>5 DEF Done
  <1>10. job'[t][e].step = "returned" => Done(e)'
    <2>. SUFFICES ASSUME job'[t][e].step = "returned" PROVE Done(e)'
      OBVIOUS
    <2>1. CASE HandlerReads(t, e)
      BY <2>1, <1>2, <1>5 DEF HandlerReads, Goes, Done, OutboxTypeOK
    <2>2. CASE HandlerInitiates(t, e) \/ HandlerClearsCart(t, e)
      BY <2>2 DEF HandlerInitiates, HandlerClearsCart, Done
    <2>3. CASE HandlerThrows(t, e) \/ Compensate(t, e) \/ CompensationFails(t, e)
      BY <2>3 DEF HandlerThrows, Compensate, CompensationFails, Goes, OutboxTypeOK
    <2>. QED
      BY <2>1, <2>2, <2>3
  <1>11. ReturnedIsDone'
    BY <1>2, <1>9, <1>10 DEF ReturnedIsDone
  <1>12. CompletedWasDone'
    BY <1>3, <1>9 DEF CompletedWasDone, Done
  <1>13. FailedAfterAllAttempts'
    <2>1. Compensate(t, e) => row[e].attempts = MaxAttempts
      BY FieldTypes DEF Compensate, Exhausted, Goes, AttemptsAreCounted
    <2>. QED
      BY <1>3, <1>5, <2>1 DEF FailedAfterAllAttempts
  <1>14. CompensatedIsClosed'
    <2>1. e \in Initiates /\ job'[t][e].step = "compensated"
             => order'[e] # "PENDING_PAYMENT" \/ e \in cut'
      <3>1. CASE Compensate(t, e)
        BY <3>1 DEF Compensate, OutboxTypeOK
      <3>2. CASE CompensationFails(t, e)
        BY <3>2 DEF CompensationFails
      <3>3. CASE HandlerReads(t, e) \/ HandlerInitiates(t, e) \/ HandlerClearsCart(t, e)
                  \/ HandlerThrows(t, e)
        <4>1. job'[t][e].step \in {"asking", "returned", "threw"}
          BY <3>3 DEF HandlerReads, HandlerInitiates, HandlerClearsCart, HandlerThrows,
             Goes, OutboxTypeOK
        <4>. QED
          BY <4>1
      <3>. QED
        BY <3>1, <3>2, <3>3
    <2>2. \A u \in Ticks, f \in Initiates :
             <<u, f>> # <<t, e>> => job'[u][f] = job[u][f]
      BY <1>2
    <2>. QED
      BY <1>4, <1>5, <2>1, <2>2 DEF CompensatedIsClosed
  <1>15. ExhaustedIsCompensated'
    BY <1>2, <1>3, <1>4, <1>5 DEF ExhaustedIsCompensated, Exhausted
  <1>. QED
    BY <1>6, <1>7, <1>8, <1>11, <1>12, <1>13, <1>14, <1>15

LEMMA SettleStep ==
  ASSUME OutboxInv, NEW t \in Ticks, NEW e \in Events,
         \/ MarkCompleted(t, e) \/ MarkFailed(t, e) \/ ScheduleRetry(t, e)
         \/ JobLost(t, e)
  PROVE  OutboxInv'
  <1>. USE OutboxAssumption DEF OutboxInv
  <1>1. /\ job' \in [Ticks -> [Events -> [step : Steps, attempt : 0..MaxAttempts]]]
        /\ \A u \in Ticks, f \in Events :
              job'[u][f] = job[u][f] \/ job'[u][f].step = "none"
        /\ \A u \in Ticks, f \in Events :
              <<u, f>> # <<t, e>> => job'[u][f] = job[u][f]
    <2>1. job' = [job EXCEPT ![t][e] = Idle]
      BY DEF MarkCompleted, MarkFailed, ScheduleRetry, JobLost, Settle
    <2>. QED
      BY <2>1 DEF Idle, Steps, OutboxTypeOK
  <1>2. /\ row' \in [Events -> [status : {"PENDING", "PROCESSING", "COMPLETED", "FAILED"},
                                attempts : 0..MaxAttempts]]
        /\ \A f \in Events : row'[f].attempts = row[f].attempts
        /\ \A f \in Events : row'[f].status = "COMPLETED" =>
              row[f].status = "COMPLETED" \/ (f = e /\ MarkCompleted(t, e))
    <2>1. \/ row' = row
          \/ row' = [row EXCEPT ![e].status = "COMPLETED"] /\ MarkCompleted(t, e)
          \/ row' = [row EXCEPT ![e].status = "FAILED"]
          \/ row' = [row EXCEPT ![e].status = "PENDING"]
      BY DEF MarkCompleted, MarkFailed, ScheduleRetry, JobLost, Settle
    <2>2. CASE row' = row
      BY <2>2 DEF OutboxTypeOK
    <2>3. ASSUME NEW status \in {"COMPLETED", "FAILED", "PENDING"},
                 row' = [row EXCEPT ![e].status = status]
          PROVE  /\ row' \in [Events -> [status : {"PENDING", "PROCESSING", "COMPLETED", "FAILED"},
                                         attempts : 0..MaxAttempts]]
                 /\ \A f \in Events : row'[f].attempts = row[f].attempts
                 /\ \A f \in Events \ {e} : row'[f] = row[f]
                 /\ row'[e].status = status
      BY <2>3 DEF OutboxTypeOK
    <2>. QED
      BY <2>1, <2>2, <2>3
  <1>3. /\ UNCHANGED <<handled, order, server, currentTick>>
        /\ leased' \subseteq Events /\ delayed' \subseteq Events
        /\ cut \subseteq cut' /\ cut' \subseteq Initiates
    BY DEF MarkCompleted, MarkFailed, ScheduleRetry, JobLost, Settle, OutboxTypeOK
  <1>4. OutboxTypeOK'
    BY <1>1, <1>2, <1>3 DEF OutboxTypeOK
  <1>5. AttemptsAreCounted' /\ AttemptsAreDistinct' /\ ReturnedIsDone'
    <2>1. AttemptsAreCounted'
      BY <1>1, <1>2 DEF AttemptsAreCounted
    <2>2. AttemptsAreDistinct'
      <3>1. \A u \in Ticks, f \in Events :
               job'[u][f].step # "none" => job'[u][f] = job[u][f]
        BY <1>1
      <3>. QED
        BY <3>1 DEF AttemptsAreDistinct
    <2>3. ReturnedIsDone'
      <3>1. \A u \in Ticks, f \in Events :
               job'[u][f].step = "returned" => job[u][f].step = "returned"
        BY <1>1
      <3>. QED
        BY <1>3, <3>1 DEF ReturnedIsDone, Done
    <2>. QED
      BY <2>1, <2>2, <2>3
  <1>6. CompletedWasDone'
    BY <1>2, <1>3 DEF CompletedWasDone, ReturnedIsDone, Done, MarkCompleted
  <1>7. FailedAfterAllAttempts'
    BY <1>2, <1>3 DEF FailedAfterAllAttempts
  <1>8. CompensatedIsClosed'
    BY <1>1, <1>3 DEF CompensatedIsClosed
  <1>9. e \in Initiates /\ Exhausted(t, e)
           => e \in handled \/ order[e] # "PENDING_PAYMENT" \/ e \in cut'
    <2>. SUFFICES ASSUME e \in Initiates, Exhausted(t, e)
                  PROVE  e \in handled \/ order[e] # "PENDING_PAYMENT" \/ e \in cut'
      OBVIOUS
    <2>1. CASE MarkCompleted(t, e)
      BY <2>1 DEF MarkCompleted, ReturnedIsDone, Done
    <2>2. CASE MarkFailed(t, e)
      BY <1>3, <2>2 DEF MarkFailed, CompensatedIsClosed
    <2>3. CASE ScheduleRetry(t, e)
      BY <2>3 DEF ScheduleRetry
    <2>4. CASE JobLost(t, e)
      BY <2>4 DEF JobLost
    <2>. QED
      BY <2>1, <2>2, <2>3, <2>4
  <1>10. ExhaustedIsCompensated'
    <2>. SUFFICES ASSUME NEW f \in Initiates, row[f].attempts = MaxAttempts,
                         \A u \in Ticks : ~(job'[u][f].attempt >= MaxAttempts)
                  PROVE  f \in handled \/ order[f] # "PENDING_PAYMENT" \/ f \in cut'
      BY <1>2, <1>3 DEF ExhaustedIsCompensated, Exhausted
    <2>1. \A u \in Ticks : Exhausted(u, f) => u = t /\ f = e
      BY <1>1 DEF Exhausted
    <2>. QED
      BY <1>3, <1>9, <2>1 DEF ExhaustedIsCompensated
  <1>. QED
    BY <1>4, <1>5, <1>6, <1>7, <1>8, <1>10

LEMMA EnvironmentStep ==
  ASSUME OutboxInv,
         \/ \E e \in Events : LeaseExpires(e) \/ BackoffElapses(e)
         \/ \E e \in Initiates : OrderSettles(e)
         \/ \E i \in Instances : ServerNext(i)
         \/ UNCHANGED vars
  PROVE  OutboxInv'
  <1>. USE OutboxAssumption DEF OutboxInv
  <1>1. /\ job' \in [Ticks -> [Events -> [step : Steps, attempt : 0..MaxAttempts]]]
        /\ \A u \in Ticks, f \in Events :
              job'[u][f] = job[u][f] \/ job'[u][f].step = "none"
    <2>1. \/ job' = job
          \/ \E i \in Instances :
                job' = [t \in Ticks |-> IF t[1] = i THEN [e \in Events |-> Idle] ELSE job[t]]
      BY DEF LeaseExpires, BackoffElapses, OrderSettles, ServerNext, StopRequested,
             StopResolves, Exits, Restarts, vars
    <2>2. CASE job' = job
      BY <2>2 DEF OutboxTypeOK
    <2>3. ASSUME NEW i \in Instances,
                 job' = [t \in Ticks |-> IF t[1] = i THEN [e \in Events |-> Idle] ELSE job[t]]
          PROVE  /\ job' \in [Ticks -> [Events -> [step : Steps, attempt : 0..MaxAttempts]]]
                 /\ \A u \in Ticks, f \in Events :
                       job'[u][f] = job[u][f] \/ job'[u][f].step = "none"
      <3>1. [e \in Events |-> Idle] \in [Events -> [step : Steps, attempt : 0..MaxAttempts]]
        BY FieldTypes DEF Idle, Steps
      <3>2. \A u \in Ticks :
               job'[u] = IF u[1] = i THEN [e \in Events |-> Idle] ELSE job[u]
        BY <2>3
      <3>. QED
        BY <2>3, <3>1, <3>2 DEF OutboxTypeOK, Idle
    <2>. QED
      BY <2>1, <2>2, <2>3
  <1>2. UNCHANGED <<row, handled, currentTick>>
    BY DEF LeaseExpires, BackoffElapses, OrderSettles, ServerNext, StopRequested,
           StopResolves, Exits, Restarts, vars
  <1>3. leased' \subseteq Events /\ delayed' \subseteq Events
    BY DEF LeaseExpires, BackoffElapses, OrderSettles, ServerNext, StopRequested,
           StopResolves, Exits, Restarts, vars, OutboxTypeOK
  <1>4. server' \in [Instances -> {"up", "stopping", "stopped", "down"}]
    BY DEF LeaseExpires, BackoffElapses, OrderSettles, ServerNext, StopRequested,
           StopResolves, Exits, Restarts, vars, OutboxTypeOK
  <1>5. /\ order' \in [Initiates -> {"PENDING_PAYMENT", "PAYMENT_FAILED", "SETTLED"}]
        /\ \A f \in Initiates : order'[f] = order[f] \/ order'[f] = "SETTLED"
    BY DEF LeaseExpires, BackoffElapses, OrderSettles, ServerNext, StopRequested,
           StopResolves, Exits, Restarts, vars, OutboxTypeOK
  <1>a. /\ cut \subseteq cut' /\ cut' \subseteq Initiates
        /\ \/ job' = job
           \/ \E i \in Instances :
                 /\ \A u \in Ticks : u[1] # i => job'[u] = job[u]
                 /\ \A u \in Ticks, f \in Initiates :
                       u[1] = i /\ Exhausted(u, f) => f \in cut'
    <2>1. CASE \E i \in Instances : Exits(i)
      <3>1. PICK i \in Instances : Exits(i)
        BY <2>1
      <3>2. \A u \in Ticks : u[1] # i => job'[u] = job[u]
        BY <3>1 DEF Exits
      <3>. QED
        BY <3>1, <3>2 DEF Exits, OutboxTypeOK
    <2>2. CASE ~ \E i \in Instances : Exits(i)
      BY <2>2 DEF LeaseExpires, BackoffElapses, OrderSettles, ServerNext, StopRequested,
         StopResolves, Restarts, vars, OutboxTypeOK
    <2>. QED
      BY <2>1, <2>2
  <1>6. OutboxTypeOK'
    BY <1>1, <1>2, <1>3, <1>4, <1>5, <1>a DEF OutboxTypeOK
  <1>7. AttemptsAreCounted'
    BY <1>1, <1>2 DEF AttemptsAreCounted
  <1>8. AttemptsAreDistinct'
    BY <1>1 DEF AttemptsAreDistinct
  <1>9. ReturnedIsDone' /\ CompletedWasDone'
    BY <1>1, <1>2, <1>5 DEF ReturnedIsDone, CompletedWasDone, Done
  <1>10. FailedAfterAllAttempts'
    BY <1>2, <1>5 DEF FailedAfterAllAttempts
  <1>11. CompensatedIsClosed'
    BY <1>1, <1>5, <1>a DEF CompensatedIsClosed
  <1>12. ExhaustedIsCompensated'
    <2>. SUFFICES ASSUME NEW f \in Initiates, row[f].attempts = MaxAttempts,
                         \A u \in Ticks : ~(job'[u][f].attempt >= MaxAttempts)
                  PROVE  f \in handled \/ order'[f] # "PENDING_PAYMENT" \/ f \in cut'
      BY <1>2 DEF ExhaustedIsCompensated, Exhausted
    <2>1. CASE \A u \in Ticks : ~Exhausted(u, f)
      BY <1>5, <1>a, <2>1 DEF ExhaustedIsCompensated
    <2>2. ASSUME NEW u \in Ticks, Exhausted(u, f)  PROVE f \in cut'
      BY <1>a, <2>2 DEF Exhausted
    <2>. QED
      BY <2>1, <2>2
  <1>. QED
    BY <1>6, <1>7, <1>8, <1>9, <1>10, <1>11, <1>12

THEOREM OutboxInvariant == OutboxSpec => []OutboxInv
  <1>1. OutboxInv /\ [OutboxNext]_vars => OutboxInv'
    BY TickStep, HandlerStep, SettleStep, EnvironmentStep DEF OutboxNext, JobNext
  <1>. QED
    BY OutboxInitInv, <1>1, PTL DEF OutboxSpec

(* The counter of attempts stays within its maximum, and every field of a  *)
(* row and of a tick's work within its type.                               *)
THEOREM OutboxTypeCorrect == OutboxSpec => []OutboxTypeOK
  <1>1. OutboxInv => OutboxTypeOK
    BY DEF OutboxInv
  <1>. QED
    BY OutboxInvariant, <1>1, PTL

(* No two ticks work on a row as the same attempt.                         *)
THEOREM AttemptsNeverShared == OutboxSpec => []AttemptsAreDistinct
  <1>1. OutboxInv => AttemptsAreDistinct
    BY DEF OutboxInv
  <1>. QED
    BY OutboxInvariant, <1>1, PTL

(* Delivery is at least once: nothing is COMPLETED that was never done.    *)
THEOREM CompletedRowsWereDone == OutboxSpec => []CompletedWasDone
  <1>1. OutboxInv => CompletedWasDone
    BY DEF OutboxInv
  <1>. QED
    BY OutboxInvariant, <1>1, PTL

(* No order is failed by the outbox before its last attempt.               *)
THEOREM CompensationIsLast == OutboxSpec => []FailedAfterAllAttempts
  <1>1. OutboxInv => FailedAfterAllAttempts
    BY DEF OutboxInv
  <1>. QED
    BY OutboxInvariant, <1>1, PTL

(* Once the last attempt is over the order is not open without a charge,   *)
(* unless that attempt was cut short (outbox.processor.ts:217-232).        *)
THEOREM ExhaustionCompensates == OutboxSpec => []ExhaustedIsCompensated
  <1>1. OutboxInv => ExhaustedIsCompensated
    BY DEF OutboxInv
  <1>. QED
    BY OutboxInvariant, <1>1, PTL
=============================================================================
