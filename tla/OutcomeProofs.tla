--------------------------- MODULE OutcomeProofs ---------------------------
(* What becomes of a stored notification, for any number of requests,        *)
(* workers, promoters and cancel requests, any attempt limit and any number  *)
(* of failures: the notifier implements the delivery contract.               *)
EXTENDS NotifierProofs, FiniteSetTheorems

\* The places of SingleToken, as the steps see them.
Elsewhere(n) ==
    \/ Unplaced(n) \/ queue[n] > 0
    \/ zset["sched"][n] # "absent" \/ zset["retry"][n] # "absent"
    \/ \E p \in Promoters : pheld[p] = n

Near(n) == Elsewhere(n) \/ \E w \in Workers : wid[w] = n

LEMMA NearIsLive == ASSUME TypeOK, NEW n \in Notif PROVE Near(n) <=> Live(n)
<1>. USE ConstantsAssumption DEF TypeOK, WorkerTypes, PromoterTypes, Stores
<1>1. ASSUME Near(n) PROVE Live(n)
    <2>1. CASE Unplaced(n)
        <3>1. "create" \in Place /\ Holds("create", n) BY <2>1 DEF Holds, Place, Unplaced
        <3>. QED BY <3>1 DEF Live
    <2>2. CASE queue[n] > 0
        <3>1. "queue" \in Place /\ Holds("queue", n) BY <2>2 DEF Holds, Place
        <3>. QED BY <3>1 DEF Live
    <2>3. CASE zset["sched"][n] # "absent"
        <3>1. "sched" \in Place /\ Holds("sched", n) BY <2>3 DEF Holds, Place
        <3>. QED BY <3>1 DEF Live
    <2>4. CASE zset["retry"][n] # "absent"
        <3>1. "retry" \in Place /\ Holds("retry", n) BY <2>4 DEF Holds, Place
        <3>. QED BY <3>1 DEF Live
    <2>5. ASSUME NEW p \in Promoters, pheld[p] = n PROVE Live(n)
        <3>1. p \in Place /\ Holds(p, n) BY <2>5 DEF Holds, Place
        <3>. QED BY <3>1 DEF Live
    <2>6. ASSUME NEW w \in Workers, wid[w] = n PROVE Live(n)
        <3>1. wpc[w] # "idle" BY <2>6
        <3>2. w \in Place /\ Holds(w, n) BY <2>6, <3>1 DEF Holds, Place
        <3>. QED BY <3>2 DEF Live
    <2>. QED BY <1>1, <2>1, <2>2, <2>3, <2>4, <2>5, <2>6 DEF Near, Elsewhere
<1>2. ASSUME Live(n) PROVE Near(n)
    BY <1>2 DEF Live, Holds, Place, Near, Elsewhere, Unplaced
<1>. QED BY <1>1, <1>2

LEMMA WorkerAlone ==
    ASSUME TypeOK, AllApart, NEW w \in Workers, wpc[w] # "idle"
    PROVE  /\ wid[w] \in Notif /\ ~Elsewhere(wid[w])
           /\ \A v \in Workers : wid[v] = wid[w] => v = w
<1>1. wid[w] \in Notif BY DEF TypeOK, WorkerTypes
<1>2. Apart(wid[w]) BY <1>1 DEF AllApart
<1>. QED BY <1>1, <1>2
     DEF Apart, Elsewhere, Unplaced, NotQueued, NotSet, NotHeld, NotWorked, TypeOK, RedisTypes

\* The steps of a system in which nothing has failed.
Faultless ==
    /\ faults = 0 /\ faults' = 0
    /\ \/ \E n \in Notif : CreateStep(n)
       \/ \E x \in Cancellers : CancelStep(x) \/ \E n \in Notif : CancelCheck(x, n)
       \/ \E w \in Workers : ProcessStep(w) \/ \E n \in Notif : Dequeue(w, n)
       \/ \E p \in Promoters : PromoteStep(p)
       \/ \E k \in Keys : ExpireKey(k)
       \/ \E s \in Stores, n \in Notif : Elapse(s, n)
       \/ UNCHANGED vars

LEMMA NoFaultYet == TypeOK /\ [Next]_vars /\ faults' = 0 => Faultless
<1>. SUFFICES ASSUME TypeOK, [Next]_vars, faults' = 0 PROVE Faultless OBVIOUS
<1>. faults \in Nat BY BoundsAssumption DEF TypeOK
<1>. USE DEF Fault, Ignored, Faultless
<1>1. ASSUME NEW n \in Notif, CreateStep(n) \/ CreateAbort(n) PROVE Faultless
    BY <1>1 DEF CreateStep, CreateCall, Lookup, Build, Claim, Recall, Fetch, Insert, PlaceItem, Finish,
                Confirm, CreateAbort
<1>2. ASSUME NEW x \in Cancellers,
             CancelStep(x) \/ CancelAbort(x) \/ \E n \in Notif : CancelCheck(x, n)
      PROVE  Faultless
    BY <1>2 DEF CancelStep, CancelAbort, CancelCheck, CancelDequeue, CancelUnschedule,
                CancelCommit
<1>3. ASSUME NEW w \in Workers,
             ProcessStep(w) \/ WorkerAbort(w) \/ \E n \in Notif : Dequeue(w, n)
      PROVE  Faultless
    <2>1. ~WorkerAbort(w) BY DEF WorkerAbort
    <2>2. faults = 0
        BY <1>3, <2>1
        DEF ProcessStep, Dequeue, Load, Limit, Throttle, MarkSending, Send, LogAttempt, Deliver,
            DeadLetter, Fail, Requeue, ScheduleRetry
    <2>. QED BY <1>3, <2>1, <2>2
<1>4. ASSUME NEW p \in Promoters, PromoteStep(p) \/ PromoterAbort(p) PROVE Faultless
    BY <1>4 DEF PromoteStep, PromoterAbort, Scan, ClaimDue, Promote
<1>5. ASSUME NEW k \in Keys, ExpireKey(k) PROVE Faultless BY <1>5 DEF ExpireKey
<1>6. ASSUME NEW s \in Stores, NEW n \in Notif, Elapse(s, n) PROVE Faultless
    BY <1>6 DEF Elapse
<1>7. CASE UNCHANGED vars BY <1>7 DEF vars
<1>. QED BY <1>1, <1>2, <1>3, <1>4, <1>5, <1>6, <1>7 DEF Next, Backend

-----------------------------------------------------------------------------
(* Why an item is gone: everything that makes a handler drop one (what its   *)
(* row says, a dead letter, a removal) is backed by what happened before: an *)
(* accepted send, attempts enough, a cancel request or a failure.            *)

RowReason(n) ==
    /\ status[n] = "cancelled" => cancelReq[n]
    /\ status[n] = "delivered" => confirmed[n]
    /\ Unplaced(n) /\ cpc[n] # "place" => ~Exists(n)
    /\ attempts[n] <= sends[n]
    /\ confirmed[n] \/ dlq[n] > 0 => Exists(n) /\ ~Elsewhere(n)

\* A worker that holds an accepted or a dead-lettered item is about to drop it.
WorkerReason(w, n) ==
    wid[w] = n =>
        /\ wpc[w] # "get" => Exists(n) /\ watt[w] <= sends[n]
        /\ wpc[w] \in Recording => watt[w] + 1 <= sends[n]
        /\ wpc[w] = "bury" => Exhausted(w)
        /\ confirmed[n] <=> wpc[w] \in {"logDelivered", "deliver"}
        /\ dlq[n] > 0 => wpc[w] = "fail"
        /\ wpc[w] = "fail" => dlq[n] > 0 \/ faults > 0

Reason(n) == RowReason(n) /\ \A w \in Workers : WorkerReason(w, n)

CancelReason(x) ==
    xpc[x] # "idle" => cancelReq[xid[x]] /\ xatt[x] <= sends[xid[x]]

Reasons == /\ \A n \in Notif : Reason(n)
           /\ \A x \in Cancellers : CancelReason(x)

LEMMA ReasonsInit == Init => Reasons
BY ConstantsAssumption
DEF Init, Reasons, Reason, RowReason, WorkerReason, CancelReason, Exists, Recording

\* A step that at most takes the item of n away.
LEMMA ReasonFrame ==
    ASSUME Reasons, NEW n \in Notif,
           Unplaced(n)' => Unplaced(n), cpc'[n] = "place" => cpc[n] = "place",
           Unplaced(n)' /\ cpc[n] = "place" => cpc'[n] = "place",
           Elsewhere(n)' => Elsewhere(n),
           cancelReq[n] => cancelReq'[n], confirmed'[n] = confirmed[n], dlq'[n] = dlq[n],
           status'[n] = status[n], attempts'[n] = attempts[n], sends'[n] = sends[n],
           faults > 0 => faults' > 0,
           \A w \in Workers : \/ wid'[w] # n
                              \/ wid'[w] = wid[w] /\ wpc'[w] = wpc[w] /\ watt'[w] = watt[w]
    PROVE  Reason(n)'
<1>1. Exists(n)' <=> Exists(n) BY DEF Exists
<1>2. RowReason(n)' BY <1>1 DEF Reasons, Reason, RowReason
<1>3. ASSUME NEW w \in Workers PROVE WorkerReason(w, n)'
    <2>1. CASE wid'[w] # n BY <2>1 DEF WorkerReason
    <2>2. CASE wid'[w] = wid[w] /\ wpc'[w] = wpc[w] /\ watt'[w] = watt[w]
        BY <1>1, <2>2 DEF Reasons, Reason, WorkerReason, Exhausted, Recording
    <2>. QED BY <2>1, <2>2
<1>. QED BY <1>2, <1>3 DEF Reason

LEMMA FaultsGrow == Next => faults' = faults \/ faults' = faults + 1
<1>. DEFINE Goal == faults' = faults \/ faults' = faults + 1
<1>. SUFFICES ASSUME Next PROVE Goal OBVIOUS
<1>. USE DEF Fault, Ignored
<1>1. ASSUME NEW n \in Notif, CreateStep(n) \/ CreateAbort(n) PROVE Goal
    BY <1>1 DEF CreateStep, CreateCall, Lookup, Build, Claim, Recall, Fetch, Insert, PlaceItem, Finish,
                Confirm, CreateAbort
<1>2. ASSUME NEW x \in Cancellers,
             CancelStep(x) \/ CancelAbort(x) \/ \E n \in Notif : CancelCheck(x, n)
      PROVE  Goal
    BY <1>2 DEF CancelStep, CancelAbort, CancelCheck, CancelDequeue, CancelUnschedule,
                CancelCommit
<1>3. ASSUME NEW w \in Workers,
             ProcessStep(w) \/ WorkerAbort(w) \/ \E n \in Notif : Dequeue(w, n)
      PROVE  Goal
    BY <1>3
    DEF ProcessStep, WorkerAbort, Dequeue, Load, Limit, Throttle, MarkSending, Send, LogAttempt,
        Deliver, DeadLetter, Fail, Requeue, ScheduleRetry
<1>4. ASSUME NEW p \in Promoters, PromoteStep(p) \/ PromoterAbort(p) PROVE Goal
    BY <1>4 DEF PromoteStep, PromoterAbort, Scan, ClaimDue, Promote
<1>5. ASSUME NEW k \in Keys, ExpireKey(k) PROVE Goal BY <1>5 DEF ExpireKey
<1>6. ASSUME NEW s \in Stores, NEW n \in Notif, Elapse(s, n) PROVE Goal
    BY <1>6 DEF Elapse
<1>. QED BY <1>1, <1>2, <1>3, <1>4, <1>5, <1>6 DEF Next, Backend, vars

LEMMA CreateReasons ==
    ASSUME TypeOK, Reasons, faults > 0 => faults' > 0,
           NEW n \in Notif, CreateStep(n) \/ CreateAbort(n)
    PROVE  Reasons'
<1>1. UNCHANGED <<cancelVars, workerVars, promoterVars, historyVars, dlq>>
    BY DEF CreateStep, CreateCall, Lookup, Build, Claim, Recall, Fetch, Insert, PlaceItem, Finish,
           Confirm, CreateAbort, CreateFrame, redisVars
<1>2. ASSUME NEW x \in Cancellers PROVE CancelReason(x)'
    BY <1>1 DEF Reasons, CancelReason, cancelVars, historyVars
<1>3. ASSUME NEW m \in Notif, m # n PROVE Reason(m)'
    <2>1. status'[m] = status[m] /\ attempts'[m] = attempts[m] /\ cpc'[m] = cpc[m]
        BY <1>3
        DEF CreateStep, CreateCall, Lookup, Build, Claim, Recall, Fetch, Insert, PlaceItem, Finish,
            Confirm, CreateAbort, Goto, Return, UpdateStatus, rowVars, TypeOK, RowTypes,
            CreateTypes
    <2>2. Elsewhere(m)' => Elsewhere(m)
        BY <1>1, <1>3, <2>1
        DEF Elsewhere, Unplaced, CreateStep, CreateCall, Lookup, Build, Claim, Recall,
            Fetch, Insert, PlaceItem, Finish, Confirm, CreateAbort, Push, Add, Stores, redisVars,
            TypeOK, RedisTypes, promoterVars
    <2>. QED BY <1>1, <2>1, <2>2, ReasonFrame DEF Unplaced, workerVars, historyVars
<1>4. RowReason(n)'
    <2>. USE <1>1 DEF Reasons, Reason, RowReason, Elsewhere, Unplaced, Exists, Goto, Return,
                      TypeOK, RowTypes, CreateTypes, HistoryTypes, promoterVars, historyVars,
                      rowVars, redisVars
    <2>1. CASE Lookup(n) BY <2>1 DEF Lookup
    <2>2. CASE \E verdict \in Verdicts : Build(n, verdict) BY <2>2 DEF Build, Verdicts
    <2>3. CASE Claim(n) BY <2>3 DEF Claim
    <2>4. CASE Recall(n) BY <2>4 DEF Recall
    <2>5. CASE Fetch(n) BY <2>5 DEF Fetch
    <2>6. CASE Insert(n) BY <2>6 DEF Insert
    <2>7. CASE PlaceItem(n) BY <2>7 DEF PlaceItem, Finish
    <2>8. CASE Confirm(n) BY <2>8 DEF Confirm, Finish, UpdateStatus
    <2>9. CASE CreateAbort(n) BY <2>9 DEF CreateAbort
    <2>. QED BY <2>1, <2>2, <2>3, <2>4, <2>5, <2>6, <2>7, <2>8, <2>9 DEF CreateStep, CreateCall
<1>5. ASSUME NEW w \in Workers PROVE WorkerReason(w, n)'
    <2>1. Exists(n) => Exists(n)'
        BY DEF CreateStep, CreateCall, Lookup, Build, Claim, Recall, Fetch, Insert, PlaceItem, Finish,
               Confirm, CreateAbort, UpdateStatus, rowVars, Exists, TypeOK, RowTypes
    <2>. QED BY <1>1, <2>1 DEF Reasons, Reason, WorkerReason, Exhausted, Recording, workerVars,
                              historyVars
<1>. QED BY <1>2, <1>3, <1>4, <1>5 DEF Reasons, Reason

LEMMA CancelReasons ==
    ASSUME TypeOK, Reasons, faults > 0 => faults' > 0, NEW x \in Cancellers,
           CancelStep(x) \/ CancelAbort(x) \/ \E n \in Notif : CancelCheck(x, n)
    PROVE  Reasons'
<1>1. /\ UNCHANGED <<createVars, workerVars, promoterVars, sends, confirmed, dlq>>
      /\ \A n \in Notif : cancelReq[n] => cancelReq'[n]
    BY DEF CancelStep, CancelAbort, CancelCheck, CancelDequeue, CancelUnschedule, CancelCommit,
           CancelFrame, redisVars, TypeOK, HistoryTypes
<1>2. ASSUME NEW y \in Cancellers PROVE CancelReason(y)'
    BY <1>1
    DEF Reasons, CancelReason, Reason, RowReason, CancelStep, CancelAbort, CancelCheck,
        CancelDequeue, CancelUnschedule, CancelCommit, CancelGoto, CancelDone, TypeOK,
        CancelTypes, HistoryTypes
<1>3. ASSUME NEW n \in Notif PROVE Reason(n)'
    <2>1. Elsewhere(n)' => Elsewhere(n)
        BY <1>1
        DEF Elsewhere, Unplaced, CancelStep, CancelAbort, CancelCheck, CancelDequeue,
            CancelUnschedule, CancelCommit, Ignored, Remove, Stores, redisVars, TypeOK,
            RedisTypes, CancelTypes, createVars, promoterVars
    <2>2. CASE UNCHANGED <<status, attempts>>
        BY <1>1, <2>1, <2>2, ReasonFrame DEF Unplaced, createVars, workerVars
    <2>3. CASE CancelCommit(x)
        <3>1. /\ xid[x] \in Notif /\ xatt[x] <= sends[xid[x]] /\ cancelReq'[xid[x]]
            BY <1>1, <2>3 DEF CancelCommit, Reasons, CancelReason, TypeOK, CancelTypes
        <3>2. CASE n # xid[x] \/ ~Exists(n)
            <4>1. status'[n] = status[n] /\ attempts'[n] = attempts[n]
                BY <2>3, <3>1, <3>2 DEF CancelCommit, UpdateStatus, TypeOK, RowTypes
            <4>. QED BY <1>1, <2>1, <4>1, ReasonFrame DEF Unplaced, createVars, workerVars
        <3>3. CASE n = xid[x] /\ Exists(n)
            <4>1. status'[n] = "cancelled" /\ attempts'[n] = xatt[x]
                BY <2>3, <3>3 DEF CancelCommit, UpdateStatus, TypeOK, RowTypes
            <4>2. RowReason(n)'
                BY <1>1, <2>1, <3>1, <3>3, <4>1
                DEF Reasons, Reason, RowReason, Unplaced, Exists, createVars
            <4>3. ASSUME NEW w \in Workers PROVE WorkerReason(w, n)'
                BY <1>1, <3>3, <4>1
                DEF Reasons, Reason, WorkerReason, Exhausted, Recording, Exists, workerVars
            <4>. QED BY <4>2, <4>3 DEF Reason
        <3>. QED BY <3>2, <3>3
    <2>. QED BY <2>2, <2>3
         DEF CancelStep, CancelAbort, CancelCheck, CancelDequeue, CancelUnschedule, rowVars
<1>. QED BY <1>2, <1>3 DEF Reasons

LEMMA ProcessReasons ==
    ASSUME TypeOK, AllApart, Reasons, faults > 0 => faults' > 0,
           NEW w \in Workers, ProcessStep(w) \/ WorkerAbort(w)
    PROVE  Reasons'
<1>0. /\ wpc \in [Workers -> {"idle", "get", "limit", "throttle", "mark", "send",
                              "logDelivered", "deliver", "logFailed", "bury",
                              "fail", "requeue", "schedule"}]
      /\ wid \in [Workers -> Notif \cup {None}] /\ watt \in [Workers -> Nat]
      /\ sends \in [Notif -> Nat] /\ attempts \in [Notif -> Nat] /\ dlq \in [Notif -> Nat]
      /\ status \in [Notif -> Statuses \cup {"absent"}] /\ confirmed \in [Notif -> BOOLEAN]
      /\ None \notin Notif
    BY ConstantsAssumption DEF TypeOK, HistoryTypes, RowTypes, RedisTypes, WorkerTypes
<1>1. /\ UNCHANGED <<createVars, cancelVars, promoterVars, cancelReq>>
      /\ \A v \in Workers : v # w => wpc'[v] = wpc[v] /\ wid'[v] = wid[v] /\ watt'[v] = watt[v]
      /\ wpc[w] # "idle" /\ wid'[w] \in {wid[w], None}
    BY <1>0
    DEF ProcessStep, WorkerAbort, Load, Limit, Throttle, MarkSending, Send, LogAttempt, Deliver,
        DeadLetter, Fail, Requeue, ScheduleRetry, ProcessFrame, WorkerGoto, WorkerDone
<1>2. PICK n \in Notif : wid[w] = n /\ ~Elsewhere(n) /\ \A v \in Workers : wid[v] = n => v = w
    BY <1>1, WorkerAlone
<1>3. ASSUME NEW m \in Notif, m # n
      PROVE  /\ sends'[m] = sends[m] /\ confirmed'[m] = confirmed[m] /\ dlq'[m] = dlq[m]
             /\ status'[m] = status[m] /\ attempts'[m] = attempts[m]
             /\ Elsewhere(m)' => Elsewhere(m)
    <2>1. /\ sends'[m] = sends[m] /\ confirmed'[m] = confirmed[m] /\ dlq'[m] = dlq[m]
          /\ status'[m] = status[m] /\ attempts'[m] = attempts[m]
          /\ queue'[m] = queue[m] /\ \A s \in Stores : zset'[s][m] = zset[s][m]
        BY <1>0, <1>2, <1>3
        DEF ProcessStep, WorkerAbort, Load, Limit, Throttle, MarkSending, Send, LogAttempt,
            Deliver, DeadLetter, Fail, Requeue, ScheduleRetry, Ignored, UpdateStatus, Add,
            Stores, rowVars, redisVars, TypeOK, RedisTypes
    <2>. QED BY <1>1, <2>1 DEF Elsewhere, Unplaced, Stores, createVars, promoterVars
<1>4. ASSUME NEW m \in Notif, m # n PROVE Reason(m)'
    <2>1. \A v \in Workers : \/ wid'[v] # m
                             \/ wid'[v] = wid[v] /\ wpc'[v] = wpc[v] /\ watt'[v] = watt[v]
        BY <1>0, <1>1, <1>2, <1>4
    <2>2. cpc'[m] = cpc[m] /\ cancelReq'[m] = cancelReq[m] BY <1>1 DEF createVars
    <2>. QED BY <1>3, <1>4, <2>1, <2>2, ReasonFrame DEF Unplaced
<1>5. ASSUME NEW x \in Cancellers PROVE CancelReason(x)'
    <2>1. \A m \in Notif : sends'[m] = sends[m] \/ sends'[m] = sends[m] + 1
        BY <1>0, <1>2
        DEF ProcessStep, WorkerAbort, Load, Limit, Throttle, MarkSending, Send, LogAttempt,
            Deliver, DeadLetter, Fail, Requeue, ScheduleRetry
    <2>. QED BY <1>0, <1>1, <2>1 DEF Reasons, CancelReason, cancelVars, TypeOK, CancelTypes
<1>6. RowReason(n)' /\ WorkerReason(w, n)'
    <2>0. RowReason(n) /\ WorkerReason(w, n) BY <1>2 DEF Reasons, Reason
    <2>1. UNCHANGED <<queue, zset>> => ~Elsewhere(n)'
        BY <1>1, <1>2 DEF Elsewhere, Unplaced, createVars, promoterVars
    <2>2. ~Unplaced(n) /\ ~Unplaced(n)' BY <1>1, <1>2 DEF Elsewhere, Unplaced, createVars
    <2>. USE <1>0, <1>1, <1>2, <2>0, <2>1, <2>2
         DEF RowReason, WorkerReason, Exists, Recording, WorkerGoto, WorkerDone, rowVars,
             redisVars
    <2>3. CASE Load(w) BY <2>3 DEF Load
    <2>4. CASE \E verdict \in {"allowed", "throttled"} : Limit(w, verdict) BY <2>4 DEF Limit
    <2>5. CASE Throttle(w) BY <2>5 DEF Throttle
    <2>6. CASE MarkSending(w) BY <2>6 DEF MarkSending, Ignored, UpdateStatus
    <2>7. CASE \E reply \in {"accepted", "refused"} : Send(w, reply) BY <2>7 DEF Send
    <2>8. CASE LogAttempt(w) BY <2>8 DEF LogAttempt, Exhausted
    <2>9. CASE Deliver(w) BY <2>9 DEF Deliver, UpdateStatus
    <2>10. CASE DeadLetter(w) BY <2>10, BoundsAssumption DEF DeadLetter, Ignored, Fault, TypeOK
    <2>11. CASE Fail(w) BY <2>11 DEF Fail, UpdateStatus
    <2>12. CASE Requeue(w) BY <2>12 DEF Requeue, Ignored, UpdateStatus
    <2>13. CASE ScheduleRetry(w) BY <2>13 DEF ScheduleRetry
    <2>14. CASE WorkerAbort(w) BY <2>14 DEF WorkerAbort
    <2>. QED BY <2>3, <2>4, <2>5, <2>6, <2>7, <2>8, <2>9, <2>10, <2>11, <2>12, <2>13, <2>14
         DEF ProcessStep
<1>7. ASSUME NEW v \in Workers, v # w PROVE WorkerReason(v, n)'
    BY <1>1, <1>2, <1>7 DEF WorkerReason
<1>. QED BY <1>4, <1>5, <1>6, <1>7 DEF Reasons, Reason

LEMMA DequeueReasons ==
    ASSUME TypeOK, Reasons, NEW w \in Workers, NEW n \in Notif, Dequeue(w, n)
    PROVE  Reasons'
<1>. USE DEF Dequeue, ProcessFrame
<1>1. /\ UNCHANGED <<createVars, cancelVars, promoterVars, historyVars, rowVars, zset, dlq>>
      /\ queue[n] > 0 /\ \A m \in Notif : queue'[m] > 0 => queue[m] > 0
      /\ \A v \in Workers : v # w => wpc'[v] = wpc[v] /\ wid'[v] = wid[v] /\ watt'[v] = watt[v]
      /\ wpc'[w] = "get" /\ wid'[w] = n
    BY DEF HeadOfLine, TypeOK, RedisTypes, WorkerTypes, historyVars
<1>2. ASSUME NEW x \in Cancellers PROVE CancelReason(x)'
    BY <1>1 DEF Reasons, CancelReason, cancelVars, historyVars
<1>3. ASSUME NEW m \in Notif PROVE Reason(m)'
    <2>1. Elsewhere(m)' => Elsewhere(m)
        BY <1>1 DEF Elsewhere, Unplaced, createVars, promoterVars
    <2>2. RowReason(m)'
        BY <1>1, <2>1
        DEF Reasons, Reason, RowReason, Unplaced, Exists, createVars, historyVars, rowVars
    <2>3. ASSUME NEW v \in Workers PROVE WorkerReason(v, m)'
        <3>1. CASE v = w /\ m = n
            <4>1. ~confirmed[n] /\ ~(dlq[n] > 0)
                BY <1>1 DEF Reasons, Reason, RowReason, Elsewhere
            <4>. QED BY <1>1, <3>1, <4>1 DEF WorkerReason, Recording, historyVars
        <3>2. CASE v = w /\ m # n BY <1>1, <3>2 DEF WorkerReason
        <3>3. CASE v # w
            BY <1>1, <3>3
            DEF Reasons, Reason, WorkerReason, Exhausted, Recording, Exists, rowVars,
                historyVars
        <3>. QED BY <3>1, <3>2, <3>3
    <2>. QED BY <2>2, <2>3 DEF Reason
<1>. QED BY <1>2, <1>3 DEF Reasons

LEMMA PromoteReasons ==
    ASSUME TypeOK, Reasons, faults > 0 => faults' > 0,
           \/ \E p \in Promoters : PromoteStep(p) \/ PromoterAbort(p)
           \/ \E k \in Keys : ExpireKey(k)
           \/ \E s \in Stores, n \in Notif : Elapse(s, n)
           \/ UNCHANGED vars
    PROVE  Reasons'
<1>1. UNCHANGED <<createVars, cancelVars, workerVars, historyVars, rowVars, dlq>>
    BY DEF PromoteStep, PromoterAbort, Scan, ClaimDue, Promote, PromoterFrame, ExpireKey,
           Elapse, CreateFrame, redisVars, vars
<1>2. ASSUME NEW x \in Cancellers PROVE CancelReason(x)'
    BY <1>1 DEF Reasons, CancelReason, cancelVars, historyVars
<1>3. ASSUME NEW n \in Notif PROVE Reason(n)'
    <2>1. Elsewhere(n)' => Elsewhere(n)
        <3>. USE <1>1, ConstantsAssumption
             DEF Elsewhere, Unplaced, redisVars, TypeOK, RedisTypes, PromoterTypes, createVars,
                 promoterVars
        <3>1. ASSUME NEW p \in Promoters, Scan(p) \/ PromoterAbort(p)
              PROVE  Elsewhere(n)' => Elsewhere(n)
            BY <3>1 DEF Scan, PromoterAbort
        <3>2. ASSUME NEW p \in Promoters, NEW m \in Notif, ClaimDue(p, m)
              PROVE  Elsewhere(n)' => Elsewhere(n)
            BY <3>2 DEF ClaimDue, Claimed, Remove, Stores
        <3>3. ASSUME NEW p \in Promoters, Promote(p) PROVE Elsewhere(n)' => Elsewhere(n)
            BY <3>3 DEF Promote, Push
        <3>4. ASSUME NEW s \in Stores, NEW m \in Notif, Elapse(s, m)
              PROVE  Elsewhere(n)' => Elsewhere(n)
            BY <3>4 DEF Elapse, Stores
        <3>5. CASE UNCHANGED vars BY <3>5 DEF vars
        <3>6. ASSUME NEW k \in Keys, ExpireKey(k) PROVE Elsewhere(n)' => Elsewhere(n)
            BY <3>6 DEF ExpireKey, CreateFrame
        <3>. QED BY <3>1, <3>2, <3>3, <3>4, <3>5, <3>6 DEF PromoteStep
    <2>. QED BY <1>1, <2>1, ReasonFrame
         DEF Unplaced, createVars, workerVars, historyVars, rowVars
<1>. QED BY <1>2, <1>3 DEF Reasons

LEMMA ReasonsStep == TypeOK /\ AllApart /\ Reasons /\ [Next]_vars => Reasons'
<1>. SUFFICES ASSUME TypeOK, AllApart, Reasons, [Next]_vars PROVE Reasons' OBVIOUS
<1>1. faults > 0 => faults' > 0 BY FaultsGrow, BoundsAssumption DEF vars, TypeOK
<1>. QED BY <1>1, CreateReasons, CancelReasons, ProcessReasons, DequeueReasons, PromoteReasons
     DEF Next, Backend

-----------------------------------------------------------------------------
(* The phases of the contract, by what the steps change. *)

Open(n) == Exists(n) /\ ~confirmed[n] /\ dlq[n] = 0

PhaseTable(n) ==
    /\ Phase(n) = "none" <=> ~Exists(n)
    /\ Phase(n) = "delivered" <=> Exists(n) /\ confirmed[n]
    /\ Phase(n) = "dead" <=> Exists(n) /\ ~confirmed[n] /\ dlq[n] > 0
    /\ Phase(n) = "live" <=> Open(n) /\ Near(n)
    /\ Phase(n) = "dropped" <=> Open(n) /\ ~Near(n)
    /\ Phase(n) \in {"none", "delivered", "dead", "live", "dropped"}
    /\ dlq[n] \in Nat

LEMMA PhaseIs == TypeOK => \A n \in Notif : PhaseTable(n)
<1>. SUFFICES ASSUME TypeOK, NEW n \in Notif PROVE PhaseTable(n) OBVIOUS
<1>1. Near(n) <=> Live(n) BY NearIsLive
<1>2. dlq[n] \in Nat BY DEF TypeOK, RedisTypes
<1>. QED BY <1>1, <1>2 DEF PhaseTable, Phase, Open, Dropped

LEMMA PhaseWillBe == (TypeOK => \A n \in Notif : PhaseTable(n))'
BY PhaseIs, PTL

\* Excuses are never withdrawn.
Growing == /\ \A n \in Notif : cancelReq[n] => cancelReq'[n]
           /\ faults > 0 => faults' > 0

\* A step that leaves every notification in its phase, whatever it does inside.
LEMMA Staying ==
    ASSUME TypeOK, TypeOK', Growing, UNCHANGED <<sends, confirmed>>,
           \A n \in Notif : /\ Exists(n)' <=> Exists(n)
                            /\ dlq'[n] > 0 <=> dlq[n] > 0
                            /\ Open(n) => (Near(n)' <=> Near(n))
    PROVE  DC!ContractNext
<1>1. ASSUME NEW n \in Notif PROVE Phase(n)' = Phase(n)
    BY PhaseIs, PhaseWillBe DEF PhaseTable, Open
<1>2. DC!Excuse BY <1>1 DEF DC!Excuse, DC!ExcusesGrow, Growing
<1>. QED BY <1>2 DEF DC!ContractNext

\* A step that drops the item of n, or does nothing to it.
LEMMA Losing ==
    ASSUME TypeOK, TypeOK', Growing, UNCHANGED <<sends, confirmed, dlq>>, NEW n \in Notif,
           \A m \in Notif : /\ Exists(m)' <=> Exists(m)
                            /\ m # n => (Near(m)' <=> Near(m)),
           Near(n)' => Near(n),
           Open(n) /\ ~Near(n)' => ~Near(n) \/ cancelReq'[n] \/ faults' > 0
    PROVE  DC!ContractNext
<1>1. CASE ~Open(n) \/ (Near(n)' <=> Near(n)) BY <1>1, Staying
<1>2. CASE Open(n) /\ Near(n) /\ ~Near(n)'
    <2>1. \A m \in Notif : m # n => Phase(m)' = Phase(m)
        BY PhaseIs, PhaseWillBe DEF PhaseTable, Open
    <2>2. Phase(n) = "live" /\ Phase(n)' = "dropped"
        BY <1>2, PhaseIs, PhaseWillBe DEF PhaseTable, Open
    <2>3. DC!Drop(n)
        BY <1>2, <2>1, <2>2 DEF DC!Drop, DC!Become, DC!ExcusesGrow, Growing
    <2>. QED BY <2>3 DEF DC!ContractNext
<1>. QED BY <1>1, <1>2

(* What a step does to the items: which notifications it may store, and which  *)
(* item it may drop and on what ground.  The contract and the count of losses *)
(* both rest on it.                                                           *)

LEMMA CreateSpares ==
    ASSUME TypeOK, Reasons, NEW n \in Notif, CreateStep(n) \/ CreateAbort(n)
    PROVE  /\ UNCHANGED <<workerVars, promoterVars, historyVars, dlq>>
           /\ \A m \in Notif : m # n => (Exists(m)' <=> Exists(m)) /\ (Near(m)' <=> Near(m))
           /\ \/ /\ ~Exists(n) /\ Exists(n)' /\ Near(n)' /\ ~confirmed[n] /\ ~(dlq[n] > 0)
                 /\ UNCHANGED faults
              \/ /\ Exists(n)' <=> Exists(n)
                 /\ Near(n)' => Near(n)
                 /\ Open(n) /\ ~Near(n)' => ~Near(n) \/ faults' = faults + 1
<1>1. UNCHANGED <<workerVars, promoterVars, historyVars, dlq>>
    BY DEF CreateStep, CreateCall, Lookup, Build, Claim, Recall, Fetch, Insert, PlaceItem, Finish,
           Confirm, CreateAbort, CreateFrame, redisVars
<1>2. ASSUME NEW m \in Notif, m # n PROVE (Exists(m)' <=> Exists(m)) /\ (Near(m)' <=> Near(m))
    <2>1. status'[m] = status[m] /\ cpc'[m] = cpc[m]
        BY <1>2
        DEF CreateStep, CreateCall, Lookup, Build, Claim, Recall, Fetch, Insert, PlaceItem, Finish,
            Confirm, CreateAbort, Goto, Return, UpdateStatus, rowVars, TypeOK, RowTypes,
            CreateTypes
    <2>2. queue'[m] = queue[m] /\ \A s \in Stores : zset'[s][m] = zset[s][m]
        BY <1>2
        DEF CreateStep, CreateCall, Lookup, Build, Claim, Recall, Fetch, Insert, PlaceItem, Finish,
            Confirm, CreateAbort, Push, Add, Stores, redisVars, TypeOK, RedisTypes
    <2>. QED BY <1>1, <2>1, <2>2
         DEF Exists, Near, Elsewhere, Unplaced, Stores, workerVars, promoterVars
<1>3. CASE Insert(n) /\ ~KeyTaken(n)
    <2>1. /\ ~Exists(n) /\ Exists(n)' /\ Near(n)' /\ ~confirmed[n] /\ ~(dlq[n] > 0)
          /\ UNCHANGED faults
        BY <1>1, <1>3
        DEF Insert, Goto, Reasons, Reason, RowReason, Unplaced, Near, Elsewhere, Exists,
            TypeOK, RowTypes, CreateTypes, historyVars
    <2>. QED BY <1>1, <1>2, <2>1
<1>4. CASE ~(Insert(n) /\ ~KeyTaken(n))
    <2>1. /\ Exists(n)' <=> Exists(n)
          /\ Near(n)' => Near(n)
          /\ Open(n) /\ ~Near(n)' => ~Near(n) \/ faults' = faults + 1
        <3>. USE <1>1 DEF Reasons, Reason, RowReason, Near, Elsewhere, Unplaced, Open, Exists,
                 Goto, Return, TypeOK, RowTypes, CreateTypes, workerVars, promoterVars, rowVars,
                 redisVars
        <3>1. CASE Lookup(n) BY <3>1 DEF Lookup
        <3>2. CASE \E verdict \in Verdicts : Build(n, verdict) BY <3>2 DEF Build, Verdicts
        <3>3. CASE Claim(n) BY <3>3 DEF Claim
        <3>4. CASE Recall(n) BY <3>4 DEF Recall
        <3>5. CASE Fetch(n) BY <3>5 DEF Fetch
        <3>6. CASE Insert(n) BY <1>4, <3>6 DEF Insert
        <3>7. CASE PlaceItem(n)
            <4>1. CASE n \in FutureDated
                BY <3>7, <4>1 DEF PlaceItem, Finish, Add, Stores, RedisTypes
            <4>2. CASE n \notin FutureDated
                BY <3>7, <4>2 DEF PlaceItem, Push, RedisTypes
            <4>. QED BY <4>1, <4>2
        <3>8. CASE Confirm(n) BY <3>8 DEF Confirm, Finish, UpdateStatus
        <3>9. CASE CreateAbort(n) BY <3>9 DEF CreateAbort, Fault
        <3>. QED BY <3>1, <3>2, <3>3, <3>4, <3>5, <3>6, <3>7, <3>8, <3>9 DEF CreateStep, CreateCall
    <2>. QED BY <1>1, <1>2, <2>1
<1>. QED BY <1>3, <1>4

LEMMA CreateContract ==
    ASSUME TypeOK, TypeOK', Reasons, faults > 0 => faults' > 0,
           NEW n \in Notif, CreateStep(n) \/ CreateAbort(n)
    PROVE  DC!ContractNext
<1>1. UNCHANGED <<workerVars, promoterVars, historyVars, dlq>> BY CreateSpares
<1>2. Growing BY <1>1 DEF Growing, historyVars
<1>3. \A m \in Notif : m # n => (Exists(m)' <=> Exists(m)) /\ (Near(m)' <=> Near(m))
    BY CreateSpares
<1>4. CASE /\ ~Exists(n) /\ Exists(n)' /\ Near(n)' /\ ~confirmed[n] /\ ~(dlq[n] > 0)
           /\ UNCHANGED faults
    <2>1. \A m \in Notif : m # n => Phase(m)' = Phase(m)
        BY <1>1, <1>3, PhaseIs, PhaseWillBe DEF PhaseTable, Open, historyVars
    <2>2. Phase(n) = "none" /\ Phase(n)' = "live"
        BY <1>1, <1>4, PhaseIs, PhaseWillBe DEF PhaseTable, Open, historyVars
    <2>3. DC!Accept(n) BY <1>1, <1>4, <2>1, <2>2 DEF DC!Accept, DC!Become, historyVars
    <2>. QED BY <2>3 DEF DC!ContractNext
<1>5. CASE /\ Exists(n)' <=> Exists(n)
           /\ Near(n)' => Near(n)
           /\ Open(n) /\ ~Near(n)' => ~Near(n) \/ faults' = faults + 1
    <2>1. Open(n) /\ ~Near(n)' => ~Near(n) \/ faults' > 0
        BY <1>5, BoundsAssumption DEF TypeOK
    <2>. QED BY <1>1, <1>2, <1>3, <1>5, <2>1, Losing DEF historyVars
<1>. QED BY <1>4, <1>5, CreateSpares

LEMMA CancelSpares ==
    ASSUME TypeOK, Reasons, NEW x \in Cancellers,
           CancelStep(x) \/ CancelAbort(x) \/ \E n \in Notif : CancelCheck(x, n)
    PROVE  /\ UNCHANGED <<createVars, workerVars, promoterVars, sends, confirmed, dlq>>
           /\ \A m \in Notif : /\ cancelReq[m] => cancelReq'[m]
                               /\ Exists(m)' <=> Exists(m)
           /\ \/ \A m \in Notif : Near(m)' <=> Near(m)
              \/ \E n \in Notif : /\ cancelReq'[n] /\ (Near(n)' => Near(n))
                                  /\ \A m \in Notif : m # n => (Near(m)' <=> Near(m))
<1>1. /\ UNCHANGED <<createVars, workerVars, promoterVars, sends, confirmed, dlq>>
      /\ \A m \in Notif : cancelReq[m] => cancelReq'[m]
    BY DEF CancelStep, CancelAbort, CancelCheck, CancelDequeue, CancelUnschedule, CancelCommit,
           CancelFrame, redisVars, TypeOK, HistoryTypes
<1>2. ASSUME NEW m \in Notif PROVE Exists(m)' <=> Exists(m)
    BY DEF CancelStep, CancelAbort, CancelCheck, CancelDequeue, CancelUnschedule, CancelCommit,
           UpdateStatus, rowVars, Exists, TypeOK, RowTypes, CancelTypes
<1>3. CASE UNCHANGED <<queue, zset>>
    <2>1. \A m \in Notif : Near(m)' <=> Near(m)
        BY <1>1, <1>3 DEF Near, Elsewhere, Unplaced, createVars, workerVars, promoterVars
    <2>. QED BY <1>1, <1>2, <2>1
<1>4. CASE CancelDequeue(x) \/ CancelUnschedule(x)
    <2>1. xid[x] \in Notif /\ cancelReq[xid[x]]
        BY <1>4 DEF CancelDequeue, CancelUnschedule, Reasons, CancelReason, TypeOK, CancelTypes
    <2>2. PICK n \in Notif : n = xid[x] BY <2>1
    <2>3. /\ \A m \in Notif : m # n => (Near(m)' <=> Near(m))
          /\ Near(n)' => Near(n)
        <3>1. /\ \A m \in Notif : m # n => /\ queue'[m] = queue[m]
                                           /\ \A s \in Stores : zset'[s][m] = zset[s][m]
              /\ queue'[n] > 0 => queue[n] > 0
              /\ \A s \in Stores : zset'[s][n] # "absent" => zset[s][n] # "absent"
            BY <1>4, <2>2
            DEF CancelDequeue, CancelUnschedule, Ignored, Remove, Stores, TypeOK, RedisTypes
        <3>. QED BY <1>1, <3>1
             DEF Near, Elsewhere, Unplaced, Stores, createVars, workerVars, promoterVars
    <2>4. cancelReq'[n] BY <1>1, <2>1, <2>2
    <2>. QED BY <1>1, <1>2, <2>3, <2>4
<1>. QED BY <1>3, <1>4 DEF CancelStep, CancelAbort, CancelCheck, CancelCommit, redisVars

LEMMA CancelContract ==
    ASSUME TypeOK, TypeOK', Reasons, faults > 0 => faults' > 0, NEW x \in Cancellers,
           CancelStep(x) \/ CancelAbort(x) \/ \E n \in Notif : CancelCheck(x, n)
    PROVE  DC!ContractNext
<1>1. /\ UNCHANGED <<sends, confirmed, dlq>> /\ Growing
      /\ \A m \in Notif : Exists(m)' <=> Exists(m)
    BY CancelSpares DEF Growing
<1>2. CASE \A m \in Notif : Near(m)' <=> Near(m) BY <1>1, <1>2, Staying
<1>3. ASSUME NEW n \in Notif, cancelReq'[n], Near(n)' => Near(n),
             \A m \in Notif : m # n => (Near(m)' <=> Near(m))
      PROVE  DC!ContractNext
    BY <1>1, <1>3, Losing
<1>. QED BY <1>2, <1>3, CancelSpares

LEMMA ProcessSpares ==
    ASSUME TypeOK, AllApart, NEW w \in Workers, ProcessStep(w) \/ WorkerAbort(w)
    PROVE  /\ UNCHANGED <<createVars, promoterVars, cancelReq>>
           /\ \A v \in Workers : v # w => wpc'[v] = wpc[v] /\ wid'[v] = wid[v]
           /\ wid'[w] \in {wid[w], None}
           /\ \A m \in Notif : Exists(m)' <=> Exists(m)
           /\ \E n \in Notif : /\ wid[w] = n /\ ~Elsewhere(n)
                               /\ \A v \in Workers : wid[v] = n => v = w
                               /\ \A m \in Notif : m # n => (Near(m)' <=> Near(m))
<1>0. /\ wpc \in [Workers -> {"idle", "get", "limit", "throttle", "mark", "send",
                              "logDelivered", "deliver", "logFailed", "bury",
                              "fail", "requeue", "schedule"}]
      /\ wid \in [Workers -> Notif \cup {None}] /\ watt \in [Workers -> Nat]
      /\ sends \in [Notif -> Nat] /\ dlq \in [Notif -> Nat]
      /\ status \in [Notif -> Statuses \cup {"absent"}] /\ confirmed \in [Notif -> BOOLEAN]
      /\ None \notin Notif
    BY ConstantsAssumption DEF TypeOK, HistoryTypes, RowTypes, RedisTypes, WorkerTypes
<1>1. /\ UNCHANGED <<createVars, promoterVars, cancelReq>>
      /\ \A v \in Workers : v # w => wpc'[v] = wpc[v] /\ wid'[v] = wid[v]
      /\ wpc[w] # "idle" /\ wid'[w] \in {wid[w], None}
    BY <1>0
    DEF ProcessStep, WorkerAbort, Load, Limit, Throttle, MarkSending, Send, LogAttempt, Deliver,
        DeadLetter, Fail, Requeue, ScheduleRetry, ProcessFrame, WorkerGoto, WorkerDone
<1>2. PICK n \in Notif : wid[w] = n /\ ~Elsewhere(n) /\ \A v \in Workers : wid[v] = n => v = w
    BY <1>1, WorkerAlone
<1>3. ASSUME NEW m \in Notif PROVE Exists(m)' <=> Exists(m)
    BY <1>0
    DEF ProcessStep, WorkerAbort, Load, Limit, Throttle, MarkSending, Send, LogAttempt, Deliver,
        DeadLetter, Fail, Requeue, ScheduleRetry, Ignored, UpdateStatus, rowVars, Exists
<1>4. ASSUME NEW m \in Notif, m # n PROVE Near(m)' <=> Near(m)
    <2>1. queue'[m] = queue[m] /\ \A s \in Stores : zset'[s][m] = zset[s][m]
        BY <1>2, <1>4
        DEF ProcessStep, WorkerAbort, Load, Limit, Throttle, MarkSending, Send, LogAttempt,
            Deliver, DeadLetter, Fail, Requeue, ScheduleRetry, Ignored, Add, Stores, redisVars,
            TypeOK, RedisTypes
    <2>2. \A v \in Workers : wid'[v] = m <=> wid[v] = m BY <1>0, <1>1, <1>2, <1>4
    <2>. QED BY <1>1, <2>1, <2>2 DEF Near, Elsewhere, Unplaced, Stores, createVars, promoterVars
<1>. QED BY <1>1, <1>2, <1>3, <1>4

LEMMA ProcessDrops ==
    ASSUME TypeOK, AllApart, Reasons, NEW w \in Workers, NEW n \in Notif, wid[w] = n,
           ProcessStep(w) \/ WorkerAbort(w), Open(n), ~Near(n)'
    PROVE  cancelReq[n] \/ wpc[w] = "fail" \/ faults' = faults + 1
<1>0. /\ wpc \in [Workers -> {"idle", "get", "limit", "throttle", "mark", "send",
                              "logDelivered", "deliver", "logFailed", "bury",
                              "fail", "requeue", "schedule"}]
      /\ wid \in [Workers -> Notif \cup {None}] /\ watt \in [Workers -> Nat]
      /\ sends \in [Notif -> Nat] /\ dlq \in [Notif -> Nat]
      /\ status \in [Notif -> Statuses \cup {"absent"}] /\ confirmed \in [Notif -> BOOLEAN]
      /\ None \notin Notif
    BY ConstantsAssumption DEF TypeOK, HistoryTypes, RowTypes, RedisTypes, WorkerTypes
<1>1. Reason(n) BY DEF Reasons
<1>. USE <1>0, <1>1 DEF Reason, RowReason, WorkerReason, Open, Exists, Near, Elsewhere, WorkerGoto,
                        WorkerDone
<1>2. CASE Load(w)
    <2>1. CASE status[n] \in {"absent", "cancelled", "delivered"} BY <1>2, <2>1 DEF Load
    <2>2. CASE status[n] \notin {"absent", "cancelled", "delivered"} BY <1>2, <2>2 DEF Load
    <2>. QED BY <2>1, <2>2
<1>3. CASE \E verdict \in {"allowed", "throttled"} : Limit(w, verdict) BY <1>3 DEF Limit
<1>4. CASE Throttle(w) \/ ScheduleRetry(w)
    BY <1>4 DEF Throttle, ScheduleRetry, Add, Stores, TypeOK, RedisTypes
<1>5. CASE MarkSending(w) \/ LogAttempt(w) \/ Requeue(w) \/ DeadLetter(w)
    BY <1>5 DEF MarkSending, LogAttempt, Requeue, DeadLetter
<1>6. CASE \E reply \in {"accepted", "refused"} : Send(w, reply) BY <1>6 DEF Send
<1>7. CASE Deliver(w) BY <1>7 DEF Deliver
<1>8. CASE Fail(w) BY <1>8 DEF Fail
<1>9. CASE WorkerAbort(w) BY <1>9 DEF WorkerAbort, Fault
<1>. QED BY <1>2, <1>3, <1>4, <1>5, <1>6, <1>7, <1>8, <1>9 DEF ProcessStep

LEMMA ProcessContract ==
    ASSUME TypeOK, TypeOK', AllApart, Reasons, faults > 0 => faults' > 0,
           NEW w \in Workers, ProcessStep(w) \/ WorkerAbort(w)
    PROVE  DC!ContractNext
<1>0. /\ wpc \in [Workers -> {"idle", "get", "limit", "throttle", "mark", "send",
                              "logDelivered", "deliver", "logFailed", "bury",
                              "fail", "requeue", "schedule"}]
      /\ wid \in [Workers -> Notif \cup {None}] /\ watt \in [Workers -> Nat]
      /\ sends \in [Notif -> Nat] /\ dlq \in [Notif -> Nat]
      /\ status \in [Notif -> Statuses \cup {"absent"}] /\ confirmed \in [Notif -> BOOLEAN]
      /\ None \notin Notif
    BY ConstantsAssumption DEF TypeOK, HistoryTypes, RowTypes, RedisTypes, WorkerTypes
<1>1. /\ UNCHANGED cancelReq /\ wid'[w] \in {wid[w], None}
      /\ \A m \in Notif : Exists(m)' <=> Exists(m)
    BY ProcessSpares
<1>2. PICK n \in Notif : /\ wid[w] = n /\ \A m \in Notif : Exists(m)' <=> Exists(m)
                         /\ \A m \in Notif : m # n => (Near(m)' <=> Near(m))
    BY ProcessSpares
<1>3. Growing BY <1>1 DEF Growing
<1>4. Near(n) BY <1>2 DEF Near
<1>5. Reason(n) BY DEF Reasons
<1>6. CASE \E reply \in {"accepted", "refused"} : Send(w, reply)
    <2>1. PICK reply \in {"accepted", "refused"} : Send(w, reply) BY <1>6
    <2>2. /\ Exists(n) /\ ~confirmed[n] /\ ~(dlq[n] > 0) /\ Near(n)'
          /\ UNCHANGED <<dlq, faults>> /\ sends' = [sends EXCEPT ![n] = @ + 1]
          /\ IF reply = "accepted" THEN confirmed' = [confirmed EXCEPT ![n] = TRUE]
                                   ELSE UNCHANGED confirmed
        BY <1>0, <1>2, <1>5, <2>1
        DEF Send, Reason, WorkerReason, WorkerGoto, redisVars, Near
    <2>3. \A m \in Notif : m # n => Phase(m)' = Phase(m)
        BY <1>0, <1>2, <2>2, PhaseIs, PhaseWillBe DEF PhaseTable, Open
    <2>4. Phase(n) = "live" /\ Phase(n)' = IF reply = "accepted" THEN "delivered" ELSE "live"
        BY <1>0, <1>2, <1>4, <2>2, PhaseIs, PhaseWillBe DEF PhaseTable, Open
    <2>5. CASE reply = "accepted"
        <3>1. DC!Succeed(n)
            BY <1>1, <2>2, <2>3, <2>4, <2>5 DEF DC!Succeed, DC!Become
        <3>. QED BY <3>1 DEF DC!ContractNext
    <2>6. CASE reply # "accepted"
        <3>1. \A m \in Notif : Phase(m)' = Phase(m) BY <2>3, <2>4, <2>6
        <3>2. DC!Try(n) BY <1>1, <2>2, <2>4, <3>1 DEF DC!Try
        <3>. QED BY <3>2 DEF DC!ContractNext
    <2>. QED BY <2>5, <2>6
<1>7. CASE DeadLetter(w)
    <2>1. /\ UNCHANGED <<sends, confirmed>> /\ Near(n)' /\ Exists(n) /\ ~confirmed[n]
          /\ ~(dlq[n] > 0) /\ sends[n] >= MaxAttempts
        BY <1>0, <1>2, <1>5, <1>7, BoundsAssumption
        DEF DeadLetter, Reason, WorkerReason, WorkerGoto, Exhausted, Recording, Near
    <2>2. CASE UNCHANGED dlq
        BY <1>3, <1>2, <1>4, <2>1, <2>2, Staying
    <2>3. CASE dlq' = [dlq EXCEPT ![n] = @ + 1] /\ UNCHANGED faults
        <3>1. \A m \in Notif : m # n => Phase(m)' = Phase(m)
            BY <1>0, <1>2, <2>1, <2>3, PhaseIs, PhaseWillBe DEF PhaseTable, Open
        <3>2. Phase(n) = "live" /\ Phase(n)' = "dead"
            BY <1>0, <1>2, <1>4, <2>1, <2>3, PhaseIs, PhaseWillBe DEF PhaseTable, Open
        <3>3. DC!Bury(n) BY <1>1, <2>1, <2>3, <3>1, <3>2 DEF DC!Bury, DC!Become
        <3>. QED BY <3>3 DEF DC!ContractNext
    <2>. QED BY <1>2, <1>7, <2>2, <2>3 DEF DeadLetter, Ignored
<1>8. CASE ~DeadLetter(w) /\ ~\E reply \in {"accepted", "refused"} : Send(w, reply)
    <2>1. UNCHANGED <<sends, confirmed, dlq>>
        BY <1>8
        DEF ProcessStep, WorkerAbort, Load, Limit, Throttle, MarkSending, LogAttempt, Deliver,
            Fail, Requeue, ScheduleRetry, redisVars
    <2>2. Open(n) /\ ~Near(n)' => cancelReq'[n] \/ faults' > 0
        <3>1. ASSUME Open(n), wpc[w] = "fail" PROVE faults' > 0
            BY <1>0, <1>2, <1>5, <3>1 DEF Reason, WorkerReason, Open
        <3>2. faults' = faults + 1 => faults' > 0 BY BoundsAssumption DEF TypeOK
        <3>. QED BY <1>1, <1>2, <3>1, <3>2, ProcessDrops
    <2>. QED BY <1>2, <1>3, <1>4, <2>1, <2>2, Losing
<1>. QED BY <1>6, <1>7, <1>8

\* Dequeue, the promoters and the clock: an item changes its place or, when a
\* promoter fails, is lost.
Moves ==
    \/ \A m \in Notif : Near(m)' <=> Near(m)
    \/ faults' = faults + 1
       /\ \E n \in Notif : /\ Near(n)' => Near(n)
                           /\ \A m \in Notif : m # n => (Near(m)' <=> Near(m))

LEMMA MoveSpares ==
    ASSUME TypeOK,
           \/ \E w \in Workers, n \in Notif : Dequeue(w, n)
           \/ \E p \in Promoters : PromoteStep(p) \/ PromoterAbort(p)
           \/ \E k \in Keys : ExpireKey(k)
           \/ \E s \in Stores, n \in Notif : Elapse(s, n)
    PROVE  UNCHANGED <<createVars, historyVars, rowVars, dlq>> /\ Moves
<1>1. UNCHANGED <<createVars, historyVars, rowVars, dlq>>
    BY DEF Dequeue, PromoteStep, PromoterAbort, Scan, ClaimDue, Promote, PromoterFrame,
           ProcessFrame, ExpireKey, Elapse, CreateFrame, redisVars, historyVars
<1>2. \A m \in Notif : Unplaced(m)' <=> Unplaced(m) BY <1>1 DEF Unplaced, createVars
<1>. USE ConstantsAssumption DEF Near, Elsewhere, redisVars, TypeOK, RedisTypes, PromoterTypes
<1>3. ASSUME NEW w \in Workers, NEW n \in Notif, Dequeue(w, n) PROVE Moves
    <2>1. ASSUME NEW m \in Notif PROVE Near(m)' <=> Near(m)
        <3>1. /\ UNCHANGED <<zset, pheld>> /\ wid'[w] = n /\ wid[w] = None /\ queue[n] > 0
              /\ \A v \in Workers : v # w => wid'[v] = wid[v]
              /\ m # n => queue'[m] = queue[m]
            <4>1. UNCHANGED <<zset, pheld>> BY <1>3 DEF Dequeue, ProcessFrame, promoterVars
            <4>2. wid' = [wid EXCEPT ![w] = n] /\ queue' = [queue EXCEPT ![n] = @ - 1]
                BY <1>3 DEF Dequeue
            <4>3. wid[w] = None /\ queue[n] > 0 BY <1>3 DEF Dequeue, HeadOfLine, WorkerTypes
            <4>4. /\ wid'[w] = n /\ \A v \in Workers : v # w => wid'[v] = wid[v]
                  /\ m # n => queue'[m] = queue[m]
                BY <4>2 DEF WorkerTypes
            <4>. HIDE DEF Near, Elsewhere, TypeOK, RedisTypes, PromoterTypes
            <4>. QED BY <4>1, <4>3, <4>4
        <3>2. CASE m = n BY <3>1, <3>2
        <3>3. CASE m # n
            <4>1. Elsewhere(m)' <=> Elsewhere(m) BY <1>2, <3>1, <3>3
            <4>2. ASSUME NEW v \in Workers PROVE wid'[v] = m <=> wid[v] = m
                BY <3>1, <3>3
            <4>. HIDE DEF Elsewhere, TypeOK, RedisTypes, PromoterTypes
            <4>. QED BY <4>1, <4>2
        <3>. QED BY <3>2, <3>3
    <2>. QED BY <2>1 DEF Moves
<1>4. ASSUME NEW p \in Promoters, PromoteStep(p) PROVE Moves
    <2>1. ASSUME NEW m \in Notif PROVE Near(m)' <=> Near(m)
        <3>1. CASE Scan(p) BY <1>2, <3>1 DEF Scan, PromoterFrame, workerVars
        <3>2. ASSUME NEW n \in Notif, ClaimDue(p, n) PROVE Near(m)' <=> Near(m)
            <4>1. UNCHANGED <<queue, wid>> BY <3>2 DEF ClaimDue, PromoterFrame, workerVars
            <4>2. CASE m = n
                BY <1>2, <3>2, <4>1, <4>2 DEF ClaimDue, Claimed, Remove, Stores
            <4>3. CASE m # n
                BY <1>2, <3>2, <4>1, <4>3 DEF ClaimDue, Remove, Stores
            <4>. QED BY <4>2, <4>3
        <3>3. CASE Promote(p)
            BY <1>2, <3>3 DEF Promote, Push, PromoterFrame, workerVars
        <3>. QED BY <1>4, <3>1, <3>2, <3>3 DEF PromoteStep
    <2>. QED BY <2>1 DEF Moves
<1>5. ASSUME NEW p \in Promoters, PromoterAbort(p) PROVE Moves
    <2>1. /\ UNCHANGED <<queue, zset, wid>> /\ faults' = faults + 1
          /\ pheld' = [pheld EXCEPT ![p] = None]
        BY <1>5 DEF PromoterAbort, PromoterFrame, workerVars, Fault
    <2>2. CASE pheld[p] = None
        <3>1. \A m \in Notif : Near(m)' <=> Near(m) BY <1>2, <2>1, <2>2
        <3>. QED BY <3>1 DEF Moves
    <2>3. CASE pheld[p] \in Notif
        <3>1. PICK n \in Notif : n = pheld[p] BY <2>3
        <3>2. /\ \A m \in Notif : m # n => (Near(m)' <=> Near(m))
              /\ Near(n)' => Near(n)
            BY <1>2, <2>1, <3>1
        <3>. QED BY <2>1, <3>2 DEF Moves
    <2>. QED BY <2>2, <2>3
<1>6. ASSUME NEW s \in Stores, NEW n \in Notif, Elapse(s, n) PROVE Moves
    <2>1. \A m \in Notif : Near(m)' <=> Near(m)
        BY <1>2, <1>6 DEF Elapse, Stores, workerVars, promoterVars
    <2>. QED BY <2>1 DEF Moves
<1>7. ASSUME NEW k \in Keys, ExpireKey(k) PROVE Moves
    <2>1. \A m \in Notif : Near(m)' <=> Near(m)
        BY <1>2, <1>7 DEF ExpireKey, CreateFrame, workerVars, promoterVars
    <2>. QED BY <2>1 DEF Moves
<1>. QED BY <1>1, <1>3, <1>4, <1>5, <1>6, <1>7

LEMMA MoveContract ==
    ASSUME TypeOK, TypeOK', faults > 0 => faults' > 0,
           UNCHANGED <<createVars, historyVars, rowVars, dlq>>, Moves
    PROVE  DC!ContractNext
<1>1. /\ Growing /\ UNCHANGED <<sends, confirmed, dlq>>
      /\ \A m \in Notif : Exists(m)' <=> Exists(m)
    BY DEF Growing, historyVars, rowVars, Exists
<1>2. CASE \A m \in Notif : Near(m)' <=> Near(m) BY <1>1, <1>2, Staying
<1>3. ASSUME faults' = faults + 1, NEW n \in Notif, Near(n)' => Near(n),
             \A m \in Notif : m # n => (Near(m)' <=> Near(m))
      PROVE  DC!ContractNext
    <2>1. faults' > 0 BY <1>3, BoundsAssumption DEF TypeOK
    <2>. QED BY <1>1, <1>3, <2>1, Losing
<1>. QED BY <1>2, <1>3 DEF Moves

Grounds == TypeOK /\ AllApart /\ Reasons

LEMMA GroundsInit == Init => Grounds
BY TypeInit, ApartInit, ReasonsInit DEF Grounds

LEMMA GroundsStep == Grounds /\ [Next]_vars => Grounds'
BY TypeStep, ApartStep, ReasonsStep DEF Grounds

LEMMA ContractStep == Grounds /\ [Next]_vars => [DC!ContractNext]_(DC!contractVars)
<1>. SUFFICES ASSUME Grounds, [Next]_vars PROVE [DC!ContractNext]_(DC!contractVars) OBVIOUS
<1>1. CASE UNCHANGED vars
    <2>1. TypeOK /\ TypeOK' BY GroundsStep DEF Grounds
    <2>2. Growing /\ UNCHANGED <<sends, confirmed>>
        BY <1>1 DEF vars, historyVars, Growing
    <2>3. \A n \in Notif : /\ Exists(n)' <=> Exists(n)
                           /\ dlq'[n] > 0 <=> dlq[n] > 0
                           /\ Near(n)' <=> Near(n)
        BY <1>1
        DEF vars, rowVars, redisVars, createVars, workerVars, promoterVars, Exists, Near,
            Elsewhere, Unplaced
    <2>. QED BY <2>1, <2>2, <2>3, Staying
<1>2. CASE Next
    <2>1. TypeOK /\ TypeOK' /\ AllApart /\ Reasons BY GroundsStep DEF Grounds
    <2>2. faults > 0 => faults' > 0 BY <1>2, <2>1, FaultsGrow, BoundsAssumption DEF TypeOK
    <2>. QED BY <1>1, <1>2, <2>1, <2>2, CreateContract, CancelContract, ProcessContract,
                MoveSpares, MoveContract DEF Next, Backend
<1>. QED BY <1>1, <1>2

\* Whatever interleaves and whatever fails, a stored notification is delivered
\* once and never tried again, or dead-lettered after MaxAttempts tries and never
\* tried again, or dropped for a cancel request or a failure.
THEOREM ContractCorrect == Spec => Contract
<1>1. Init => DC!ContractInit
    <2>. SUFFICES ASSUME Init PROVE DC!ContractInit OBVIOUS
    <2>1. TypeOK BY TypeInit
    <2>2. \A n \in Notif : Phase(n) = "none" BY <2>1, PhaseIs DEF PhaseTable, Init, Exists
    <2>3. \A n \in Notif : (cancelReq[n] \/ faults > 0) = FALSE BY DEF Init
    <2>4. [n \in Notif |-> Phase(n)] = [n \in Notif |-> "none"] BY <2>2
    <2>5. [n \in Notif |-> cancelReq[n] \/ faults > 0] = [n \in Notif |-> FALSE] BY <2>3, Zenon
    <2>. QED BY <2>4, <2>5 DEF Init, DC!ContractInit
<1>2. Spec => []Grounds BY GroundsInit, GroundsStep, PTL DEF Spec
<1>. QED BY <1>1, <1>2, ContractStep, PTL DEF Spec, Contract, DC!Contract

-----------------------------------------------------------------------------
(* Every loss is paid for with a failure of its own.                         *)

\* Lost, or with a worker whose dead letter could not be written: the item will
\* be dropped and nothing will tell of it.
Sinking(n) == /\ Open(n) /\ ~cancelReq[n]
              /\ ~Near(n) \/ \E w \in Workers : wid[w] = n /\ wpc[w] = "fail"

Sunk == {n \in Notif : Sinking(n)}

SunkBounded == IsFiniteSet(Sunk) /\ Cardinality(Sunk) <= faults

\* What a step may do: sink nothing, or one notification at the price of a fault.
Paid == \/ faults' \in {faults, faults + 1} /\ \A n \in Notif : Sinking(n)' => Sinking(n)
        \/ faults' = faults + 1
           /\ \E n \in Notif : \A m \in Notif : m # n /\ Sinking(m)' => Sinking(m)

LEMMA StaysAfloat ==
    ASSUME NEW n \in Notif, Open(n)' => Open(n), cancelReq[n] => cancelReq'[n],
           Near(n) => Near(n)',
           \A w \in Workers : wid'[w] = n /\ wpc'[w] = "fail" => wid[w] = n /\ wpc[w] = "fail"
    PROVE  Sinking(n)' => Sinking(n)
BY DEF Sinking

LEMMA CreatePaid ==
    ASSUME TypeOK, Reasons, Next, NEW n \in Notif, CreateStep(n) \/ CreateAbort(n) PROVE Paid
<1>1. /\ UNCHANGED <<wid, wpc, cancelReq, confirmed, dlq>>
      /\ \A m \in Notif : m # n => (Exists(m)' <=> Exists(m)) /\ (Near(m)' <=> Near(m))
    BY CreateSpares DEF workerVars, historyVars
<1>2. \A m \in Notif : m # n => (Sinking(m)' => Sinking(m)) BY <1>1, StaysAfloat DEF Open
<1>3. CASE ~Exists(n) /\ Near(n)'
    <2>1. ASSUME NEW w \in Workers, wid[w] = n PROVE wpc[w] # "fail"
        BY <1>3, <2>1 DEF Reasons, Reason, WorkerReason
    <2>2. ~Sinking(n)' BY <1>1, <1>3, <2>1 DEF Sinking
    <2>. QED BY <1>2, <2>2, FaultsGrow DEF Paid
<1>4. CASE /\ Exists(n)' <=> Exists(n)
           /\ Open(n) /\ ~Near(n)' => ~Near(n) \/ faults' = faults + 1
    <2>1. CASE faults' = faults + 1 BY <1>2, <2>1 DEF Paid
    <2>2. CASE faults' # faults + 1
        <3>1. Sinking(n)' => Sinking(n) BY <1>1, <1>4, <2>2 DEF Sinking, Open
        <3>. QED BY <1>2, <3>1, FaultsGrow DEF Paid
    <2>. QED BY <2>1, <2>2
<1>. QED BY <1>3, <1>4, CreateSpares

LEMMA CancelPaid ==
    ASSUME TypeOK, Reasons, Next, NEW x \in Cancellers,
           CancelStep(x) \/ CancelAbort(x) \/ \E n \in Notif : CancelCheck(x, n)
    PROVE  Paid
<1>1. /\ UNCHANGED <<wid, wpc, confirmed, dlq>>
      /\ \A m \in Notif : (cancelReq[m] => cancelReq'[m]) /\ (Exists(m)' <=> Exists(m))
      /\ \A m \in Notif : cancelReq'[m] \/ (Near(m)' <=> Near(m))
    BY CancelSpares DEF workerVars
<1>2. ASSUME NEW m \in Notif, Sinking(m)' PROVE Sinking(m)
    <2>1. Near(m)' <=> Near(m) BY <1>1, <1>2 DEF Sinking
    <2>. QED BY <1>1, <1>2, <2>1, StaysAfloat DEF Open
<1>. QED BY <1>2, FaultsGrow DEF Paid

LEMMA ProcessPaid ==
    ASSUME TypeOK, AllApart, Reasons, Next, NEW w \in Workers, ProcessStep(w) \/ WorkerAbort(w)
    PROVE  Paid
<1>0. /\ wpc \in [Workers -> {"idle", "get", "limit", "throttle", "mark", "send",
                              "logDelivered", "deliver", "logFailed", "bury",
                              "fail", "requeue", "schedule"}]
      /\ wid \in [Workers -> Notif \cup {None}] /\ dlq \in [Notif -> Nat]
      /\ confirmed \in [Notif -> BOOLEAN] /\ None \notin Notif
    BY ConstantsAssumption DEF TypeOK, HistoryTypes, RedisTypes, WorkerTypes
<1>1. /\ UNCHANGED cancelReq /\ wid'[w] \in {wid[w], None}
      /\ \A v \in Workers : v # w => wpc'[v] = wpc[v] /\ wid'[v] = wid[v]
    BY ProcessSpares
<1>2. PICK n \in Notif : /\ wid[w] = n /\ \A v \in Workers : wid[v] = n => v = w
                         /\ \A m \in Notif : Exists(m)' <=> Exists(m)
                         /\ \A m \in Notif : m # n => (Near(m)' <=> Near(m))
    BY ProcessSpares
<1>3. ASSUME NEW m \in Notif PROVE Open(m)' => Open(m)
    BY <1>0, <1>2
    DEF ProcessStep, WorkerAbort, Load, Limit, Throttle, MarkSending, Send, LogAttempt, Deliver,
        DeadLetter, Fail, Requeue, ScheduleRetry, Ignored, redisVars, Open
<1>4. \A m \in Notif : m # n => (Sinking(m)' => Sinking(m))
    BY <1>0, <1>1, <1>2, <1>3, StaysAfloat
<1>5. CASE faults' = faults + 1 BY <1>4, <1>5 DEF Paid
<1>6. CASE faults' # faults + 1
    <2>1. ASSUME Sinking(n)' PROVE Sinking(n)
        <3>1. Open(n) /\ ~cancelReq[n] BY <1>1, <1>3, <2>1 DEF Sinking
        <3>2. CASE ~Near(n)'
            BY <1>2, <1>6, <3>1, <3>2, ProcessDrops DEF Sinking
        <3>3. CASE wpc'[w] = "fail"
            <4>1. DeadLetter(w) /\ dlq'[n] = dlq[n] + 1
                BY <1>0, <1>2, <1>6, <3>3
                DEF ProcessStep, WorkerAbort, Load, Limit, Throttle, MarkSending, Send,
                    LogAttempt, Deliver, DeadLetter, Fail, Requeue, ScheduleRetry, Ignored,
                    Fault, WorkerGoto, WorkerDone
            <4>. QED BY <1>0, <2>1, <4>1 DEF Sinking, Open
        <3>. QED BY <1>1, <1>2, <2>1, <3>2, <3>3 DEF Sinking
    <2>. QED BY <1>4, <2>1, FaultsGrow DEF Paid
<1>. QED BY <1>5, <1>6

LEMMA MovePaid ==
    ASSUME TypeOK, Next,
           \/ \E w \in Workers, n \in Notif : Dequeue(w, n)
           \/ \E p \in Promoters : PromoteStep(p) \/ PromoterAbort(p)
           \/ \E k \in Keys : ExpireKey(k)
           \/ \E s \in Stores, n \in Notif : Elapse(s, n)
    PROVE  Paid
<1>1. UNCHANGED <<createVars, historyVars, rowVars, dlq>> /\ Moves BY MoveSpares
<1>2. \A n \in Notif : (Open(n)' => Open(n)) /\ cancelReq'[n] = cancelReq[n]
    BY <1>1 DEF Open, Exists, historyVars, rowVars
<1>3. \A v \in Workers : wpc'[v] = "fail" => wpc[v] = "fail" /\ wid'[v] = wid[v]
    BY DEF Dequeue, PromoteStep, PromoterAbort, Scan, ClaimDue, Promote, PromoterFrame, ExpireKey,
           Elapse, CreateFrame, workerVars, TypeOK, WorkerTypes
<1>4. \A n \in Notif : (Near(n) => Near(n)') => (Sinking(n)' => Sinking(n))
    BY <1>2, <1>3, StaysAfloat
<1>. QED BY <1>1, <1>4, FaultsGrow DEF Moves, Paid

LEMMA PaidStep == Grounds /\ [Next]_vars => Paid
<1>. SUFFICES ASSUME Grounds, [Next]_vars PROVE Paid OBVIOUS
<1>1. CASE UNCHANGED vars
    <2>1. \A n \in Notif : Sinking(n)' <=> Sinking(n)
        BY <1>1
        DEF vars, rowVars, redisVars, createVars, workerVars, promoterVars, historyVars, Sinking,
            Open, Exists, Near, Elsewhere, Unplaced
    <2>. QED BY <1>1, <2>1 DEF vars, Paid
<1>2. CASE Next
    <2>1. CASE Idle /\ UNCHANGED vars BY <1>1, <2>1
    <2>2. CASE ~(Idle /\ UNCHANGED vars)
        BY <1>2, <2>2, CreatePaid, CancelPaid, ProcessPaid, MovePaid DEF Next, Backend, Grounds
    <2>. QED BY <2>1, <2>2
<1>. QED BY <1>1, <1>2

LEMMA SunkStep == Grounds /\ SunkBounded /\ [Next]_vars => SunkBounded'
<1>. SUFFICES ASSUME Grounds, SunkBounded, [Next]_vars PROVE SunkBounded' OBVIOUS
<1>0. faults \in Nat /\ Cardinality(Sunk) \in Nat
    BY BoundsAssumption, FS_CardinalityType DEF Grounds, TypeOK, SunkBounded
<1>1. CASE faults' \in {faults, faults + 1} /\ \A n \in Notif : Sinking(n)' => Sinking(n)
    <2>1. Sunk' \subseteq Sunk BY <1>1 DEF Sunk
    <2>2. IsFiniteSet(Sunk') /\ Cardinality(Sunk') <= Cardinality(Sunk)
        BY <2>1, FS_Subset DEF SunkBounded
    <2>3. Cardinality(Sunk') \in Nat BY <2>2, FS_CardinalityType
    <2>. QED BY <1>0, <1>1, <2>2, <2>3 DEF SunkBounded
<1>2. ASSUME faults' = faults + 1, NEW n \in Notif,
             \A m \in Notif : m # n /\ Sinking(m)' => Sinking(m)
      PROVE  SunkBounded'
    <2>. DEFINE T == Sunk \cup {n}
    <2>1. Sunk' \subseteq T BY <1>2 DEF Sunk
    <2>2. IsFiniteSet(T) /\ Cardinality(T) \in {Cardinality(Sunk), Cardinality(Sunk) + 1}
        <3>1. IsFiniteSet(Sunk) BY DEF SunkBounded
        <3>. HIDE DEF Sunk
        <3>. QED BY <3>1, FS_AddElement
    <2>. HIDE DEF T
    <2>3. IsFiniteSet(Sunk') /\ Cardinality(Sunk') <= Cardinality(T) BY <2>1, <2>2, FS_Subset
    <2>4. Cardinality(Sunk') \in Nat BY <2>3, FS_CardinalityType
    <2>. QED BY <1>0, <1>2, <2>2, <2>3, <2>4 DEF SunkBounded
<1>. QED BY <1>1, <1>2, PaidStep DEF Paid

\* Every notification that is lost, neither accepted nor dead-lettered nor asked to
\* be cancelled, has a failure of its own: one failed call or one death costs at
\* most one notification, and without a failure nothing is lost.
THEOREM LossesBoundedCorrect == Spec => []LossesBounded
<1>1. Init => SunkBounded
    <2>. SUFFICES ASSUME Init PROVE SunkBounded OBVIOUS
    <2>1. Sunk = {} BY DEF Init, Sunk, Sinking, Open, Exists
    <2>. QED BY <2>1, FS_EmptySet DEF Init, SunkBounded
<1>2. Grounds /\ SunkBounded => LossesBounded
    <2>. SUFFICES ASSUME Grounds, SunkBounded PROVE Cardinality(Lost) <= faults
        BY DEF LossesBounded
    <2>1. Lost \subseteq Sunk
        BY NearIsLive DEF Grounds, Lost, Sunk, Sinking, Dropped, Open
    <2>2. IsFiniteSet(Lost) /\ Cardinality(Lost) <= Cardinality(Sunk)
        BY <2>1, FS_Subset DEF SunkBounded
    <2>3. Cardinality(Lost) \in Nat /\ Cardinality(Sunk) \in Nat /\ faults \in Nat
        BY <2>2, BoundsAssumption, FS_CardinalityType DEF Grounds, TypeOK, SunkBounded
    <2>. QED BY <2>2, <2>3 DEF SunkBounded
<1>3. Spec => []Grounds BY GroundsInit, GroundsStep, PTL DEF Spec
<1>. QED BY <1>1, <1>2, <1>3, SunkStep, PTL DEF Spec

-----------------------------------------------------------------------------
(* Nothing starts to work on a settled notification: the workers and the     *)
(* cancel requests look at the row first, and a failed one has no item left. *)

FailedIsGone == \A n \in Notif : status[n] = "failed" => ~Near(n)

\* Items are not made, only moved.
LEMMA NearShrinks ==
    ASSUME TypeOK, [Next]_vars, NEW n \in Notif, Near(n)' PROVE Near(n)
<1>. USE ConstantsAssumption
     DEF Near, Elsewhere, Unplaced, Stores, TypeOK, RedisTypes, redisVars, createVars,
         workerVars, promoterVars
<1>1. ASSUME NEW m \in Notif, CreateStep(m) \/ CreateAbort(m) PROVE Near(n)
    BY <1>1
    DEF CreateStep, CreateCall, Lookup, Build, Claim, Recall, Fetch, Insert, PlaceItem, Finish, Confirm,
        CreateAbort, Goto, Return, Push, Add, CreateFrame, CreateTypes
<1>2. ASSUME NEW x \in Cancellers,
             CancelStep(x) \/ CancelAbort(x) \/ \E m \in Notif : CancelCheck(x, m)
      PROVE  Near(n)
    BY <1>2
    DEF CancelStep, CancelAbort, CancelCheck, CancelDequeue, CancelUnschedule, CancelCommit,
        Ignored, Remove, CancelFrame
<1>3. ASSUME NEW w \in Workers,
             ProcessStep(w) \/ WorkerAbort(w) \/ \E m \in Notif : Dequeue(w, m)
      PROVE  Near(n)
    <2>1. CASE \E m \in Notif : Dequeue(w, m)
        BY <2>1 DEF Dequeue, HeadOfLine, ProcessFrame, WorkerTypes
    <2>2. CASE ProcessStep(w) \/ WorkerAbort(w)
        BY <2>2
        DEF ProcessStep, WorkerAbort, Load, Limit, Throttle, MarkSending, Send, LogAttempt,
            Deliver, DeadLetter, Fail, Requeue, ScheduleRetry, Ignored, Add, ProcessFrame,
            WorkerGoto, WorkerDone, WorkerTypes
    <2>. QED BY <1>3, <2>1, <2>2
<1>4. ASSUME NEW p \in Promoters, PromoteStep(p) \/ PromoterAbort(p) PROVE Near(n)
    BY <1>4
    DEF PromoteStep, PromoterAbort, Scan, ClaimDue, Claimed, Promote, Push, Remove,
        PromoterFrame, PromoterTypes
<1>5. ASSUME NEW k \in Keys, ExpireKey(k) PROVE Near(n) BY <1>5 DEF ExpireKey, CreateFrame
<1>6. ASSUME NEW s \in Stores, NEW m \in Notif, Elapse(s, m) PROVE Near(n) BY <1>6 DEF Elapse
<1>7. CASE UNCHANGED vars BY <1>7 DEF vars
<1>. QED BY <1>1, <1>2, <1>3, <1>4, <1>5, <1>6, <1>7 DEF Next, Backend

LEMMA FailedStep ==
    ASSUME Grounds, FailedIsGone, [Next]_vars, NEW n \in Notif, status'[n] = "failed"
    PROVE  ~Near(n)'
<1>. TypeOK /\ AllApart BY DEF Grounds
<1>1. CASE status[n] = "failed" BY <1>1, NearShrinks DEF FailedIsGone
<1>2. CASE status[n] # "failed"
    <2>1. PICK w \in Workers : Fail(w) /\ wid[w] = n
        <3>1. ASSUME NEW m \in Notif, CreateStep(m) \/ CreateAbort(m) PROVE FALSE
            BY <1>2, <3>1
            DEF CreateStep, CreateCall, Lookup, Build, Claim, Recall, Fetch, Insert, PlaceItem, Finish,
                Confirm, CreateAbort, UpdateStatus, rowVars, TypeOK, RowTypes
        <3>2. ASSUME NEW x \in Cancellers,
                     CancelStep(x) \/ CancelAbort(x) \/ \E m \in Notif : CancelCheck(x, m)
              PROVE  FALSE
            BY <1>2, <3>2
            DEF CancelStep, CancelAbort, CancelCheck, CancelDequeue, CancelUnschedule,
                CancelCommit, UpdateStatus, rowVars, TypeOK, RowTypes
        <3>3. ASSUME NEW w \in Workers,
                     ProcessStep(w) \/ WorkerAbort(w) \/ \E m \in Notif : Dequeue(w, m)
              PROVE  Fail(w) /\ wid[w] = n
            BY <1>2, <3>3
            DEF ProcessStep, WorkerAbort, Dequeue, Load, Limit, Throttle, MarkSending, Send,
                LogAttempt, Deliver, DeadLetter, Fail, Requeue, ScheduleRetry, Ignored,
                UpdateStatus, rowVars, TypeOK, RowTypes
        <3>4. ASSUME NEW p \in Promoters, PromoteStep(p) \/ PromoterAbort(p) PROVE FALSE
            BY <1>2, <3>4 DEF PromoteStep, PromoterAbort, Scan, ClaimDue, Promote, rowVars
        <3>5. ASSUME NEW k \in Keys, ExpireKey(k) PROVE FALSE
            BY <1>2, <3>5 DEF ExpireKey, rowVars
        <3>6. ASSUME NEW s \in Stores, NEW m \in Notif, Elapse(s, m) PROVE FALSE
            BY <1>2, <3>6 DEF Elapse, rowVars
        <3>7. ~UNCHANGED vars BY <1>2 DEF vars, rowVars
        <3>. QED BY <3>1, <3>2, <3>3, <3>4, <3>5, <3>6, <3>7 DEF Next, Backend
    <2>2. ~Elsewhere(n) /\ \A v \in Workers : wid[v] = n => v = w
        BY <2>1, WorkerAlone DEF Fail
    <2>. QED BY <2>1, <2>2, ConstantsAssumption
         DEF Fail, WorkerDone, ProcessFrame, createVars, promoterVars, redisVars, Near,
             Elsewhere, Unplaced, TypeOK, WorkerTypes
<1>. QED BY <1>1, <1>2

LEMMA SettledStep ==
    ASSUME TypeOK, FailedIsGone, [Next]_vars, NEW n \in Notif, Settled(n)
    PROVE  /\ Settled(n)'
           /\ status'[n] = status[n] /\ attempts'[n] = attempts[n] /\ sends'[n] = sends[n]
<1>0. /\ status[n] \in {"delivered", "failed", "cancelled"} /\ cpc[n] = "done"
      /\ \A x \in Cancellers : xid[x] # n
      /\ \A w \in Workers : wid[w] = n => wpc[w] = "get" /\ status[n] # "failed"
      /\ None # n
    BY ConstantsAssumption DEF Settled, Writers, FailedIsGone, Near
<1>. SUFFICES /\ UNCHANGED <<status[n], attempts[n], sends[n], cpc[n]>>
              /\ \A x \in Cancellers : xid'[x] # n
              /\ \A w \in Workers : wid'[w] = n => wpc'[w] = "get"
    BY <1>0 DEF Settled, Writers
<1>. USE <1>0 DEF TypeOK, RowTypes, HistoryTypes, rowVars, createVars, cancelVars, workerVars,
                  historyVars
<1>1. ASSUME NEW m \in Notif, CreateStep(m) \/ CreateAbort(m)
      PROVE  /\ UNCHANGED <<status[n], attempts[n], sends[n], cpc[n]>>
             /\ UNCHANGED <<xid, wid, wpc>>
    BY <1>1
    DEF CreateStep, CreateCall, Lookup, Build, Claim, Recall, Fetch, Insert, PlaceItem, Finish, Confirm,
        CreateAbort, Goto, Return, UpdateStatus, CreateFrame, CreateTypes
<1>2. ASSUME NEW x \in Cancellers,
             CancelStep(x) \/ CancelAbort(x) \/ \E m \in Notif : CancelCheck(x, m)
      PROVE  /\ UNCHANGED <<status[n], attempts[n], sends[n], cpc[n]>>
             /\ UNCHANGED <<wid, wpc>> /\ \A y \in Cancellers : xid'[y] # n
    BY <1>2
    DEF CancelStep, CancelAbort, CancelCheck, CancelDequeue, CancelUnschedule, CancelCommit,
        Cancellable, CancelGoto, CancelDone, UpdateStatus, CancelFrame, CancelTypes
<1>3. ASSUME NEW w \in Workers,
             ProcessStep(w) \/ WorkerAbort(w) \/ \E m \in Notif : Dequeue(w, m)
      PROVE  /\ UNCHANGED <<status[n], attempts[n], sends[n], cpc[n]>>
             /\ UNCHANGED xid /\ \A v \in Workers : wid'[v] = n => wpc'[v] = "get"
    <2>1. CASE \E m \in Notif : Dequeue(w, m)
        BY <2>1 DEF Dequeue, ProcessFrame, WorkerTypes
    <2>2. CASE Load(w) BY <2>2 DEF Load, WorkerDone, ProcessFrame, WorkerTypes
    <2>3. CASE WorkerAbort(w) BY <2>3 DEF WorkerAbort, WorkerDone, ProcessFrame, WorkerTypes
    <2>4. CASE ProcessStep(w) /\ ~Load(w)
        <3>1. wid[w] # n
            BY <2>4
            DEF ProcessStep, Limit, Throttle, MarkSending, Send, LogAttempt, Deliver, DeadLetter,
                Fail, Requeue, ScheduleRetry
        <3>. QED BY <2>4, <3>1
             DEF ProcessStep, Limit, Throttle, MarkSending, Send, LogAttempt, Deliver,
                 DeadLetter, Fail, Requeue, ScheduleRetry, Ignored, UpdateStatus, WorkerGoto,
                 WorkerDone, ProcessFrame, WorkerTypes
    <2>. QED BY <1>3, <2>1, <2>2, <2>3, <2>4
<1>4. ASSUME \/ \E p \in Promoters : PromoteStep(p) \/ PromoterAbort(p)
             \/ \E k \in Keys : ExpireKey(k)
             \/ \E s \in Stores, m \in Notif : Elapse(s, m)
             \/ UNCHANGED vars
      PROVE  UNCHANGED <<status, attempts, sends, cpc, xid, wid, wpc>>
    BY <1>4
    DEF PromoteStep, PromoterAbort, Scan, ClaimDue, Promote, PromoterFrame, ExpireKey,
        CreateFrame, Elapse, vars
<1>. QED BY <1>1, <1>2, <1>3, <1>4 DEF Next, Backend

\* Once a row is final and no handler acts on an older read, it stays as it is and
\* the notification is not sent again, whatever fails.
THEOREM SettledIsFinalCorrect == Spec => SettledIsFinal
<1>. DEFINE Inv == Grounds /\ FailedIsGone
<1>1. Init => Inv BY GroundsInit DEF Init, FailedIsGone
<1>2. Inv /\ [Next]_vars => Inv' BY GroundsStep, FailedStep DEF FailedIsGone
<1>3. Inv /\ [Next]_vars =>
          [\A n \in Notif : Settled(n) =>
               /\ Settled(n)'
               /\ status'[n] = status[n] /\ attempts'[n] = attempts[n]
               /\ sends'[n] = sends[n]]_vars
    BY SettledStep DEF Grounds
<1>. QED BY <1>1, <1>2, <1>3, PTL DEF Spec, SettledIsFinal
=============================================================================
