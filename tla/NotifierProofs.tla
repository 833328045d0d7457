--------------------------- MODULE NotifierProofs ---------------------------
(* Theorems about Notifier, for any number of requests, workers, promoters,  *)
(* cancel requests, attempts and faults.                                     *)
EXTENDS Notifier, TLAPS

LEMMA TypeInit == Init => TypeOK
BY ConstantsAssumption, BoundsAssumption
DEF Init, TypeOK, RowTypes, RedisTypes, CreateTypes, CancelTypes, WorkerTypes,
    PromoterTypes, HistoryTypes, Statuses, Stores

\* What no step touches keeps its type.
LEMMA TypeFrame ==
    ASSUME TypeOK
    PROVE  /\ UNCHANGED rowVars      => RowTypes'
           /\ UNCHANGED redisVars    => RedisTypes'
           /\ UNCHANGED createVars   => CreateTypes'
           /\ UNCHANGED cancelVars   => CancelTypes'
           /\ UNCHANGED workerVars   => WorkerTypes'
           /\ UNCHANGED promoterVars => PromoterTypes'
           /\ UNCHANGED historyVars  => HistoryTypes'
           /\ UNCHANGED faults       => (faults \in 0..MaxFaults)'
BY DEF TypeOK, RowTypes, RedisTypes, CreateTypes, CancelTypes, WorkerTypes,
    PromoterTypes, HistoryTypes, rowVars, redisVars, createVars, cancelVars,
    workerVars, promoterVars, historyVars

LEMMA CreateType ==
    ASSUME TypeOK, NEW n \in Notif, CreateStep(n) PROVE TypeOK'
<1>0. CancelTypes' /\ WorkerTypes' /\ PromoterTypes' /\ HistoryTypes'
    <2>. CreateFrame
        BY DEF CreateStep, CreateCall, Lookup, Build, Claim, Recall, Fetch, Insert, PlaceItem, Confirm
    <2>. QED BY TypeFrame DEF CreateFrame
<1>1. (faults \in 0..MaxFaults)'
    BY BoundsAssumption
    DEF TypeOK, CreateStep, CreateCall, Lookup, Build, Claim, Recall, Fetch, Insert, PlaceItem,
        Confirm, Finish, Fault
<1>2. RowTypes'
    <2>1. CASE Insert(n) BY <2>1 DEF Insert, TypeOK, RowTypes, Statuses, rowVars
    <2>2. CASE Confirm(n) BY <2>2 DEF Confirm, Finish, UpdateStatus, TypeOK, RowTypes, Statuses
    <2>. QED BY <2>1, <2>2, TypeFrame
         DEF CreateStep, CreateCall, Lookup, Build, Claim, Recall, Fetch, PlaceItem
<1>3. RedisTypes'
    <2>1. CASE Claim(n) BY <2>1 DEF Claim, TypeOK, RedisTypes, Goto
    <2>2. CASE PlaceItem(n) BY <2>2 DEF PlaceItem, Finish, Push, Add, Stores, TypeOK, RedisTypes
    <2>. QED BY <2>1, <2>2, TypeFrame
         DEF CreateStep, CreateCall, Lookup, Build, Recall, Fetch, Insert, Confirm
<1>4. CreateTypes'
    <2>. USE DEF TypeOK, CreateTypes, Goto, Return
    <2>1. CASE Lookup(n) BY <2>1 DEF Lookup, RowsWithKey
    <2>2. CASE \E verdict \in Verdicts : Build(n, verdict) BY <2>2 DEF Build, Verdicts
    <2>3. CASE Claim(n) BY <2>3 DEF Claim
    <2>4. CASE Recall(n)
        <3>1. idem[KeyOf[n]] \in Notif \cup {None}
            <4>1. KeyOf[n] # None BY <2>4 DEF Recall
            <4>2. KeyOf[n] \in Keys BY <4>1, ConstantsAssumption
            <4>. QED BY <4>2 DEF RedisTypes
        <3>2. CASE idem[KeyOf[n]] = None BY <2>4, <3>2 DEF Recall
        <3>3. CASE idem[KeyOf[n]] # None BY <2>4, <3>1, <3>3 DEF Recall
        <3>. QED BY <3>2, <3>3
    <2>5. CASE Fetch(n) BY <2>5 DEF Fetch
    <2>6. CASE Insert(n) BY <2>6 DEF Insert
    <2>7. CASE PlaceItem(n) BY <2>7 DEF PlaceItem, Finish
    <2>8. CASE Confirm(n) BY <2>8 DEF Confirm, Finish
    <2>. QED BY <2>1, <2>2, <2>3, <2>4, <2>5, <2>6, <2>7, <2>8 DEF CreateStep, CreateCall
<1>. QED BY <1>0, <1>1, <1>2, <1>3, <1>4 DEF TypeOK

LEMMA CancelType ==
    ASSUME TypeOK, NEW x \in Cancellers,
           CancelStep(x) \/ \E n \in Notif : CancelCheck(x, n)
    PROVE  TypeOK'
<1>. DEFINE Check == \E n \in Notif : CancelCheck(x, n)
<1>0. CreateTypes' /\ WorkerTypes' /\ PromoterTypes'
    BY TypeFrame
    DEF CancelStep, CancelCheck, CancelDequeue, CancelUnschedule, CancelCommit, CancelFrame
<1>1. (faults \in 0..MaxFaults)'
    BY BoundsAssumption
    DEF CancelStep, CancelCheck, CancelDequeue, CancelUnschedule, CancelCommit,
        Ignored, Fault, TypeOK
<1>2. RowTypes'
    <2>1. CASE CancelCommit(x)
        BY <2>1 DEF CancelCommit, UpdateStatus, TypeOK, RowTypes, CancelTypes, Statuses
    <2>. QED BY <2>1, TypeFrame DEF CancelStep, CancelCheck, CancelDequeue, CancelUnschedule
<1>3. RedisTypes'
    <2>1. CASE CancelDequeue(x) BY <2>1 DEF CancelDequeue, Ignored, TypeOK, RedisTypes
    <2>2. CASE CancelUnschedule(x)
        BY <2>2 DEF CancelUnschedule, Ignored, Remove, Stores, TypeOK, RedisTypes
    <2>. QED BY <2>1, <2>2, TypeFrame DEF CancelStep, CancelCheck, CancelCommit
<1>4. CancelTypes'
    <2>. USE DEF TypeOK, CancelTypes, CancelGoto, CancelDone
    <2>1. CASE Check BY <2>1, ConstantsAssumption DEF CancelCheck, RowTypes
    <2>2. CASE CancelDequeue(x) BY <2>2 DEF CancelDequeue
    <2>3. CASE CancelUnschedule(x) BY <2>3 DEF CancelUnschedule
    <2>4. CASE CancelCommit(x) BY <2>4 DEF CancelCommit
    <2>. QED BY <2>1, <2>2, <2>3, <2>4 DEF CancelStep
<1>5. HistoryTypes'
    BY DEF CancelStep, CancelCheck, CancelDequeue, CancelUnschedule, CancelCommit,
           CancelFrame, HistoryTypes, TypeOK
<1>. QED BY <1>0, <1>1, <1>2, <1>3, <1>4, <1>5 DEF TypeOK

LEMMA ProcessType ==
    ASSUME TypeOK, NEW w \in Workers,
           ProcessStep(w) \/ \E n \in Notif : Dequeue(w, n)
    PROVE  TypeOK'
<1>. DEFINE Take == \E n \in Notif : Dequeue(w, n)
<1>. USE DEF ProcessStep, Ignored
<1>0. CreateTypes' /\ CancelTypes' /\ PromoterTypes'
    BY TypeFrame
    DEF Dequeue, Load, Limit, Throttle, MarkSending, Send, LogAttempt, Deliver,
        DeadLetter, Fail, Requeue, ScheduleRetry, ProcessFrame
<1>1. (faults \in 0..MaxFaults)'
    BY BoundsAssumption
    DEF Dequeue, Load, Limit, Throttle, MarkSending, Send, LogAttempt, Deliver,
        DeadLetter, Fail, Requeue, ScheduleRetry, Fault, TypeOK
<1>2. RowTypes'
    <2>. USE DEF UpdateStatus, TypeOK, RowTypes, WorkerTypes, Statuses, rowVars
    <2>1. CASE MarkSending(w) BY <2>1 DEF MarkSending
    <2>2. CASE LogAttempt(w) BY <2>2 DEF LogAttempt
    <2>3. CASE Deliver(w) BY <2>3 DEF Deliver
    <2>4. CASE Fail(w) BY <2>4 DEF Fail
    <2>5. CASE Requeue(w) BY <2>5 DEF Requeue
    <2>. QED BY <2>1, <2>2, <2>3, <2>4, <2>5
         DEF Dequeue, Load, Limit, Throttle, Send, DeadLetter, ScheduleRetry
<1>3. RedisTypes'
    <2>. USE DEF TypeOK, RedisTypes, redisVars
    <2>1. CASE Take BY <2>1 DEF Dequeue, HeadOfLine
    <2>2. CASE Throttle(w) BY <2>2 DEF Throttle, Add, Stores
    <2>3. CASE DeadLetter(w) BY <2>3 DEF DeadLetter
    <2>4. CASE ScheduleRetry(w) BY <2>4 DEF ScheduleRetry, Add, Stores
    <2>. QED BY <2>1, <2>2, <2>3, <2>4
         DEF Load, Limit, MarkSending, Send, LogAttempt, Deliver, Fail, Requeue
<1>4. WorkerTypes'
    <2>. USE ConstantsAssumption DEF TypeOK, WorkerTypes, WorkerGoto, WorkerDone
    <2>1. CASE Take BY <2>1 DEF Dequeue
    <2>2. CASE Load(w) BY <2>2 DEF Load, RowTypes
    <2>3. CASE \E verdict \in {"allowed", "throttled"} : Limit(w, verdict) BY <2>3 DEF Limit
    <2>4. CASE Throttle(w) BY <2>4 DEF Throttle
    <2>5. CASE MarkSending(w) BY <2>5 DEF MarkSending
    <2>6. CASE \E reply \in {"accepted", "refused"} : Send(w, reply) BY <2>6 DEF Send
    <2>7. CASE LogAttempt(w) BY <2>7 DEF LogAttempt
    <2>8. CASE Deliver(w) BY <2>8 DEF Deliver
    <2>9. CASE DeadLetter(w) BY <2>9 DEF DeadLetter
    <2>10. CASE Fail(w) BY <2>10 DEF Fail
    <2>11. CASE Requeue(w) BY <2>11 DEF Requeue
    <2>12. CASE ScheduleRetry(w) BY <2>12 DEF ScheduleRetry
    <2>. QED BY <2>1, <2>2, <2>3, <2>4, <2>5, <2>6, <2>7, <2>8, <2>9, <2>10, <2>11, <2>12
<1>5. HistoryTypes'
    <2>1. CASE \E reply \in {"accepted", "refused"} : Send(w, reply)
        <3>1. PICK reply \in {"accepted", "refused"} : Send(w, reply) BY <2>1
        <3>2. sends' \in [Notif -> Nat]
            BY <3>1 DEF Send, TypeOK, HistoryTypes, WorkerTypes
        <3>3. confirmed' \in [Notif -> BOOLEAN]
            BY <3>1 DEF Send, TypeOK, HistoryTypes
        <3>4. UNCHANGED cancelReq BY <3>1 DEF Send, ProcessFrame
        <3>. QED BY <3>2, <3>3, <3>4 DEF TypeOK, HistoryTypes
    <2>2. CASE Take BY <2>2, TypeFrame DEF Dequeue, ProcessFrame, historyVars
    <2>3. CASE \E verdict \in {"allowed", "throttled"} : Limit(w, verdict)
        BY <2>3, TypeFrame DEF Limit, ProcessFrame, historyVars
    <2>4. CASE Load(w) \/ Throttle(w) \/ ScheduleRetry(w)
        BY <2>4, TypeFrame DEF Load, Throttle, ScheduleRetry, ProcessFrame, historyVars
    <2>5. CASE MarkSending(w) \/ LogAttempt(w) \/ DeadLetter(w) \/ Requeue(w)
        BY <2>5, TypeFrame DEF MarkSending, LogAttempt, DeadLetter, Requeue, ProcessFrame, historyVars
    <2>6. CASE Deliver(w) \/ Fail(w)
        BY <2>6, TypeFrame DEF Deliver, Fail, ProcessFrame, historyVars
    <2>. QED BY <2>1, <2>2, <2>3, <2>4, <2>5, <2>6
<1>. QED BY <1>0, <1>1, <1>2, <1>3, <1>4, <1>5 DEF TypeOK

LEMMA PromoteType ==
    ASSUME TypeOK, NEW p \in Promoters, PromoteStep(p) PROVE TypeOK'
<1>. USE DEF PromoteStep
<1>0. CreateTypes' /\ CancelTypes' /\ WorkerTypes' /\ HistoryTypes' /\ RowTypes'
    BY TypeFrame DEF Scan, ClaimDue, Promote, PromoterFrame
<1>1. (faults \in 0..MaxFaults)'
    BY DEF Scan, ClaimDue, Promote, TypeOK
<1>2. RedisTypes'
    <2>1. CASE Scan(p) BY <2>1, TypeFrame DEF Scan
    <2>2. CASE \E n \in Notif : ClaimDue(p, n)
        BY <2>2, ConstantsAssumption DEF ClaimDue, Remove, TypeOK, RedisTypes
    <2>3. CASE Promote(p)
        BY <2>3 DEF Promote, Push, TypeOK, RedisTypes, PromoterTypes
    <2>. QED BY <2>1, <2>2, <2>3
<1>3. PromoterTypes'
    BY DEF Scan, ClaimDue, Promote, Snapshot, Due, TypeOK, PromoterTypes
<1>. QED BY <1>0, <1>1, <1>2, <1>3 DEF TypeOK

\* The steps that end a handler half way, and the passing of time.
LEMMA AbortType ==
    ASSUME TypeOK,
           \/ \E n \in Notif : CreateAbort(n)
           \/ \E x \in Cancellers : CancelAbort(x)
           \/ \E w \in Workers : WorkerAbort(w)
           \/ \E p \in Promoters : PromoterAbort(p)
           \/ \E k \in Keys : ExpireKey(k)
           \/ \E s \in Stores, n \in Notif : Elapse(s, n)
    PROVE  TypeOK'
<1>1. ASSUME NEW n \in Notif, CreateAbort(n) PROVE TypeOK'
    <2>1. CreateTypes' BY <1>1 DEF CreateAbort, Return, TypeOK, CreateTypes
    <2>. QED BY <1>1, <2>1, TypeFrame, BoundsAssumption
         DEF CreateAbort, Fault, CreateFrame, TypeOK
<1>2. ASSUME NEW x \in Cancellers, CancelAbort(x) PROVE TypeOK'
    <2>1. CancelTypes' BY <1>2 DEF CancelAbort, CancelDone, TypeOK, CancelTypes
    <2>2. HistoryTypes' BY <1>2 DEF CancelAbort, CancelFrame, TypeOK, HistoryTypes
    <2>. QED BY <1>2, <2>1, <2>2, TypeFrame, BoundsAssumption
         DEF CancelAbort, Fault, CancelFrame, TypeOK
<1>3. ASSUME NEW w \in Workers, WorkerAbort(w) PROVE TypeOK'
    <2>1. WorkerTypes' BY <1>3 DEF WorkerAbort, WorkerDone, TypeOK, WorkerTypes
    <2>2. HistoryTypes' BY <1>3 DEF WorkerAbort, ProcessFrame, TypeOK, HistoryTypes
    <2>. QED BY <1>3, <2>1, <2>2, TypeFrame, BoundsAssumption
         DEF WorkerAbort, Fault, ProcessFrame, TypeOK
<1>4. ASSUME NEW p \in Promoters, PromoterAbort(p) PROVE TypeOK'
    <2>1. PromoterTypes' BY <1>4 DEF PromoterAbort, TypeOK, PromoterTypes
    <2>. QED BY <1>4, <2>1, TypeFrame, BoundsAssumption
         DEF PromoterAbort, Fault, PromoterFrame, TypeOK
<1>5. ASSUME NEW k \in Keys, ExpireKey(k) PROVE TypeOK'
    <2>1. RedisTypes' BY <1>5 DEF ExpireKey, TypeOK, RedisTypes
    <2>. QED BY <1>5, <2>1, TypeFrame DEF ExpireKey, CreateFrame, TypeOK
<1>6. ASSUME NEW s \in Stores, NEW n \in Notif, Elapse(s, n) PROVE TypeOK'
    <2>1. RedisTypes' BY <1>6 DEF Elapse, TypeOK, RedisTypes
    <2>. QED BY <1>6, <2>1, TypeFrame DEF Elapse, TypeOK
<1>. QED BY <1>1, <1>2, <1>3, <1>4, <1>5, <1>6

LEMMA TypeStep == TypeOK /\ [Next]_vars => TypeOK'
<1>. SUFFICES ASSUME TypeOK, [Next]_vars PROVE TypeOK' OBVIOUS
<1>1. CASE UNCHANGED vars BY <1>1, TypeFrame DEF vars, TypeOK
<1>2. CASE Next BY <1>1, <1>2, CreateType, CancelType, ProcessType, PromoteType, AbortType DEF Next, Backend
<1>. QED BY <1>1, <1>2

\* The stores, the locals and the history keep their types, and a process has
\* an item exactly while it is in its handler.
THEOREM TypeCorrect == Spec => []TypeOK
BY TypeInit, TypeStep, PTL DEF Spec

-----------------------------------------------------------------------------
(* One item, in one place: SingleToken with the places written out, the form *)
(* in which every step is seen to preserve it.                               *)

Unplaced(n)   == cpc[n] \notin {"confirm", "done"}
NotQueued(n)  == queue[n] = 0
NotSet(n)     == zset["sched"][n] = "absent" /\ zset["retry"][n] = "absent"
NotHeld(n)    == \A p \in Promoters : pheld[p] # n
NotWorked(n)  == \A w \in Workers : wid[w] # n

Apart(n) ==
    /\ queue[n] <= 1
    /\ Unplaced(n) => NotQueued(n) /\ NotSet(n) /\ NotHeld(n) /\ NotWorked(n)
    /\ queue[n] > 0 => NotSet(n) /\ NotHeld(n) /\ NotWorked(n)
    /\ \/ zset["sched"][n] = "absent" /\ zset["retry"][n] = "absent"
       \/ NotHeld(n) /\ NotWorked(n)
          /\ (zset["sched"][n] = "absent" \/ zset["retry"][n] = "absent")
    /\ NotHeld(n) \/ NotWorked(n)
    /\ \A p, q \in Promoters : pheld[p] = n /\ pheld[q] = n => p = q
    /\ \A v, w \in Workers : wid[v] = n /\ wid[w] = n => v = w

AllApart == \A n \in Notif : Apart(n)

LEMMA ApartInit == Init => AllApart
BY ConstantsAssumption DEF Init, AllApart, Apart, Unplaced, NotQueued, NotSet, NotHeld,
    NotWorked, Stores

LEMMA ApartIsSingle == TypeOK /\ AllApart => SingleToken
<1>. SUFFICES ASSUME TypeOK, AllApart, NEW n \in Notif, NEW x \in Place, NEW y \in Place,
                     Holds(x, n), Holds(y, n)
              PROVE  queue[n] <= 1 /\ x = y
    BY DEF SingleToken, AllApart, Apart
<1>. USE DEF Holds, Unplaced, NotQueued, NotSet, NotHeld, NotWorked
<1>0. Apart(n) BY DEF AllApart
<1>1. CASE x = "create" BY <1>0, <1>1, PlacesAssumption DEF Apart, Stores
<1>2. CASE x = "queue" BY <1>0, <1>2, PlacesAssumption DEF Apart, Stores
<1>3. CASE x \in Stores BY <1>0, <1>3, PlacesAssumption DEF Apart, Stores
<1>4. CASE x \in Promoters BY <1>0, <1>4, PlacesAssumption DEF Apart, Stores
<1>5. CASE x \in Workers BY <1>0, <1>5, PlacesAssumption DEF Apart, Stores
<1>6. queue[n] <= 1 BY <1>0 DEF Apart
<1>. QED BY <1>1, <1>2, <1>3, <1>4, <1>5, <1>6 DEF Place

\* A step after which every item is where it was, or in fewer places.
LEMMA ApartKept ==
    ASSUME TypeOK, AllApart, UNCHANGED <<pheld, wid>>,
           \A n \in Notif : Unplaced(n)' => Unplaced(n),
           \A n \in Notif : queue'[n] = queue[n] \/ queue'[n] = 0,
           \A n \in Notif : \A s \in Stores : zset'[s][n] = zset[s][n] \/ zset'[s][n] = "absent"
    PROVE  AllApart'
<1>. SUFFICES ASSUME NEW n \in Notif PROVE Apart(n)' BY DEF AllApart
<1>1. Apart(n) BY DEF AllApart
<1>2. queue'[n] = queue[n] \/ queue'[n] = 0 OBVIOUS
<1>3. /\ zset'["sched"][n] = zset["sched"][n] \/ zset'["sched"][n] = "absent"
      /\ zset'["retry"][n] = zset["retry"][n] \/ zset'["retry"][n] = "absent"
    BY DEF Stores
<1>4. Unplaced(n)' => Unplaced(n) OBVIOUS
<1>5. (NotHeld(n)' <=> NotHeld(n)) /\ (NotWorked(n)' <=> NotWorked(n))
    BY DEF NotHeld, NotWorked
<1>6. NotSet(n) => NotSet(n)' BY <1>3 DEF NotSet
<1>7. queue'[n] <= 1 /\ (NotQueued(n) => NotQueued(n)') /\ (queue'[n] > 0 => queue[n] > 0)
    BY <1>1, <1>2 DEF Apart, NotQueued
<1>. QED BY <1>1, <1>3, <1>4, <1>5, <1>6, <1>7 DEF Apart

LEMMA CreateApart ==
    ASSUME TypeOK, AllApart, NEW n \in Notif, CreateStep(n) \/ CreateAbort(n)
    PROVE  AllApart'
<1>1. CASE PlaceItem(n)
    <2>. USE DEF TypeOK, CreateTypes, RedisTypes, Goto, Return, CreateFrame, workerVars,
                 promoterVars, Apart, AllApart, Unplaced, NotQueued, NotSet, NotHeld, NotWorked
    <2>1. CASE n \in FutureDated BY <1>1, <2>1 DEF PlaceItem, Finish, Add, Stores
    <2>2. CASE n \notin FutureDated BY <1>1, <2>2 DEF PlaceItem, Finish, Push, Stores
    <2>. QED BY <2>1, <2>2
<1>2. CASE ~PlaceItem(n)
    <2>1. UNCHANGED <<queue, zset, pheld, wid>>
        BY <1>2
        DEF CreateStep, CreateCall, CreateAbort, Lookup, Build, Claim, Recall, Fetch, Insert,
            Confirm, CreateFrame, workerVars, promoterVars, redisVars
    <2>2. /\ cpc[n] \notin {"confirm", "done"} \/ cpc'[n] = "done"
          /\ \A m \in Notif \ {n} : cpc'[m] = cpc[m]
        <3>. USE DEF TypeOK, CreateTypes, Goto, Return
        <3>1. CASE Lookup(n) BY <3>1 DEF Lookup
        <3>2. CASE \E verdict \in Verdicts : Build(n, verdict) BY <3>2 DEF Build
        <3>3. CASE Claim(n) BY <3>3 DEF Claim
        <3>4. CASE Recall(n) BY <3>4 DEF Recall
        <3>5. CASE Fetch(n) BY <3>5 DEF Fetch
        <3>6. CASE Insert(n) BY <3>6 DEF Insert
        <3>7. CASE Confirm(n) BY <3>7 DEF Confirm, Finish
        <3>8. CASE CreateAbort(n) BY <3>8 DEF CreateAbort
        <3>. QED BY <1>2, <3>1, <3>2, <3>3, <3>4, <3>5, <3>6, <3>7, <3>8
             DEF CreateStep, CreateCall
    <2>3. \A m \in Notif : Unplaced(m)' => Unplaced(m) BY <2>2 DEF Unplaced
    <2>. QED BY <2>1, <2>3, ApartKept
<1>. QED BY <1>1, <1>2

LEMMA CancelApart ==
    ASSUME TypeOK, AllApart, NEW x \in Cancellers,
           CancelStep(x) \/ CancelAbort(x) \/ \E n \in Notif : CancelCheck(x, n)
    PROVE  AllApart'
<1>1. UNCHANGED <<cpc, pheld, wid>>
    BY DEF CancelStep, CancelCheck, CancelDequeue, CancelUnschedule, CancelCommit, CancelAbort,
           CancelFrame, createVars, workerVars, promoterVars
<1>2. \A n \in Notif : queue'[n] = queue[n] \/ queue'[n] = 0
    <2>1. CASE CancelDequeue(x) BY <2>1 DEF CancelDequeue, Ignored, TypeOK, RedisTypes
    <2>2. CASE ~CancelDequeue(x)
        BY <2>2 DEF CancelStep, CancelCheck, CancelUnschedule, CancelCommit, CancelAbort, redisVars
    <2>. QED BY <2>1, <2>2
<1>3. \A n \in Notif : \A s \in Stores : zset'[s][n] = zset[s][n] \/ zset'[s][n] = "absent"
    <2>1. CASE CancelUnschedule(x)
        BY <2>1 DEF CancelUnschedule, Ignored, Remove, Stores, TypeOK, RedisTypes
    <2>2. CASE ~CancelUnschedule(x)
        BY <2>2 DEF CancelStep, CancelCheck, CancelDequeue, CancelCommit, CancelAbort, redisVars
    <2>. QED BY <2>1, <2>2
<1>4. \A n \in Notif : Unplaced(n)' => Unplaced(n) BY <1>1 DEF Unplaced
<1>. QED BY <1>1, <1>2, <1>3, <1>4, ApartKept

LEMMA ProcessApart ==
    ASSUME TypeOK, AllApart, NEW w \in Workers,
           ProcessStep(w) \/ WorkerAbort(w) \/ \E n \in Notif : Dequeue(w, n)
    PROVE  AllApart'
<1>. USE ConstantsAssumption
     DEF TypeOK, RedisTypes, WorkerTypes, ProcessFrame, WorkerGoto, WorkerDone, createVars,
         promoterVars, redisVars, Apart, AllApart, Unplaced, NotQueued, NotSet, NotHeld,
         NotWorked
<1>1. ASSUME NEW n \in Notif, Dequeue(w, n) PROVE AllApart'
    <2>1. /\ UNCHANGED <<cpc, zset, pheld>> /\ queue[n] > 0
          /\ queue' = [queue EXCEPT ![n] = @ - 1] /\ wid' = [wid EXCEPT ![w] = n]
        BY <1>1 DEF Dequeue, HeadOfLine
    <2>2. ASSUME NEW m \in Notif, m # n PROVE Apart(m)'
        <3>1. /\ queue'[m] = queue[m]
              /\ \A v \in Workers : wid'[v] = m => wid[v] = m
            BY <2>1, <2>2
        <3>. QED BY <2>1, <3>1
    <2>3. Apart(n)'
        <3>1. queue'[n] = 0 /\ \A v \in Workers : wid'[v] = n => v = w BY <2>1
        <3>2. NotSet(n) /\ NotHeld(n) /\ ~Unplaced(n) BY <2>1
        <3>. QED BY <2>1, <3>1, <3>2
    <2>. QED BY <2>2, <2>3
<1>0. ASSUME Add("retry", wid[w]), WorkerDone(w), wpc[w] # "idle",
             UNCHANGED <<cpc, queue, pheld>>
      PROVE  AllApart'
    <2>1. PICK n \in Notif : n = wid[w] BY <1>0
    <2>2. /\ wid' = [wid EXCEPT ![w] = None]
          /\ zset'["sched"] = zset["sched"]
          /\ zset'["retry"] = [zset["retry"] EXCEPT ![n] = "waiting"]
        BY <1>0, <2>1 DEF Add, Stores
    <2>3. ASSUME NEW m \in Notif, m # n PROVE Apart(m)'
        <3>1. /\ zset'["retry"][m] = zset["retry"][m]
              /\ \A v \in Workers : wid'[v] = m => wid[v] = m
            BY <2>2, <2>3 DEF Stores
        <3>. QED BY <1>0, <2>2, <3>1
    <2>4. Apart(n)'
        <3>1. \A v \in Workers : wid'[v] # n BY <2>1, <2>2
        <3>2. NotQueued(n) /\ NotHeld(n) /\ NotSet(n) /\ ~Unplaced(n) BY <2>1
        <3>. QED BY <1>0, <2>2, <3>1, <3>2
    <2>. QED BY <2>3, <2>4
<1>2. CASE Load(w) BY <1>2 DEF Load
<1>3. CASE \E verdict \in {"allowed", "throttled"} : Limit(w, verdict) BY <1>3 DEF Limit
<1>4. CASE Throttle(w) BY <1>0, <1>4 DEF Throttle
<1>5. CASE MarkSending(w) BY <1>5 DEF MarkSending
<1>6. CASE \E reply \in {"accepted", "refused"} : Send(w, reply) BY <1>6 DEF Send
<1>7. CASE LogAttempt(w) BY <1>7 DEF LogAttempt
<1>8. CASE Deliver(w) BY <1>8 DEF Deliver
<1>9. CASE DeadLetter(w) BY <1>9 DEF DeadLetter
<1>10. CASE Fail(w) BY <1>10 DEF Fail
<1>11. CASE Requeue(w) BY <1>11 DEF Requeue
<1>12. CASE ScheduleRetry(w) BY <1>0, <1>12 DEF ScheduleRetry
<1>13. CASE WorkerAbort(w) BY <1>13 DEF WorkerAbort
<1>. QED BY <1>1, <1>2, <1>3, <1>4, <1>5, <1>6, <1>7, <1>8, <1>9, <1>10, <1>11, <1>12,
            <1>13 DEF ProcessStep

LEMMA PromoteApart ==
    ASSUME TypeOK, AllApart, NEW p \in Promoters, PromoteStep(p) \/ PromoterAbort(p)
    PROVE  AllApart'
<1>. USE ConstantsAssumption
     DEF TypeOK, RedisTypes, PromoterTypes, PromoterFrame, createVars, workerVars, redisVars,
         Apart, AllApart, Unplaced, NotQueued, NotSet, NotHeld, NotWorked
<1>1. CASE Scan(p) BY <1>1 DEF Scan
<1>2. ASSUME NEW n \in Notif, ClaimDue(p, n) PROVE AllApart'
    <2>1. UNCHANGED <<cpc, queue, wid>> BY <1>2 DEF ClaimDue
    <2>2. CASE Claimed(p, n)
        <3>1. PICK s \in Stores : s = Source[p] OBVIOUS
        <3>2. zset[s][n] # "absent" /\ pheld[p] = None
              /\ zset' = [zset EXCEPT ![s][n] = "absent"] /\ pheld' = [pheld EXCEPT ![p] = n]
            BY <1>2, <2>2, <3>1 DEF ClaimDue, Claimed, Remove
        <3>3. ASSUME NEW m \in Notif, m # n PROVE Apart(m)'
            <4>1. /\ \A u \in Stores : zset'[u][m] = zset[u][m]
                  /\ \A q \in Promoters : pheld'[q] = m => pheld[q] = m
                BY <3>2, <3>3
            <4>. QED BY <2>1, <4>1 DEF Stores
        <3>4. Apart(n)'
            <4>1. zset'["sched"][n] = "absent" /\ zset'["retry"][n] = "absent"
                BY <3>2 DEF Stores
            <4>2. NotQueued(n) /\ NotHeld(n) /\ NotWorked(n) /\ ~Unplaced(n)
                BY <3>2 DEF Stores
            <4>3. \A q \in Promoters : pheld'[q] = n => q = p BY <3>2, <4>2
            <4>. QED BY <2>1, <4>1, <4>2, <4>3
        <3>. QED BY <3>3, <3>4
    <2>3. CASE ~Claimed(p, n)
        <3>1. UNCHANGED pheld BY <1>2, <2>3 DEF ClaimDue, Claimed
        <3>2. \A m \in Notif : \A s \in Stores : zset'[s][m] \in {zset[s][m], "absent"}
            BY <1>2 DEF ClaimDue, Remove
        <3>. QED BY <2>1, <3>1, <3>2 DEF Stores
    <2>. QED BY <2>2, <2>3
<1>3. CASE Promote(p)
    <2>1. PICK n \in Notif : n = pheld[p] BY <1>3 DEF Promote
    <2>2. /\ UNCHANGED <<cpc, zset, wid>> /\ queue' = [queue EXCEPT ![n] = @ + 1]
          /\ pheld' = [pheld EXCEPT ![p] = None]
        BY <1>3, <2>1 DEF Promote, Push
    <2>3. ASSUME NEW m \in Notif, m # n PROVE Apart(m)'
        <3>1. queue'[m] = queue[m] /\ \A q \in Promoters : pheld'[q] = m => pheld[q] = m
            BY <2>2, <2>3
        <3>. QED BY <2>2, <3>1
    <2>4. Apart(n)'
        <3>1. NotQueued(n) /\ NotSet(n) /\ NotWorked(n) /\ ~Unplaced(n) BY <2>1
        <3>2. queue'[n] = 1 /\ \A q \in Promoters : pheld'[q] # n BY <2>1, <2>2, <3>1
        <3>. QED BY <2>2, <3>1, <3>2
    <2>. QED BY <2>3, <2>4
<1>4. CASE PromoterAbort(p) BY <1>4 DEF PromoterAbort
<1>. QED BY <1>1, <1>2, <1>3, <1>4 DEF PromoteStep

LEMMA TimeApart ==
    ASSUME TypeOK, AllApart,
           \/ \E k \in Keys : ExpireKey(k)
           \/ \E s \in Stores, n \in Notif : Elapse(s, n)
           \/ UNCHANGED vars
    PROVE  AllApart'
<1>. USE DEF TypeOK, RedisTypes, createVars, workerVars, promoterVars, redisVars, CreateFrame,
         Apart, AllApart, Unplaced, NotQueued, NotSet, NotHeld, NotWorked
<1>1. CASE \E k \in Keys : ExpireKey(k) BY <1>1 DEF ExpireKey
<1>2. CASE \E s \in Stores, n \in Notif : Elapse(s, n) BY <1>2 DEF Elapse, Stores
<1>3. CASE UNCHANGED vars BY <1>3 DEF vars
<1>. QED BY <1>1, <1>2, <1>3

LEMMA ApartStep == TypeOK /\ AllApart /\ [Next]_vars => AllApart'
BY CreateApart, CancelApart, ProcessApart, PromoteApart, TimeApart DEF Next, Backend

\* However creation, cancellation, processing, retries, promotions and failures
\* interleave, a notification has one work item, in one place.
THEOREM SingleTokenCorrect == Spec => []SingleToken
<1>1. Init => TypeOK /\ AllApart BY TypeInit, ApartInit
<1>2. TypeOK /\ AllApart /\ [Next]_vars => (TypeOK /\ AllApart)' BY TypeStep, ApartStep
<1>3. TypeOK /\ AllApart => SingleToken BY ApartIsSingle
<1>. QED BY <1>1, <1>2, <1>3, PTL DEF Spec

-----------------------------------------------------------------------------
(* A snapshot of the due members stays true while it is iterated, if nobody  *)
(* else drains the set: a member may be cancelled, but not scheduled again.  *)

OnePromoterPerSet == \A p, q \in Promoters : Source[p] = Source[q] => p = q

Fresh(p, n) ==
    /\ ~Unplaced(n)
    /\ zset[Source[p]][n] = "due" \/ (Source[p] = "sched" /\ zset["sched"][n] = "absent")

SnapshotFresh == \A p \in Promoters : \A n \in ptodo[p] : Fresh(p, n)

LEMMA FreshStep ==
    ASSUME OnePromoterPerSet, TypeOK, AllApart, SnapshotFresh, [Next]_vars
    PROVE  SnapshotFresh'
<1>. SUFFICES ASSUME NEW p \in Promoters, NEW n \in ptodo'[p]
              PROVE  Fresh(p, n)'
    BY DEF SnapshotFresh
<1>0. /\ ptodo \in [Promoters -> SUBSET Notif] /\ pheld \in [Promoters -> Notif \cup {None}]
      /\ zset \in [Stores -> [Notif -> {"absent", "waiting", "due"}]]
      /\ cpc \in [Notif -> {"lookup", "build", "claim", "recall", "fetch",
                            "insert", "place", "confirm", "done"}]
      /\ Source[p] \in Stores
    BY ConstantsAssumption DEF TypeOK, RedisTypes, PromoterTypes, CreateTypes
<1>. USE <1>0 DEF SnapshotFresh, Fresh, Unplaced, Stores, redisVars
<1>1. ASSUME NEW m \in Notif, CreateStep(m) \/ CreateAbort(m)
      PROVE  /\ n \in ptodo[p] /\ ~Unplaced(n)'
             /\ zset'["retry"][n] = zset["retry"][n] /\ zset'["sched"][n] = zset["sched"][n]
    <2>1. n \in ptodo[p]
        BY <1>1
        DEF CreateStep, CreateCall, Lookup, Build, Claim, Recall, Fetch, Insert, PlaceItem, Finish,
            Confirm, CreateAbort, CreateFrame, promoterVars
    <2>. QED BY <1>1, <2>1
         DEF CreateStep, CreateCall, Lookup, Build, Claim, Recall, Fetch, Insert, PlaceItem, Finish,
             Confirm, CreateAbort, Goto, Return, Add
<1>2. ASSUME NEW x \in Cancellers,
             CancelStep(x) \/ CancelAbort(x) \/ \E m \in Notif : CancelCheck(x, m)
      PROVE  /\ n \in ptodo[p] /\ ~Unplaced(n)'
             /\ zset'["retry"][n] = zset["retry"][n]
             /\ zset'["sched"][n] \in {zset["sched"][n], "absent"}
    BY <1>2
    DEF CancelStep, CancelAbort, CancelCheck, CancelDequeue, CancelUnschedule, CancelCommit,
        Ignored, Remove, CancelFrame, createVars, promoterVars
<1>3. ASSUME NEW w \in Workers,
             ProcessStep(w) \/ WorkerAbort(w) \/ \E m \in Notif : Dequeue(w, m)
      PROVE  /\ n \in ptodo[p] /\ ~Unplaced(n)'
             /\ zset'["sched"][n] = zset["sched"][n]
             /\ zset'["retry"][n] # zset["retry"][n] => wid[w] = n /\ zset'["retry"][n] = "waiting"
    <2>1. UNCHANGED <<cpc, ptodo>>
        BY <1>3
        DEF ProcessStep, WorkerAbort, Dequeue, Load, Limit, Throttle, MarkSending, Send,
            LogAttempt, Deliver, DeadLetter, Fail, Requeue, ScheduleRetry, ProcessFrame,
            createVars, promoterVars
    <2>2. UNCHANGED zset \/ Add("retry", wid[w])
        BY <1>3
        DEF ProcessStep, WorkerAbort, Dequeue, Load, Limit, Throttle, MarkSending, Send,
            LogAttempt, Deliver, DeadLetter, Fail, Requeue, ScheduleRetry, redisVars
    <2>3. CASE UNCHANGED zset BY <2>1, <2>3
    <2>4. CASE Add("retry", wid[w]) BY <2>1, <2>4 DEF Add
    <2>. QED BY <2>2, <2>3, <2>4
<1>4. ASSUME NEW w \in Workers,
             ProcessStep(w) \/ WorkerAbort(w) \/ \E m \in Notif : Dequeue(w, m)
      PROVE  Source[p] = "retry" => zset'["retry"][n] = "due"
    <2>1. n \in Notif /\ Apart(n) BY <1>3, <1>4 DEF AllApart
    <2>. QED BY <1>3, <1>4, <2>1 DEF Apart, NotWorked
<1>5. ASSUME NEW q \in Promoters, PromoteStep(q) \/ PromoterAbort(q)
      PROVE  Fresh(p, n)'
    <2>1. UNCHANGED cpc
        BY <1>5 DEF PromoteStep, PromoterAbort, Scan, ClaimDue, Promote, PromoterFrame, createVars
    <2>2. CASE Scan(q)
        <3>1. CASE q = p
            <4>1. n \in Notif /\ zset[Source[p]][n] = "due"
                BY <2>2, <3>1 DEF Scan, Snapshot, Due
            <4>2. Apart(n) BY <4>1 DEF AllApart
            <4>. QED BY <2>1, <2>2, <4>1, <4>2 DEF Scan, Apart, NotSet
        <3>2. CASE q # p BY <2>1, <2>2, <3>2 DEF Scan
        <3>. QED BY <3>1, <3>2
    <2>3. ASSUME NEW m \in Notif, ClaimDue(q, m)
          PROVE  Fresh(p, n)'
        <3>1. Source[q] \in Stores BY ConstantsAssumption
        <3>2. CASE q = p
            <4>1. n \in ptodo[p] /\ n # m BY <2>3, <3>2 DEF ClaimDue
            <4>2. \A t \in Stores : zset'[t][n] = zset[t][n]
                BY <2>3, <3>1, <4>1 DEF ClaimDue, Remove
            <4>. QED BY <2>1, <4>1, <4>2
        <3>3. CASE q # p
            <4>1. Source[q] # Source[p] BY <3>3 DEF OnePromoterPerSet
            <4>. QED BY <2>1, <2>3, <3>1, <3>3, <4>1 DEF ClaimDue, Remove
        <3>. QED BY <3>2, <3>3
    <2>4. CASE Promote(q) BY <2>1, <2>4 DEF Promote
    <2>5. CASE PromoterAbort(q) BY <2>1, <2>5 DEF PromoterAbort
    <2>. QED BY <1>5, <2>2, <2>3, <2>4, <2>5 DEF PromoteStep
<1>6. ASSUME NEW k \in Keys, ExpireKey(k)
      PROVE  UNCHANGED <<cpc, zset, ptodo>>
    BY <1>6 DEF ExpireKey, CreateFrame, promoterVars, createVars
<1>7. ASSUME NEW s \in Stores, NEW m \in Notif, Elapse(s, m)
      PROVE  /\ n \in ptodo[p] /\ ~Unplaced(n)'
             /\ \A t \in Stores : zset'[t][n] = zset[t][n] \/ zset[t][n] = "waiting"
    BY <1>7 DEF Elapse, createVars, promoterVars
<1>8. CASE UNCHANGED vars BY <1>8 DEF vars, createVars, promoterVars
<1>. QED BY <1>1, <1>2, <1>3, <1>4, <1>5, <1>6, <1>7, <1>8 DEF Next, Backend

\* With one promoter for each sorted set, an item is never promoted before it is
\* due, whatever cancel requests, retries and failures fall between the snapshot
\* and its removal.
THEOREM PromotedOnlyWhenDueCorrect ==
    ASSUME OnePromoterPerSet PROVE Spec => PromotedOnlyWhenDue
<1>. DEFINE Inv == TypeOK /\ AllApart /\ SnapshotFresh
<1>1. Init => Inv BY TypeInit, ApartInit DEF Init, SnapshotFresh
<1>2. Inv /\ [Next]_vars => Inv' BY TypeStep, ApartStep, FreshStep
<1>3. Inv /\ [Next]_vars =>
          [\A p \in Promoters, n \in Notif :
               pheld[p] # n /\ pheld'[p] = n => zset[Source[p]][n] = "due"]_vars
    <2>. SUFFICES ASSUME Inv, Next, NEW p \in Promoters, NEW n \in Notif,
                         pheld[p] # n, pheld'[p] = n
                  PROVE  zset[Source[p]][n] = "due"
        BY DEF vars
    <2>1. n # None BY ConstantsAssumption
    <2>2. PICK q \in Promoters : PromoteStep(q) \/ PromoterAbort(q)
        <3>1. pheld' # pheld OBVIOUS
        <3>2. ASSUME NEW m \in Notif, CreateStep(m) \/ CreateAbort(m) PROVE UNCHANGED pheld
            BY <3>2
            DEF CreateStep, CreateCall, Lookup, Build, Claim, Recall, Fetch, Insert, PlaceItem, Finish,
                Confirm, CreateAbort, CreateFrame, promoterVars
        <3>3. ASSUME NEW x \in Cancellers,
                     CancelStep(x) \/ CancelAbort(x) \/ \E m \in Notif : CancelCheck(x, m)
              PROVE  UNCHANGED pheld
            BY <3>3
            DEF CancelStep, CancelCheck, CancelDequeue, CancelUnschedule, CancelCommit,
                CancelAbort, CancelFrame, promoterVars
        <3>4. ASSUME NEW w \in Workers,
                     ProcessStep(w) \/ WorkerAbort(w) \/ \E m \in Notif : Dequeue(w, m)
              PROVE  UNCHANGED pheld
            BY <3>4
            DEF Dequeue, ProcessStep, Load, Limit, Throttle, MarkSending, Send, LogAttempt,
                Deliver, DeadLetter, Fail, Requeue, ScheduleRetry, WorkerAbort, ProcessFrame,
                promoterVars
        <3>5. ASSUME \/ \E k \in Keys : ExpireKey(k)
                     \/ \E s \in Stores, m \in Notif : Elapse(s, m)
                     \/ UNCHANGED vars
              PROVE  UNCHANGED pheld
            BY <3>5 DEF ExpireKey, CreateFrame, Elapse, promoterVars, vars
        <3>. QED BY <3>1, <3>2, <3>3, <3>4, <3>5 DEF Next, Backend
    <2>3. \E m \in Notif : ClaimDue(q, m) /\ q = p /\ m = n /\ Claimed(p, n)
        <3>. USE <2>1 DEF TypeOK, PromoterTypes
        <3>1. CASE PromoterAbort(q) BY <3>1 DEF PromoterAbort
        <3>2. CASE Scan(q) BY <3>2 DEF Scan
        <3>3. CASE Promote(q) BY <3>3 DEF Promote
        <3>4. CASE \E m \in Notif : ClaimDue(q, m) BY <3>4 DEF ClaimDue
        <3>. QED BY <2>2, <3>1, <3>2, <3>3, <3>4 DEF PromoteStep
    <2>. QED BY <2>3 DEF ClaimDue, Claimed, SnapshotFresh, Fresh
<1>. QED BY <1>1, <1>2, <1>3, PTL DEF Spec, PromotedOnlyWhenDue
=============================================================================
