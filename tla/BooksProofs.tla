---------------------------- MODULE BooksProofs ----------------------------
(* The arithmetic of a notification when nothing fails: its retry budget,    *)
(* and the books of a scheduled one that nobody asks to cancel, whose row    *)
(* agrees with its delivery_attempts and, in the end, with the provider and  *)
(* the dead-letter list.  For any number of requests, workers, promoters and *)
(* cancel requests, and any attempt limit.                                   *)
EXTENDS OutcomeProofs

-----------------------------------------------------------------------------
(* A row that a worker may still read is not behind the sends, except by what *)
(* the creating request took off when it reset the count.                     *)

Slack(n) == IF n \in FutureDated \/ cpc[n] # "done" THEN 0 ELSE Budget - 1

\* The item is before its next send, and it is the row that counts.
Waiting(n) ==
    \/ Elsewhere(n)
    \/ \E w \in Workers : wid[w] = n /\ wpc[w] \in {"get", "limit", "throttle", "schedule"}

RowSpent(n) ==
    /\ sends[n] <= Budget + Slack(n)
    /\ Unplaced(n) => sends[n] = 0
    /\ Unplaced(n) /\ cpc[n] # "place" => ~Exists(n)
    /\ cpc[n] = "confirm" => n \notin FutureDated
    /\ Waiting(n) =>
           /\ sends[n] <= Budget - 1 + Slack(n)
           /\ status[n] \notin {"absent", "cancelled", "delivered"} =>
                  attempts[n] <= Budget - 1 /\ sends[n] <= attempts[n] + Slack(n)

\* A worker that has read the row counts on its own.
WorkerSpent(w, n) ==
    wid[w] = n =>
        /\ wpc[w] \in {"limit", "mark", "send"} =>
               watt[w] <= Budget - 1 /\ sends[n] <= watt[w] + Slack(n)
        /\ wpc[w] \in Recording =>
               watt[w] <= Budget - 1 /\ sends[n] <= watt[w] + 1 + Slack(n)
        /\ wpc[w] = "requeue" => watt[w] + 1 <= Budget - 1

Spent == \A n \in Notif : RowSpent(n) /\ \A w \in Workers : WorkerSpent(w, n)

LEMMA BudgetPositive == Budget \in Nat /\ Budget >= 1 /\ \A n \in Notif : Slack(n) \in Nat
BY BoundsAssumption DEF Budget, Slack

LEMMA SpentInit == Init => Spent
BY BudgetPositive, ConstantsAssumption
DEF Init, Spent, RowSpent, WorkerSpent, Slack, Exists, Recording

LEMMA CreateSpent ==
    ASSUME TypeOK, Spent, NEW n \in Notif, CreateStep(n)
    PROVE  Spent'
<1>0. /\ sends \in [Notif -> Nat] /\ attempts \in [Notif -> Nat]
      /\ status \in [Notif -> Statuses \cup {"absent"}]
      /\ watt \in [Workers -> Nat]
      /\ Budget \in Nat /\ Budget >= 1
    BY BudgetPositive DEF TypeOK, HistoryTypes, RowTypes, WorkerTypes
<1>1. UNCHANGED <<sends, workerVars, promoterVars>>
    BY DEF CreateStep, CreateCall, Lookup, Build, Claim, Recall, Fetch, Insert, PlaceItem, Finish,
           Confirm, CreateFrame, historyVars
<1>2. \A m \in Notif : /\ m # n => cpc'[m] = cpc[m]
                       /\ cpc[m] = "done" => cpc'[m] = "done"
    BY DEF CreateStep, CreateCall, Lookup, Build, Claim, Recall, Fetch, Insert, PlaceItem, Finish,
           Confirm, Goto, Return, TypeOK, CreateTypes
<1>3. \A m \in Notif : Slack(m) <= Slack(m)' /\ Slack(m) \in Nat /\ Slack(m)' \in Nat
    BY <1>0, <1>2 DEF Slack, Budget
<1>4. ASSUME NEW w \in Workers PROVE \A m \in Notif : WorkerSpent(w, m)'
    BY <1>0, <1>1, <1>3 DEF Spent, WorkerSpent, workerVars, TypeOK, WorkerTypes, Budget, Recording
<1>5. ASSUME NEW m \in Notif, m # n PROVE RowSpent(m)'
    <2>1. Waiting(m)' => Waiting(m)
        <3>1. queue'[m] = queue[m] /\ zset'["sched"][m] = zset["sched"][m]
              /\ zset'["retry"][m] = zset["retry"][m]
            BY <1>5
            DEF CreateStep, CreateCall, Lookup, Build, Claim, Recall, Fetch, Insert, PlaceItem, Finish,
                Confirm, Push, Add, Stores, redisVars, TypeOK, RedisTypes
        <3>. QED BY <1>1, <1>2, <1>5, <3>1
             DEF Waiting, Elsewhere, Unplaced, workerVars, promoterVars
    <2>2. status'[m] = status[m] /\ attempts'[m] = attempts[m]
        BY <1>5
        DEF CreateStep, CreateCall, Lookup, Build, Claim, Recall, Fetch, Insert, PlaceItem, Finish,
            Confirm, UpdateStatus, rowVars, TypeOK, RowTypes
    <2>3. Slack(m)' = Slack(m) BY <1>2, <1>5 DEF Slack, Budget
    <2>. QED BY <1>1, <1>2, <1>5, <2>1, <2>2, <2>3
         DEF Spent, RowSpent, Unplaced, Exists, Budget
<1>6. RowSpent(n)'
    <2>0. RowSpent(n) BY DEF Spent
    <2>. USE <1>0, <1>1, <1>3, <2>0
         DEF RowSpent, Unplaced, Exists, Goto, Return, TypeOK, CreateTypes, workerVars,
             promoterVars, rowVars, redisVars
    <2>1. CASE Lookup(n) BY <2>1 DEF Lookup, Waiting, Elsewhere
    <2>2. CASE \E verdict \in Verdicts : Build(n, verdict)
        BY <2>2 DEF Build, Verdicts, Waiting, Elsewhere
    <2>3. CASE Claim(n) BY <2>3 DEF Claim, Waiting, Elsewhere
    <2>4. CASE Recall(n) BY <2>4 DEF Recall, Waiting, Elsewhere
    <2>5. CASE Fetch(n) BY <2>5 DEF Fetch, Waiting, Elsewhere
    <2>6. CASE Insert(n) BY <2>6 DEF Insert, Waiting, Elsewhere
    <2>7. CASE PlaceItem(n)
        <3>1. Waiting(n) BY <2>7 DEF PlaceItem, Finish, Waiting, Elsewhere
        <3>. QED BY <2>7, <3>1 DEF PlaceItem, Finish
    <2>8. CASE Confirm(n)
        <3>1. Slack(n) = 0 /\ Slack(n)' = Budget - 1 BY <2>8 DEF Confirm, Finish, Slack, Budget
        <3>2. Waiting(n)' => Waiting(n) BY <2>8 DEF Confirm, Finish, Waiting, Elsewhere
        <3>. QED BY <2>8, <3>1, <3>2 DEF Confirm, Finish, UpdateStatus, RowTypes
    <2>. QED BY <2>1, <2>2, <2>3, <2>4, <2>5, <2>6, <2>7, <2>8 DEF CreateStep, CreateCall
<1>. QED BY <1>4, <1>5, <1>6 DEF Spent

\* A step that neither sends a notification nor touches its row nor puts its item
\* back leaves its budget alone.
LEMMA SpentFrame ==
    ASSUME Spent, UNCHANGED cpc, NEW n \in Notif, sends'[n] = sends[n],
           Waiting(n)' => Waiting(n),
           status'[n] = status[n] /\ attempts'[n] = attempts[n]
    PROVE  RowSpent(n)'
BY DEF Spent, RowSpent, Slack, Unplaced, Exists, Budget

LEMMA CancelSpent ==
    ASSUME TypeOK, Spent, NEW x \in Cancellers, faults = 0, faults' = 0,
           CancelStep(x) \/ \E n \in Notif : CancelCheck(x, n)
    PROVE  Spent'
<1>1. UNCHANGED <<sends, createVars, workerVars, promoterVars>>
    BY DEF CancelStep, CancelCheck, CancelDequeue, CancelUnschedule, CancelCommit, CancelFrame
<1>2. ASSUME NEW w \in Workers PROVE \A m \in Notif : WorkerSpent(w, m)'
    BY <1>1 DEF Spent, WorkerSpent, Slack, Budget, createVars, workerVars, Recording
<1>3. ASSUME NEW n \in Notif PROVE RowSpent(n)'
    <2>1. Waiting(n)' => Waiting(n)
        BY <1>1
        DEF Waiting, Elsewhere, Unplaced, CancelStep, CancelCheck, CancelDequeue,
            CancelUnschedule, CancelCommit, Ignored, Remove, Stores, redisVars, TypeOK,
            RedisTypes, CancelTypes, createVars, workerVars, promoterVars
    <2>2. CASE UNCHANGED <<status, attempts>>
        BY <1>1, <2>1, <2>2, SpentFrame DEF createVars
    <2>3. CASE CancelCommit(x)
        <3>1. RowSpent(n) BY DEF Spent
        <3>2. \/ status'[n] = status[n] /\ attempts'[n] = attempts[n]
              \/ status'[n] = "cancelled" /\ Exists(n)
            <4>1. xid[x] \in Notif BY <2>3 DEF CancelCommit, TypeOK, CancelTypes
            <4>. QED BY <2>3, <4>1 DEF CancelCommit, UpdateStatus, TypeOK, RowTypes
        <3>3. CASE status'[n] = "cancelled" /\ Exists(n)
            BY <1>1, <2>1, <3>1, <3>3 DEF RowSpent, Slack, Unplaced, Exists, Budget, createVars
        <3>. QED BY <1>1, <2>1, <3>2, <3>3, SpentFrame DEF createVars
    <2>. QED BY <2>2, <2>3
         DEF CancelStep, CancelCheck, CancelDequeue, CancelUnschedule, rowVars
<1>. QED BY <1>2, <1>3 DEF Spent

LEMMA PromoteSpent ==
    ASSUME TypeOK, Spent, NEW p \in Promoters, PromoteStep(p)
    PROVE  Spent'
<1>1. UNCHANGED <<rowVars, createVars, workerVars, historyVars>>
    BY DEF PromoteStep, Scan, ClaimDue, Promote, PromoterFrame
<1>2. ASSUME NEW w \in Workers PROVE \A m \in Notif : WorkerSpent(w, m)'
    BY <1>1 DEF Spent, WorkerSpent, Slack, Budget, createVars, workerVars, historyVars, Recording
<1>3. ASSUME NEW n \in Notif PROVE RowSpent(n)'
    <2>1. Waiting(n)' => Waiting(n)
        <3>. USE <1>1, ConstantsAssumption
             DEF Waiting, Elsewhere, Unplaced, redisVars, TypeOK, RedisTypes, PromoterTypes,
                 createVars, workerVars
        <3>1. CASE Scan(p) BY <3>1 DEF Scan
        <3>2. ASSUME NEW m \in Notif, ClaimDue(p, m) PROVE Waiting(n)' => Waiting(n)
            BY <3>2 DEF ClaimDue, Claimed, Remove, Stores
        <3>3. CASE Promote(p) BY <3>3 DEF Promote, Push
        <3>. QED BY <3>1, <3>2, <3>3 DEF PromoteStep
    <2>. QED BY <1>1, <2>1, SpentFrame DEF rowVars, createVars, historyVars
<1>. QED BY <1>2, <1>3 DEF Spent

LEMMA TimeSpent ==
    ASSUME TypeOK, Spent,
           \/ \E k \in Keys : ExpireKey(k)
           \/ \E s \in Stores, n \in Notif : Elapse(s, n)
           \/ UNCHANGED vars
    PROVE  Spent'
<1>1. UNCHANGED <<rowVars, createVars, workerVars, promoterVars, historyVars>>
    BY DEF ExpireKey, Elapse, CreateFrame, vars
<1>2. ASSUME NEW w \in Workers PROVE \A m \in Notif : WorkerSpent(w, m)'
    BY <1>1 DEF Spent, WorkerSpent, Slack, Budget, createVars, workerVars, historyVars, Recording
<1>3. ASSUME NEW n \in Notif PROVE RowSpent(n)'
    <2>1. Waiting(n)' => Waiting(n)
        BY <1>1
        DEF Waiting, Elsewhere, Unplaced, ExpireKey, Elapse, vars, redisVars, TypeOK,
            RedisTypes, Stores, createVars, workerVars, promoterVars
    <2>. QED BY <1>1, <2>1, SpentFrame DEF rowVars, createVars, historyVars
<1>. QED BY <1>2, <1>3 DEF Spent

LEMMA ProcessSpent ==
    ASSUME TypeOK, AllApart, Spent, NEW w \in Workers, faults = 0, faults' = 0,
           ProcessStep(w)
    PROVE  Spent'
<1>0. /\ sends \in [Notif -> Nat] /\ attempts \in [Notif -> Nat]
      /\ status \in [Notif -> Statuses \cup {"absent"}]
      /\ watt \in [Workers -> Nat] /\ wid \in [Workers -> Notif \cup {None}]
      /\ wpc \in [Workers -> {"idle", "get", "limit", "throttle", "mark", "send",
                              "logDelivered", "deliver", "logFailed", "bury",
                              "fail", "requeue", "schedule"}]
      /\ Budget \in Nat /\ Budget >= 1
      /\ \A m \in Notif : Slack(m) \in Nat
    BY BudgetPositive DEF TypeOK, HistoryTypes, RowTypes, WorkerTypes
<1>1. /\ UNCHANGED <<createVars, promoterVars>>
      /\ \A v \in Workers : v # w => wpc'[v] = wpc[v] /\ wid'[v] = wid[v] /\ watt'[v] = watt[v]
    BY <1>0
    DEF ProcessStep, Load, Limit, Throttle, MarkSending, Send, LogAttempt, Deliver, DeadLetter,
        Fail, Requeue, ScheduleRetry, ProcessFrame, WorkerGoto, WorkerDone
<1>2. wpc[w] # "idle"
    BY DEF ProcessStep, Load, Limit, Throttle, MarkSending, Send, LogAttempt, Deliver, DeadLetter,
           Fail, Requeue, ScheduleRetry
<1>3. PICK n \in Notif : wid[w] = n /\ ~Elsewhere(n) /\ \A v \in Workers : wid[v] = n => v = w
    BY <1>2, WorkerAlone
<1>4. \A m \in Notif : Slack(m)' = Slack(m) BY <1>1 DEF Slack, Budget, createVars
<1>5. ASSUME NEW m \in Notif, m # n PROVE RowSpent(m)'
    <2>1. sends'[m] = sends[m] /\ status'[m] = status[m] /\ attempts'[m] = attempts[m]
        BY <1>0, <1>3, <1>5
        DEF ProcessStep, Load, Limit, Throttle, MarkSending, Send, LogAttempt, Deliver,
            DeadLetter, Fail, Requeue, ScheduleRetry, Ignored, UpdateStatus, rowVars
    <2>2. wid'[w] \in {n, None} /\ m # None
        BY <1>0, <1>3, ConstantsAssumption
        DEF ProcessStep, Load, Limit, Throttle, MarkSending, Send, LogAttempt, Deliver,
            DeadLetter, Fail, Requeue, ScheduleRetry, WorkerGoto, WorkerDone
    <2>3. Elsewhere(m)' => Elsewhere(m)
        BY <1>1, <1>3, <1>5
        DEF ProcessStep, Load, Limit, Throttle, MarkSending, Send, LogAttempt, Deliver,
            DeadLetter, Fail, Requeue, ScheduleRetry, Ignored, redisVars, Add, Stores, TypeOK,
            RedisTypes, Elsewhere, Unplaced, createVars, promoterVars
    <2>4. Waiting(m)' => Waiting(m) BY <1>1, <1>5, <2>2, <2>3 DEF Waiting
    <2>. QED BY <1>1, <2>1, <2>4, SpentFrame DEF createVars
<1>6. ASSUME NEW v \in Workers, NEW m \in Notif, v # w PROVE WorkerSpent(v, m)'
    <2>1. WorkerSpent(v, m) BY DEF Spent
    <2>2. CASE wid[v] # m BY <1>1, <1>6, <2>2 DEF WorkerSpent
    <2>3. CASE wid[v] = m
        <3>1. m # n BY <1>3, <1>6, <2>3
        <3>2. sends'[m] = sends[m]
            BY <1>0, <1>3, <3>1
            DEF ProcessStep, Load, Limit, Throttle, MarkSending, Send, LogAttempt, Deliver,
                DeadLetter, Fail, Requeue, ScheduleRetry
        <3>. QED BY <1>1, <1>4, <1>6, <2>1, <3>1, <3>2 DEF WorkerSpent, Recording, Budget
    <2>. QED BY <2>2, <2>3
<1>7. ASSUME NEW m \in Notif, m # n PROVE WorkerSpent(w, m)'
    <2>1. wid'[w] \in {n, None} /\ m # None
        BY <1>0, <1>3, ConstantsAssumption
        DEF ProcessStep, Load, Limit, Throttle, MarkSending, Send, LogAttempt, Deliver,
            DeadLetter, Fail, Requeue, ScheduleRetry, WorkerGoto, WorkerDone
    <2>. QED BY <1>7, <2>1 DEF WorkerSpent
<1>8. RowSpent(n)' /\ WorkerSpent(w, n)'
    <2>0. /\ ~Unplaced(n) /\ ~Unplaced(n)' /\ cpc'[n] = cpc[n] /\ Budget' = Budget
          /\ Waiting(n) <=> wpc[w] \in {"get", "limit", "throttle", "schedule"}
        BY <1>1, <1>3 DEF Waiting, Elsewhere, Unplaced, createVars, Budget
    <2>1. ASSUME UNCHANGED <<queue, zset>>, wid'[w] = n
          PROVE  Waiting(n)' <=> wpc'[w] \in {"get", "limit", "throttle", "schedule"}
        BY <1>1, <1>3, <2>1 DEF Waiting, Elsewhere, Unplaced, createVars, promoterVars
    <2>2. ASSUME UNCHANGED <<queue, zset>>, wid'[w] = None
          PROVE  ~Waiting(n)'
        BY <1>1, <1>3, <2>2, ConstantsAssumption
        DEF Waiting, Elsewhere, Unplaced, createVars, promoterVars
    <2>3. /\ RowSpent(n) /\ WorkerSpent(w, n)
          /\ Slack(n)' = Slack(n) /\ Slack(n) \in Nat /\ None # n
        BY <1>0, <1>4, ConstantsAssumption DEF Spent
    <2>. USE <1>0, <1>3, <2>0, <2>3 DEF RowSpent, WorkerSpent, Recording, Exists
    <2>4. CASE Load(w)
        <3>1. CASE status[n] \in {"absent", "cancelled", "delivered"}
            BY <2>4, <2>2, <3>1 DEF Load, WorkerDone, rowVars, redisVars
        <3>2. CASE status[n] \notin {"absent", "cancelled", "delivered"}
            BY <2>4, <2>1, <3>2 DEF Load, rowVars, redisVars
        <3>. QED BY <3>1, <3>2
    <2>5. CASE \E verdict \in {"allowed", "throttled"} : Limit(w, verdict)
        BY <2>5, <2>1 DEF Limit, WorkerGoto, rowVars, redisVars
    <2>6. CASE Throttle(w) BY <2>6 DEF Throttle, WorkerDone, rowVars
    <2>7. CASE MarkSending(w)
        BY <2>7, <2>1 DEF MarkSending, WorkerGoto, redisVars
    <2>8. CASE \E reply \in {"accepted", "refused"} : Send(w, reply)
        BY <2>8, <2>1 DEF Send, WorkerGoto, rowVars, redisVars
    <2>9. CASE LogAttempt(w)
        BY <2>9, <2>1, BoundsAssumption DEF LogAttempt, WorkerGoto, redisVars, Exhausted, Budget
    <2>10. CASE Deliver(w)
        BY <2>10, <2>2 DEF Deliver, WorkerDone, redisVars
    <2>11. CASE DeadLetter(w)
        BY <2>11, <2>1 DEF DeadLetter, WorkerGoto, rowVars
    <2>12. CASE Fail(w)
        BY <2>12, <2>2 DEF Fail, WorkerDone, redisVars
    <2>13. CASE Requeue(w)
        BY <2>13, <2>1 DEF Requeue, WorkerGoto, UpdateStatus, Ignored, Fault, redisVars
    <2>14. CASE ScheduleRetry(w)
        BY <2>14 DEF ScheduleRetry, WorkerDone, rowVars
    <2>. QED BY <2>4, <2>5, <2>6, <2>7, <2>8, <2>9, <2>10, <2>11, <2>12, <2>13, <2>14
         DEF ProcessStep
<1>. QED BY <1>3, <1>5, <1>6, <1>7, <1>8 DEF Spent

LEMMA DequeueSpent ==
    ASSUME TypeOK, Spent, NEW w \in Workers, NEW n \in Notif, Dequeue(w, n)
    PROVE  Spent'
<1>. USE DEF Dequeue, ProcessFrame
<1>1. /\ UNCHANGED <<sends, createVars, rowVars, promoterVars, zset>>
      /\ queue[n] > 0 /\ \A m \in Notif : queue'[m] > 0 => queue[m] > 0
      /\ \A v \in Workers : v # w => wpc'[v] = wpc[v] /\ wid'[v] = wid[v] /\ watt'[v] = watt[v]
      /\ wpc'[w] = "get" /\ wid'[w] = n
    BY DEF HeadOfLine, TypeOK, RedisTypes, WorkerTypes
<1>2. ASSUME NEW m \in Notif PROVE RowSpent(m)'
    <2>1. Waiting(m)' => Waiting(m)
        BY <1>1 DEF Waiting, Elsewhere, Unplaced, createVars, promoterVars
    <2>. QED BY <1>1, <2>1, SpentFrame DEF createVars, rowVars
<1>3. ASSUME NEW m \in Notif, NEW v \in Workers PROVE WorkerSpent(v, m)'
    <2>1. CASE v = w BY <1>1, <2>1 DEF WorkerSpent, Recording
    <2>2. CASE v # w
        BY <1>1, <2>2 DEF Spent, WorkerSpent, Recording, Slack, Budget, createVars
    <2>. QED BY <2>1, <2>2
<1>. QED BY <1>2, <1>3 DEF Spent

LEMMA SpentStep == TypeOK /\ AllApart /\ Spent /\ Faultless => Spent'
BY CreateSpent, CancelSpent, ProcessSpent, DequeueSpent, PromoteSpent, TimeSpent DEF Faultless

\* A scheduled notification is sent at most MaxAttempts times, and an immediate
\* one, whose count the creating request may reset once, at most twice that less
\* one.
THEOREM SendsBoundedCorrect == Spec => []SendsBounded
<1>. DEFINE Inv == TypeOK /\ AllApart /\ (faults = 0 => Spent)
<1>1. Init => Inv BY TypeInit, ApartInit, SpentInit
<1>2. Inv /\ [Next]_vars => Inv'
    <2>. SUFFICES ASSUME Inv, [Next]_vars PROVE Inv' OBVIOUS
    <2>1. TypeOK' /\ AllApart' BY TypeStep, ApartStep
    <2>2. ASSUME faults' = 0 PROVE Spent'
        <3>1. Faultless BY <2>2, NoFaultYet
        <3>. QED BY <3>1, SpentStep DEF Faultless
    <2>. QED BY <2>1, <2>2
<1>3. Inv => SendsBounded
    <2>. SUFFICES ASSUME Inv, faults = 0, NEW n \in Notif
                  PROVE  sends[n] <= IF n \in FutureDated THEN Budget ELSE 2 * Budget - 1
        BY DEF SendsBounded
    <2>1. sends[n] <= Budget + Slack(n) /\ sends[n] \in Nat
        BY DEF Spent, RowSpent, TypeOK, HistoryTypes
    <2>. QED BY <2>1, BudgetPositive DEF Slack
<1>. QED BY <1>1, <1>2, <1>3, PTL DEF Spec

-----------------------------------------------------------------------------
(* The books *)

\* No worker is recording an attempt of n.
Quiet(n) == \A w \in Workers : wid[w] = n => wpc[w] \notin Recording

Told(n) == IF confirmed[n] THEN status[n] = "delivered" /\ dlq[n] = 0
                           ELSE status[n] = "failed" /\ dlq[n] = 1

RowBook(n) ==
    /\ cpc[n] # "confirm"
    /\ Unplaced(n) => audit[n] = 0 /\ attempts[n] = 0
    /\ Unplaced(n) /\ cpc[n] # "place" => ~Exists(n)
    /\ Quiet(n) => attempts[n] = audit[n]
    /\ Elsewhere(n) => ~confirmed[n] /\ dlq[n] = 0
    /\ Exists(n) /\ ~Near(n) => Told(n)

WorkerBook(w, n) ==
    wid[w] = n =>
        /\ wpc[w] # "get" => Exists(n)
        /\ wpc[w] \in {"limit", "throttle", "mark", "send", "logDelivered", "logFailed"} =>
               watt[w] = audit[n]
        /\ wpc[w] \in {"deliver", "bury", "fail", "requeue"} => watt[w] + 1 = audit[n]
        /\ dlq[n] = IF wpc[w] = "fail" THEN 1 ELSE 0
        /\ confirmed[n] <=> wpc[w] \in {"logDelivered", "deliver"}

Book(n) ==
    n \in FutureDated /\ ~cancelReq[n] =>
        RowBook(n) /\ \A w \in Workers : WorkerBook(w, n)

Books == \A n \in Notif : Book(n)

LEMMA BooksInit == Init => Books
BY ConstantsAssumption
DEF Init, Books, Book, RowBook, WorkerBook, Quiet, Told, Elsewhere, Unplaced, Near, Exists,
    Stores, Recording

\* A step that is about other notifications.
LEMMA BookFrame ==
    ASSUME Books, NEW n \in Notif,
           cpc'[n] = cpc[n], Elsewhere(n)' <=> Elsewhere(n),
           cancelReq'[n] <=> cancelReq[n], confirmed'[n] = confirmed[n], dlq'[n] = dlq[n],
           status'[n] = status[n], attempts'[n] = attempts[n], audit'[n] = audit[n],
           \A w \in Workers : \/ wid[w] # n /\ wid'[w] # n
                              \/ wid'[w] = wid[w] /\ wpc'[w] = wpc[w] /\ watt'[w] = watt[w]
    PROVE  Book(n)'
<1>1. /\ Near(n)' <=> Near(n)
      /\ Quiet(n)' <=> Quiet(n)
      /\ Exists(n)' <=> Exists(n)
      /\ Unplaced(n)' <=> Unplaced(n)
      /\ Told(n)' <=> Told(n)
    BY DEF Near, Quiet, Exists, Unplaced, Told, Recording
<1>2. RowBook(n) => RowBook(n)' BY <1>1 DEF RowBook
<1>3. ASSUME NEW w \in Workers, WorkerBook(w, n) PROVE WorkerBook(w, n)'
    BY <1>1, <1>3 DEF WorkerBook
<1>. QED BY <1>2, <1>3 DEF Books, Book

LEMMA CreateBooks ==
    ASSUME TypeOK, AllApart, Books, NEW n \in Notif, CreateStep(n)
    PROVE  Books'
<1>1. UNCHANGED <<workerVars, promoterVars, historyVars, dlq>>
    BY DEF CreateStep, CreateCall, Lookup, Build, Claim, Recall, Fetch, Insert, PlaceItem, Finish,
           Confirm, CreateFrame, redisVars
<1>2. ASSUME NEW m \in Notif, m # n PROVE Book(m)'
    <2>1. cpc'[m] = cpc[m]
        BY <1>2
        DEF CreateStep, CreateCall, Lookup, Build, Claim, Recall, Fetch, Insert, PlaceItem, Finish,
            Confirm, Goto, Return, TypeOK, CreateTypes
    <2>2. Elsewhere(m)' <=> Elsewhere(m)
        BY <1>1, <1>2, <2>1
        DEF Elsewhere, Unplaced, CreateStep, CreateCall, Lookup, Build, Claim, Recall,
            Fetch, Insert, PlaceItem, Finish, Confirm, Push, Add, Stores, redisVars, TypeOK, RedisTypes,
            promoterVars
    <2>3. status'[m] = status[m] /\ attempts'[m] = attempts[m] /\ audit'[m] = audit[m]
        BY <1>2
        DEF CreateStep, CreateCall, Lookup, Build, Claim, Recall, Fetch, Insert, PlaceItem, Finish,
            Confirm, UpdateStatus, rowVars, TypeOK, RowTypes
    <2>. QED BY <1>1, <2>1, <2>2, <2>3, BookFrame DEF workerVars, historyVars
<1>3. ASSUME n \in FutureDated, ~cancelReq[n] PROVE Book(n)'
    <2>0. /\ RowBook(n) /\ Unplaced(n)
          /\ \A w \in Workers : wid[w] # n /\ wid'[w] # n
          /\ cpc[n] # "confirm" /\ cpc[n] # "done"
        <3>1. RowBook(n) BY <1>3 DEF Books, Book
        <3>2. Unplaced(n)
            BY <3>1
            DEF RowBook, Unplaced, CreateStep, CreateCall, Lookup, Build, Claim, Recall, Fetch,
                Insert, PlaceItem, Finish, Confirm
        <3>. QED BY <1>1, <3>1, <3>2 DEF Unplaced, AllApart, Apart, NotWorked, workerVars
    <2>1. \A w \in Workers : WorkerBook(w, n)' BY <2>0 DEF WorkerBook
    <2>2. RowBook(n)'
        <3>. USE <1>1, <2>0
             DEF RowBook, Quiet, Elsewhere, Unplaced, Near, Exists, Goto, Return, TypeOK,
                 CreateTypes, RowTypes, rowVars, redisVars, promoterVars, historyVars
        <3>1. CASE Lookup(n) BY <3>1 DEF Lookup
        <3>2. CASE \E verdict \in Verdicts : Build(n, verdict) BY <3>2 DEF Build, Verdicts
        <3>3. CASE Claim(n) BY <3>3 DEF Claim
        <3>4. CASE Recall(n) BY <3>4 DEF Recall
        <3>5. CASE Fetch(n) BY <3>5 DEF Fetch
        <3>6. CASE Insert(n) BY <3>6 DEF Insert
        <3>7. CASE PlaceItem(n) BY <1>3, <3>7 DEF PlaceItem, Finish, Add, Stores, RedisTypes
        <3>. QED BY <3>1, <3>2, <3>3, <3>4, <3>5, <3>6, <3>7 DEF CreateStep, CreateCall, Confirm
    <2>. QED BY <2>1, <2>2 DEF Book
<1>4. CASE n \notin FutureDated \/ cancelReq[n]
    BY <1>1, <1>2, <1>4 DEF Books, Book, historyVars
<1>. QED BY <1>2, <1>3, <1>4 DEF Books

LEMMA CancelBooks ==
    ASSUME TypeOK, Books, Reasons, NEW x \in Cancellers, faults = 0, faults' = 0,
           CancelStep(x) \/ \E n \in Notif : CancelCheck(x, n)
    PROVE  Books'
<1>1. UNCHANGED <<createVars, workerVars, promoterVars, sends, confirmed, dlq, audit>>
    BY DEF CancelStep, CancelCheck, CancelDequeue, CancelUnschedule, CancelCommit, CancelFrame,
           UpdateStatus, Ignored, rowVars, redisVars
<1>2. SUFFICES ASSUME NEW n \in Notif, ~cancelReq'[n] PROVE Book(n)'
    BY DEF Books, Book
<1>3. /\ ~cancelReq[n]
      /\ ~\E m \in Notif : CancelCheck(x, m) /\ m = n
      /\ xpc[x] # "idle" => xid[x] # n
    BY <1>2
    DEF CancelStep, CancelCheck, CancelDequeue, CancelUnschedule, CancelCommit, TypeOK,
        CancelTypes, HistoryTypes, Reasons, CancelReason
<1>4. status'[n] = status[n] /\ attempts'[n] = attempts[n]
    BY <1>3
    DEF CancelStep, CancelCheck, CancelDequeue, CancelUnschedule, CancelCommit, UpdateStatus,
        TypeOK, RowTypes, rowVars
<1>5. Elsewhere(n)' <=> Elsewhere(n)
    BY <1>1, <1>3
    DEF Elsewhere, Unplaced, CancelStep, CancelCheck, CancelDequeue, CancelUnschedule,
        CancelCommit, Ignored, Remove, Stores, redisVars, TypeOK, RedisTypes, createVars,
        promoterVars
<1>. QED BY <1>1, <1>2, <1>3, <1>4, <1>5, BookFrame DEF createVars, workerVars

LEMMA PromoteBooks ==
    ASSUME TypeOK, Books, NEW p \in Promoters, PromoteStep(p)
    PROVE  Books'
<1>1. UNCHANGED <<rowVars, createVars, workerVars, historyVars, dlq>>
    BY DEF PromoteStep, Scan, ClaimDue, Promote, PromoterFrame, redisVars
<1>2. ASSUME NEW n \in Notif PROVE Book(n)'
    <2>1. Elsewhere(n)' <=> Elsewhere(n)
        <3>. USE <1>1, ConstantsAssumption
             DEF Elsewhere, Unplaced, redisVars, TypeOK, RedisTypes, PromoterTypes, createVars
        <3>1. CASE Scan(p) BY <3>1 DEF Scan
        <3>2. ASSUME NEW m \in Notif, ClaimDue(p, m) PROVE Elsewhere(n)' <=> Elsewhere(n)
            <4>1. CASE Claimed(p, m) BY <3>2, <4>1 DEF ClaimDue, Claimed, Remove, Stores
            <4>2. CASE ~Claimed(p, m) BY <3>2, <4>2 DEF ClaimDue, Claimed, Remove, Stores
            <4>. QED BY <4>1, <4>2
        <3>3. CASE Promote(p) BY <3>3 DEF Promote, Push
        <3>. QED BY <3>1, <3>2, <3>3 DEF PromoteStep
    <2>. QED BY <1>1, <2>1, BookFrame DEF rowVars, createVars, workerVars, historyVars
<1>. QED BY <1>2 DEF Books

LEMMA TimeBooks ==
    ASSUME TypeOK, Books,
           \/ \E k \in Keys : ExpireKey(k)
           \/ \E s \in Stores, n \in Notif : Elapse(s, n)
           \/ UNCHANGED vars
    PROVE  Books'
<1>1. UNCHANGED <<rowVars, createVars, workerVars, promoterVars, historyVars, dlq>>
    BY DEF ExpireKey, Elapse, CreateFrame, vars, redisVars
<1>2. ASSUME NEW n \in Notif PROVE Book(n)'
    <2>1. Elsewhere(n)' <=> Elsewhere(n)
        BY <1>1
        DEF Elsewhere, Unplaced, ExpireKey, Elapse, vars, redisVars, TypeOK, RedisTypes,
            Stores, createVars, promoterVars
    <2>. QED BY <1>1, <2>1, BookFrame DEF rowVars, createVars, workerVars, historyVars
<1>. QED BY <1>2 DEF Books

LEMMA DequeueBooks ==
    ASSUME TypeOK, AllApart, Books, NEW w \in Workers, NEW n \in Notif, Dequeue(w, n)
    PROVE  Books'
<1>. USE DEF Dequeue, ProcessFrame
<1>1. /\ UNCHANGED <<createVars, rowVars, promoterVars, historyVars, zset, dlq>>
      /\ queue[n] > 0 /\ \A m \in Notif : m # n => queue'[m] = queue[m]
      /\ \A v \in Workers : v # w => wpc'[v] = wpc[v] /\ wid'[v] = wid[v] /\ watt'[v] = watt[v]
      /\ wpc'[w] = "get" /\ wid'[w] = n /\ wid[w] = None
    BY DEF HeadOfLine, TypeOK, RedisTypes, WorkerTypes, historyVars
<1>2. ASSUME NEW m \in Notif, m # n PROVE Book(m)'
    <2>1. Elsewhere(m)' <=> Elsewhere(m)
        BY <1>1, <1>2 DEF Elsewhere, Unplaced, createVars, promoterVars
    <2>. QED BY <1>1, <1>2, <2>1, BookFrame, ConstantsAssumption
         DEF createVars, rowVars, historyVars
<1>3. ASSUME n \in FutureDated, ~cancelReq[n] PROVE Book(n)'
    <2>0. RowBook(n) /\ Elsewhere(n) /\ ~Unplaced(n)
          /\ \A v \in Workers : wid[v] # n
        <3>1. RowBook(n) /\ Elsewhere(n) BY <1>1, <1>3 DEF Books, Book, Elsewhere
        <3>2. ~Unplaced(n) /\ \A v \in Workers : wid[v] # n
            BY <1>1 DEF AllApart, Apart, NotQueued, NotWorked, TypeOK, RedisTypes
        <3>. QED BY <3>1, <3>2
    <2>1. Near(n)' /\ Quiet(n) BY <1>1, <2>0 DEF Near, Quiet
    <2>2. RowBook(n)'
        BY <1>1, <2>0, <2>1
        DEF RowBook, Unplaced, Exists, createVars, rowVars, historyVars
    <2>3. ASSUME NEW v \in Workers PROVE WorkerBook(v, n)'
        BY <1>1, <2>0, <2>3 DEF RowBook, WorkerBook, historyVars
    <2>. QED BY <2>2, <2>3 DEF Book
<1>4. CASE n \notin FutureDated \/ cancelReq[n]
    BY <1>1, <1>2, <1>4 DEF Books, Book, historyVars
<1>. QED BY <1>2, <1>3, <1>4 DEF Books

LEMMA ProcessBooks ==
    ASSUME TypeOK, AllApart, Books, Reasons, NEW w \in Workers, faults = 0, faults' = 0,
           ProcessStep(w)
    PROVE  Books'
<1>0. /\ audit \in [Notif -> Nat] /\ attempts \in [Notif -> Nat]
      /\ status \in [Notif -> Statuses \cup {"absent"}]
      /\ dlq \in [Notif -> Nat] /\ confirmed \in [Notif -> BOOLEAN]
      /\ watt \in [Workers -> Nat] /\ wid \in [Workers -> Notif \cup {None}]
      /\ wpc \in [Workers -> {"idle", "get", "limit", "throttle", "mark", "send",
                              "logDelivered", "deliver", "logFailed", "bury",
                              "fail", "requeue", "schedule"}]
      /\ zset \in [Stores -> [Notif -> {"absent", "waiting", "due"}]]
    BY DEF TypeOK, HistoryTypes, RowTypes, RedisTypes, WorkerTypes
<1>1. /\ UNCHANGED <<createVars, promoterVars, cancelReq, queue>>
      /\ \A v \in Workers : v # w => wpc'[v] = wpc[v] /\ wid'[v] = wid[v] /\ watt'[v] = watt[v]
    BY <1>0
    DEF ProcessStep, Load, Limit, Throttle, MarkSending, Send, LogAttempt, Deliver, DeadLetter,
        Fail, Requeue, ScheduleRetry, ProcessFrame, WorkerGoto, WorkerDone, redisVars
<1>2. wpc[w] # "idle"
    BY DEF ProcessStep, Load, Limit, Throttle, MarkSending, Send, LogAttempt, Deliver, DeadLetter,
           Fail, Requeue, ScheduleRetry
<1>3. PICK n \in Notif : wid[w] = n /\ ~Elsewhere(n) /\ \A v \in Workers : wid[v] = n => v = w
    BY <1>2, WorkerAlone
<1>4. wid'[w] \in {n, None} /\ None \notin Notif
    BY <1>0, <1>3, ConstantsAssumption
    DEF ProcessStep, Load, Limit, Throttle, MarkSending, Send, LogAttempt, Deliver, DeadLetter,
        Fail, Requeue, ScheduleRetry, WorkerGoto, WorkerDone
<1>5. ASSUME NEW m \in Notif, m # n PROVE Book(m)'
    <2>1. /\ status'[m] = status[m] /\ attempts'[m] = attempts[m] /\ audit'[m] = audit[m]
          /\ confirmed'[m] = confirmed[m] /\ dlq'[m] = dlq[m]
        BY <1>0, <1>3, <1>5
        DEF ProcessStep, Load, Limit, Throttle, MarkSending, Send, LogAttempt, Deliver,
            DeadLetter, Fail, Requeue, ScheduleRetry, Ignored, UpdateStatus, rowVars, redisVars
    <2>2. Elsewhere(m)' <=> Elsewhere(m)
        BY <1>0, <1>1, <1>3, <1>5
        DEF ProcessStep, Load, Limit, Throttle, MarkSending, Send, LogAttempt, Deliver,
            DeadLetter, Fail, Requeue, ScheduleRetry, Ignored, redisVars, Add, Stores,
            Elsewhere, Unplaced, createVars, promoterVars
    <2>. QED BY <1>1, <1>3, <1>4, <1>5, <2>1, <2>2, BookFrame DEF createVars
<1>6. ASSUME n \in FutureDated, ~cancelReq[n] PROVE Book(n)'
    <2>0. /\ RowBook(n) /\ WorkerBook(w, n)
          /\ ~Unplaced(n) /\ ~Unplaced(n)' /\ cpc[n] # "confirm" /\ cpc'[n] # "confirm"
          /\ status[n] # "cancelled"
          /\ Quiet(n) <=> wpc[w] \notin Recording
        BY <1>1, <1>3, <1>6
        DEF Books, Book, RowBook, Elsewhere, Unplaced, createVars, Reasons, Reason, RowReason,
            Quiet
    <2>1. ASSUME UNCHANGED zset PROVE ~Elsewhere(n)'
        BY <1>1, <1>3, <2>1 DEF Elsewhere, Unplaced, createVars, promoterVars
    <2>2. ASSUME wid'[w] = n PROVE Near(n)' /\ (Quiet(n)' <=> wpc'[w] \notin Recording)
        BY <1>1, <1>3, <2>2 DEF Near, Quiet, Recording
    <2>3. ASSUME wid'[w] = None PROVE Quiet(n)' /\ (Near(n)' <=> Elsewhere(n)')
        BY <1>1, <1>3, <1>4, <2>3 DEF Near, Quiet
    <2>4. ASSUME NEW v \in Workers, v # w PROVE WorkerBook(v, n)'
        BY <1>1, <1>3, <2>4 DEF WorkerBook
    <2>5. RowBook(n)' /\ WorkerBook(w, n)'
        <3>. USE <1>0, <1>3, <1>4, <2>0 DEF RowBook, WorkerBook, Recording, Exists, Told
        <3>1. CASE Load(w)
            <4>1. ~Exists(n) \/ status[n] \notin {"absent", "cancelled", "delivered"}
                BY <1>6, <3>1 DEF Load, Reasons, Reason, RowReason
            <4>2. CASE status[n] \in {"absent", "cancelled", "delivered"}
                BY <3>1, <2>1, <2>3, <4>1, <4>2 DEF Load, WorkerDone, rowVars, redisVars
            <4>3. CASE status[n] \notin {"absent", "cancelled", "delivered"}
                BY <3>1, <2>1, <2>2, <4>3 DEF Load, rowVars, redisVars
            <4>. QED BY <4>2, <4>3
        <3>2. CASE \E verdict \in {"allowed", "throttled"} : Limit(w, verdict)
            BY <3>2, <2>1, <2>2 DEF Limit, WorkerGoto, rowVars, redisVars
        <3>3. CASE Throttle(w)
            <4>1. Elsewhere(n)' BY <3>3 DEF Throttle, Add, Stores, Elsewhere
            <4>. QED BY <3>3, <2>3, <4>1 DEF Throttle, WorkerDone, rowVars
        <3>4. CASE MarkSending(w)
            BY <3>4, <2>1, <2>2 DEF MarkSending, WorkerGoto, Ignored, Fault, UpdateStatus, redisVars
        <3>5. CASE \E reply \in {"accepted", "refused"} : Send(w, reply)
            BY <3>5, <2>1, <2>2 DEF Send, WorkerGoto, rowVars, redisVars
        <3>6. CASE LogAttempt(w)
            BY <3>6, <2>1, <2>2 DEF LogAttempt, WorkerGoto, Ignored, Fault, redisVars
        <3>7. CASE Deliver(w)
            BY <3>7, <2>1, <2>3 DEF Deliver, WorkerDone, UpdateStatus, redisVars
        <3>8. CASE DeadLetter(w)
            BY <3>8, <2>1, <2>2 DEF DeadLetter, WorkerGoto, Ignored, Fault, rowVars
        <3>9. CASE Fail(w)
            BY <3>9, <2>1, <2>3 DEF Fail, WorkerDone, UpdateStatus, redisVars
        <3>10. CASE Requeue(w)
            BY <3>10, <2>1, <2>2 DEF Requeue, WorkerGoto, Ignored, Fault, UpdateStatus, redisVars
        <3>11. CASE ScheduleRetry(w)
            <4>1. Elsewhere(n)' BY <3>11 DEF ScheduleRetry, Add, Stores, Elsewhere
            <4>. QED BY <3>11, <2>3, <4>1 DEF ScheduleRetry, WorkerDone, rowVars
        <3>. QED BY <3>1, <3>2, <3>3, <3>4, <3>5, <3>6, <3>7, <3>8, <3>9, <3>10, <3>11
             DEF ProcessStep
    <2>. QED BY <2>4, <2>5 DEF Book
<1>7. CASE n \notin FutureDated \/ cancelReq[n] BY <1>1, <1>5, <1>7 DEF Books, Book
<1>. QED BY <1>5, <1>6, <1>7 DEF Books

LEMMA BooksStep == TypeOK /\ AllApart /\ Reasons /\ Books /\ Faultless => Books'
BY CreateBooks, CancelBooks, ProcessBooks, DequeueBooks, PromoteBooks, TimeBooks
DEF Faultless

LEMMA BooksInvariant == Spec => [](Grounds /\ (faults = 0 => Books))
<1>. DEFINE Inv == Grounds /\ (faults = 0 => Books)
<1>1. Init => Inv BY GroundsInit, BooksInit
<1>2. Inv /\ [Next]_vars => Inv'
    <2>. SUFFICES ASSUME Inv, [Next]_vars PROVE Inv' OBVIOUS
    <2>1. ASSUME faults' = 0 PROVE Books'
        <3>1. Faultless BY <2>1, NoFaultYet DEF Grounds
        <3>. QED BY <3>1, BooksStep DEF Faultless, Grounds
    <2>. QED BY <2>1, GroundsStep
<1>. QED BY <1>1, <1>2, PTL DEF Spec

\* The attempts in the row of a scheduled notification are its delivery_attempts.
THEOREM AttemptsMatchAuditCorrect == Spec => []AttemptsMatchAudit
<1>1. Grounds /\ (faults = 0 => Books) => AttemptsMatchAudit
    BY ConstantsAssumption DEF Grounds, AttemptsMatchAudit, Books, Book, RowBook, Quiet
<1>. QED BY <1>1, BooksInvariant, PTL

\* When the item of a scheduled notification is gone, the row, the provider and
\* the dead-letter list agree on the outcome.
THEOREM RowTellsOutcomeCorrect == Spec => []RowTellsOutcome
<1>1. Grounds /\ (faults = 0 => Books) => RowTellsOutcome
    BY NearIsLive, ConstantsAssumption DEF Grounds, RowTellsOutcome, Books, Book, RowBook, Told
<1>. QED BY <1>1, BooksInvariant, PTL
=============================================================================
