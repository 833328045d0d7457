------------------------- MODULE IdempotencyProofs -------------------------
(* Idempotency keys, for any number of requests, keys, workers, promoters,   *)
(* cancel requests and faults, and keys that expire at any time.             *)
EXTENDS NotifierProofs

\* A key names the request that claimed it, and a duplicate fetches that one.
KeyOwner ==
    /\ \A k \in Keys : idem[k] # None => KeyOf[idem[k]] = k
    /\ \A n \in Notif : cpc[n] = "fetch" => KeyOf[answer[n]] = KeyOf[n]

\* The UNIQUE constraint.
OneRowPerKey ==
    \A m, n \in Notif :
        Exists(m) /\ Exists(n) /\ KeyOf[m] = KeyOf[n] /\ KeyOf[n] # None => m = n

\* Requests that were answered with success, and those that are about to be.
AnswerStored ==
    /\ \A n \in Notif : cpc[n] \in {"place", "confirm"} => Exists(n)
    /\ \A n \in Notif : outcome[n] # "none" => cpc[n] = "done"
    /\ \A n \in Notif : outcome[n] = "ok" =>
           answer[n] \in Notif /\ Exists(answer[n]) /\ KeyOf[answer[n]] = KeyOf[n]

KeysKept == KeyOwner /\ OneRowPerKey /\ AnswerStored

LEMMA KeysInit == Init => KeysKept
BY DEF Init, KeysKept, KeyOwner, OneRowPerKey, AnswerStored, Exists

\* Rows only come from Insert, and no step takes one away.
LEMMA RowsStay ==
    ASSUME TypeOK, [Next]_vars
    PROVE  /\ status' \in [Notif -> Statuses \cup {"absent"}]
           /\ \A n \in Notif : Exists(n) => Exists(n)'
           /\ \A n \in Notif : Exists(n)' => Exists(n) \/ Insert(n)
<1>0. /\ status \in [Notif -> Statuses \cup {"absent"}]
      /\ TypeOK'
    BY TypeStep DEF TypeOK, RowTypes
<1>. SUFFICES ASSUME NEW n \in Notif
              PROVE  /\ Exists(n) => Exists(n)'
                     /\ Exists(n)' => Exists(n) \/ Insert(n)
    BY <1>0 DEF TypeOK, RowTypes
<1>. USE <1>0 DEF Exists, UpdateStatus, rowVars, Ignored, Statuses
<1>1. ASSUME NEW m \in Notif, CreateStep(m) \/ CreateAbort(m)
      PROVE  (Exists(n) <=> Exists(n)') \/ (Insert(m) /\ n = m /\ Exists(n)')
    BY <1>1 DEF CreateStep, CreateCall, CreateAbort, Lookup, Build, Claim, Recall, Fetch,
                Insert, PlaceItem, Finish, Confirm
<1>2. ASSUME NEW x \in Cancellers,
             CancelStep(x) \/ CancelAbort(x) \/ \E m \in Notif : CancelCheck(x, m)
      PROVE  Exists(n) <=> Exists(n)'
    BY <1>2 DEF CancelStep, CancelAbort, CancelCheck, CancelDequeue, CancelUnschedule,
                CancelCommit
<1>3. ASSUME NEW w \in Workers,
             ProcessStep(w) \/ WorkerAbort(w) \/ \E m \in Notif : Dequeue(w, m)
      PROVE  Exists(n) <=> Exists(n)'
    <2>1. CASE MarkSending(w) BY <2>1 DEF MarkSending
    <2>2. CASE LogAttempt(w) BY <2>2 DEF LogAttempt
    <2>3. CASE Deliver(w) BY <2>3 DEF Deliver
    <2>4. CASE Fail(w) BY <2>4 DEF Fail
    <2>5. CASE Requeue(w) BY <2>5 DEF Requeue
    <2>. QED BY <1>3, <2>1, <2>2, <2>3, <2>4, <2>5
         DEF ProcessStep, WorkerAbort, Dequeue, Load, Limit, Throttle, Send, DeadLetter,
             ScheduleRetry
<1>4. ASSUME NEW p \in Promoters, PromoteStep(p) \/ PromoterAbort(p)
      PROVE  Exists(n) <=> Exists(n)'
    BY <1>4 DEF PromoteStep, PromoterAbort, Scan, ClaimDue, Promote
<1>5. ASSUME \/ \E k \in Keys : ExpireKey(k)
             \/ \E s \in Stores, m \in Notif : Elapse(s, m)
             \/ UNCHANGED vars
      PROVE  Exists(n) <=> Exists(n)'
    BY <1>5 DEF ExpireKey, Elapse, vars
<1>. QED BY <1>1, <1>2, <1>3, <1>4, <1>5 DEF Next, Backend

\* The processes behind the API leave the requests and the keys alone.
LEMMA BackendKeys ==
    ASSUME TypeOK, Backend \/ UNCHANGED vars
    PROVE  /\ UNCHANGED createVars
           /\ \A k \in Keys : idem'[k] = idem[k] \/ idem'[k] = None
<1>. USE DEF redisVars
<1>1. ASSUME NEW k \in Keys, ExpireKey(k)
      PROVE  UNCHANGED createVars /\ \A l \in Keys : idem'[l] = idem[l] \/ idem'[l] = None
    BY <1>1 DEF ExpireKey, TypeOK, RedisTypes
<1>2. ASSUME NEW x \in Cancellers,
             CancelStep(x) \/ CancelAbort(x) \/ \E m \in Notif : CancelCheck(x, m)
      PROVE  UNCHANGED createVars /\ UNCHANGED idem
    BY <1>2 DEF CancelStep, CancelAbort, CancelCheck, CancelDequeue, CancelUnschedule,
                CancelCommit, CancelFrame
<1>3. ASSUME NEW w \in Workers,
             ProcessStep(w) \/ WorkerAbort(w) \/ \E m \in Notif : Dequeue(w, m)
      PROVE  UNCHANGED createVars /\ UNCHANGED idem
    BY <1>3 DEF ProcessStep, WorkerAbort, Dequeue, Load, Limit, Throttle, MarkSending, Send,
                LogAttempt, Deliver, DeadLetter, Fail, Requeue, ScheduleRetry, ProcessFrame
<1>4. ASSUME NEW p \in Promoters, PromoteStep(p) \/ PromoterAbort(p)
      PROVE  UNCHANGED createVars /\ UNCHANGED idem
    BY <1>4 DEF PromoteStep, PromoterAbort, Scan, ClaimDue, Promote, PromoterFrame
<1>5. ASSUME NEW s \in Stores, NEW m \in Notif, Elapse(s, m)
      PROVE  UNCHANGED createVars /\ UNCHANGED idem
    BY <1>5 DEF Elapse
<1>. QED BY <1>1, <1>2, <1>3, <1>4, <1>5 DEF Backend, vars

LEMMA KeyOwnerStep ==
    ASSUME TypeOK, KeysKept, NEW n \in Notif, CreateStep(n) \/ CreateAbort(n)
    PROVE  KeyOwner'
<1>. USE ConstantsAssumption
     DEF KeysKept, KeyOwner, TypeOK, CreateTypes, RedisTypes, Goto, Return, redisVars
<1>1. CASE Lookup(n) BY <1>1 DEF Lookup
<1>2. CASE \E verdict \in Verdicts : Build(n, verdict) BY <1>2 DEF Build, Verdicts
<1>3. CASE Claim(n) BY <1>3 DEF Claim
<1>4. CASE Recall(n)
    <2>1. KeyOf[n] \in Keys BY <1>4 DEF Recall
    <2>2. CASE idem[KeyOf[n]] = None BY <1>4, <2>2 DEF Recall
    <2>3. CASE idem[KeyOf[n]] # None BY <1>4, <2>1, <2>3 DEF Recall
    <2>. QED BY <2>2, <2>3
<1>5. CASE Fetch(n) BY <1>5 DEF Fetch
<1>6. CASE Insert(n) BY <1>6 DEF Insert
<1>7. CASE PlaceItem(n) BY <1>7 DEF PlaceItem, Finish
<1>8. CASE Confirm(n) BY <1>8 DEF Confirm, Finish
<1>9. CASE CreateAbort(n) BY <1>9 DEF CreateAbort
<1>. QED BY <1>1, <1>2, <1>3, <1>4, <1>5, <1>6, <1>7, <1>8, <1>9 DEF CreateStep, CreateCall

LEMMA AnswerStep ==
    ASSUME TypeOK, KeysKept, NEW n \in Notif, CreateStep(n) \/ CreateAbort(n),
           \A m \in Notif : Exists(m) => Exists(m)'
    PROVE  AnswerStored'
<1>. USE DEF KeysKept, KeyOwner, AnswerStored, TypeOK, CreateTypes, Goto, Return
<1>1. CASE Lookup(n) BY <1>1 DEF Lookup, RowsWithKey
<1>2. CASE \E verdict \in Verdicts : Build(n, verdict) BY <1>2 DEF Build, Verdicts
<1>3. CASE Claim(n) BY <1>3 DEF Claim
<1>4. CASE Recall(n)
    <2>1. CASE idem[KeyOf[n]] = None BY <1>4, <2>1 DEF Recall
    <2>2. CASE idem[KeyOf[n]] # None BY <1>4, <2>2 DEF Recall
    <2>. QED BY <2>1, <2>2
<1>5. CASE Fetch(n) BY <1>5 DEF Fetch
<1>6. CASE Insert(n)
    <2>1. CASE KeyTaken(n) BY <1>6, <2>1 DEF Insert
    <2>2. CASE ~KeyTaken(n)
        <3>1. Exists(n)' BY <1>6, <2>2 DEF Insert, Exists, TypeOK, RowTypes
        <3>. QED BY <1>6, <2>2, <3>1 DEF Insert
    <2>. QED BY <2>1, <2>2
<1>7. CASE PlaceItem(n) BY <1>7 DEF PlaceItem, Finish
<1>8. CASE Confirm(n) BY <1>8 DEF Confirm, Finish
<1>9. CASE CreateAbort(n) BY <1>9 DEF CreateAbort
<1>. QED BY <1>1, <1>2, <1>3, <1>4, <1>5, <1>6, <1>7, <1>8, <1>9 DEF CreateStep, CreateCall

LEMMA UniqueStep == TypeOK /\ KeysKept /\ [Next]_vars => OneRowPerKey'
<1>. SUFFICES ASSUME TypeOK, KeysKept, [Next]_vars, NEW m \in Notif, NEW n \in Notif,
                     Exists(m)', Exists(n)', KeyOf[m] = KeyOf[n], KeyOf[n] # None
              PROVE  m = n
    BY DEF OneRowPerKey
<1>1. /\ Exists(m) \/ Insert(m)
      /\ Exists(n) \/ Insert(n)
    BY RowsStay
<1>2. ASSUME NEW i \in Notif, NEW j \in Notif, Insert(i), Exists(i)', Exists(j), KeyOf[i] = KeyOf[j],
             KeyOf[j] # None
      PROVE  i = j
    <2>1. CASE KeyTaken(i) BY <1>2, <2>1 DEF Insert, rowVars, Exists, KeysKept, OneRowPerKey
    <2>2. CASE ~KeyTaken(i) BY <1>2, <2>2 DEF KeyTaken, RowsWithKey
    <2>. QED BY <2>1, <2>2
<1>3. CASE Exists(m) /\ Exists(n) BY <1>3 DEF KeysKept, OneRowPerKey
<1>4. CASE Insert(m) /\ Insert(n) /\ ~Exists(m) /\ ~Exists(n)
    BY <1>4 DEF Insert, Exists, TypeOK, RowTypes, rowVars
<1>. QED BY <1>1, <1>2, <1>3, <1>4

LEMMA KeysStep == TypeOK /\ KeysKept /\ [Next]_vars => KeysKept'
<1>. SUFFICES ASSUME TypeOK, KeysKept, [Next]_vars PROVE KeysKept' OBVIOUS
<1>0. \A m \in Notif : Exists(m) => Exists(m)' BY RowsStay
<1>1. ASSUME NEW n \in Notif, CreateStep(n) \/ CreateAbort(n) PROVE KeysKept'
    BY <1>0, <1>1, KeyOwnerStep, AnswerStep, UniqueStep DEF KeysKept
<1>2. ASSUME Backend \/ UNCHANGED vars PROVE KeysKept'
    <2>1. UNCHANGED createVars /\ \A k \in Keys : idem'[k] = idem[k] \/ idem'[k] = None
        BY <1>2, BackendKeys
    <2>2. KeyOwner' BY <2>1 DEF KeysKept, KeyOwner, createVars
    <2>3. AnswerStored' BY <1>0, <2>1 DEF KeysKept, AnswerStored, createVars
    <2>. QED BY <2>2, <2>3, UniqueStep DEF KeysKept
<1>. QED BY <1>1, <1>2 DEF Next

LEMMA KeysInvariant == Spec => [](TypeOK /\ KeysKept)
<1>1. Init => TypeOK /\ KeysKept BY TypeInit, KeysInit
<1>2. TypeOK /\ KeysKept /\ [Next]_vars => (TypeOK /\ KeysKept)' BY TypeStep, KeysStep
<1>. QED BY <1>1, <1>2, PTL DEF Spec

\* Requests that carry the same key and succeed are answered with the same
\* notification, whenever the key expires and whatever fails.
THEOREM SameKeyCorrect == Spec => []SameKeySameNotification
<1>1. KeysKept => SameKeySameNotification
    BY DEF KeysKept, AnswerStored, OneRowPerKey, SameKeySameNotification
<1>. QED BY <1>1, KeysInvariant, PTL
=============================================================================
