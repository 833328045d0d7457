------------------------ MODULE ProcessNotification ------------------------
(***************************************************************************)
(* A worker goroutine: worker.Run dequeues an item and hands it to         *)
(* ProcessNotification.Execute.  wpc[w] names the worker's next call, wid  *)
(* its item and watt the attempts of the row it read at the start.         *)
(***************************************************************************)
EXTENDS NotifierState

ProcessFrame == UNCHANGED <<createVars, cancelVars, promoterVars, cancelReq>>

WorkerGoto(w, call) == /\ wpc' = [wpc EXCEPT ![w] = call]
                       /\ UNCHANGED <<wid, watt>>

WorkerDone(w) == /\ wpc'  = [wpc  EXCEPT ![w] = "idle"]
                 /\ wid'  = [wid  EXCEPT ![w] = None]
                 /\ watt' = [watt EXCEPT ![w] = 0]

HeadOfAnyList(n) == \A m \in Notif : \* mutant: an empty list yields an item
    queue[m] > 0 => Rank[PriorityOf[n]] <= Rank[PriorityOf[m]]

\* BRPOP pops from the first non-empty list: high, then normal, then low.
HeadOfLine(n) ==
    /\ queue[n] > 0
    /\ \A m \in Notif : queue[m] > 0 => Rank[PriorityOf[n]] <= Rank[PriorityOf[m]]

\* Queue.Dequeue
Dequeue(w, n) ==
    /\ wpc[w] = "idle"
    /\ HeadOfLine(n)
    /\ queue' = [queue EXCEPT ![n] = @ - 1]
    /\ wpc' = [wpc EXCEPT ![w] = "get"]
    /\ wid' = [wid EXCEPT ![w] = n]
    /\ UNCHANGED watt
    /\ ProcessFrame
    /\ UNCHANGED <<rowVars, zset, dlq, idem, sends, confirmed, faults>>

\* Mutant: only a missing row stops the worker.
LoadAnyStatus(w) ==
    /\ wpc[w] = "get"
    /\ IF ~Exists(wid[w])
       THEN WorkerDone(w)
       ELSE /\ wpc'  = [wpc  EXCEPT ![w] = "limit"]
            /\ watt' = [watt EXCEPT ![w] = attempts[wid[w]]]
            /\ UNCHANGED wid
    /\ ProcessFrame
    /\ UNCHANGED <<rowVars, redisVars, sends, confirmed, faults>>

\* Repo.Get; a cancelled or delivered notification is dropped, and so is an
\* id without a row.
Load(w) ==
    /\ wpc[w] = "get"
    /\ IF status[wid[w]] \in {"absent", "cancelled", "delivered"}
       THEN WorkerDone(w)
       ELSE /\ wpc'  = [wpc  EXCEPT ![w] = "limit"]
            /\ watt' = [watt EXCEPT ![w] = attempts[wid[w]]]
            /\ UNCHANGED wid
    /\ ProcessFrame
    /\ UNCHANGED <<rowVars, redisVars, sends, confirmed, faults>>

\* RateLimiter.Allow: the window of the channel has room, or not.
Limit(w, verdict) ==
    /\ wpc[w] = "limit"
    /\ WorkerGoto(w, IF verdict = "allowed" THEN "mark" ELSE "throttle")
    /\ ProcessFrame
    /\ UNCHANGED <<rowVars, redisVars, sends, confirmed, faults>>

\* Mutant: a throttled item is dropped.
ThrottleDrops(w) ==
    /\ wpc[w] = "throttle"
    /\ WorkerDone(w)
    /\ ProcessFrame
    /\ UNCHANGED <<rowVars, redisVars, sends, confirmed, faults>>

\* Retry.Schedule(now + 1s); its error is ignored (see WorkerAbort).
Throttle(w) ==
    /\ wpc[w] = "throttle"
    /\ Add("retry", wid[w])
    /\ WorkerDone(w)
    /\ ProcessFrame
    /\ UNCHANGED <<rowVars, queue, dlq, idem, sends, confirmed, faults>>

\* Repo.UpdateStatus(sending), error ignored.
MarkSending(w) ==
    /\ wpc[w] = "mark"
    /\ Ignored(UpdateStatus(wid[w], "sending", watt[w]), rowVars)
    /\ WorkerGoto(w, "send")
    /\ ProcessFrame
    /\ UNCHANGED <<redisVars, sends, confirmed>>

\* Provider.Send: 202 Accepted, or anything else.
Send(w, reply) ==
    /\ wpc[w] = "send"
    /\ sends' = [sends EXCEPT ![wid[w]] = @ + 1]
    /\ IF reply = "accepted"
       THEN confirmed' = [confirmed EXCEPT ![wid[w]] = TRUE] /\ WorkerGoto(w, "logDelivered")
       ELSE UNCHANGED confirmed /\ WorkerGoto(w, "logFailed")
    /\ ProcessFrame
    /\ UNCHANGED <<rowVars, redisVars, faults>>

ExhaustedEarly(w) == watt[w] + 2 >= MaxAttempts \* mutant

ExhaustedLate(w) == watt[w] + 1 > MaxAttempts \* mutant

\* attemptNo >= MaxAttempts
Exhausted(w) == watt[w] + 1 >= MaxAttempts

\* Attempts.Add, error ignored; then the branch of handleFailure.
LogAttempt(w) ==
    /\ \/ wpc[w] = "logDelivered" /\ WorkerGoto(w, "deliver")
       \/ wpc[w] = "logFailed"
          /\ WorkerGoto(w, IF Exhausted(w) THEN "bury" ELSE "requeue")
    /\ Ignored(audit' = [audit EXCEPT ![wid[w]] = @ + 1], audit)
    /\ ProcessFrame
    /\ UNCHANGED <<status, attempts, redisVars, sends, confirmed>>

\* Mutant: the delivered status is never written.
DeliverSilently(w) ==
    /\ wpc[w] = "deliver"
    /\ WorkerDone(w)
    /\ ProcessFrame
    /\ UNCHANGED <<rowVars, redisVars, sends, confirmed, faults>>

\* Repo.UpdateStatus(delivered), error ignored (see WorkerAbort).
Deliver(w) ==
    /\ wpc[w] = "deliver"
    /\ UpdateStatus(wid[w], "delivered", watt[w] + 1)
    /\ WorkerDone(w)
    /\ ProcessFrame
    /\ UNCHANGED <<redisVars, sends, confirmed, faults>>

\* DLQ.Push, error ignored.
DeadLetter(w) ==
    /\ wpc[w] = "bury"
    /\ Ignored(dlq' = [dlq EXCEPT ![wid[w]] = @ + 1], dlq)
    /\ WorkerGoto(w, "fail")
    /\ ProcessFrame
    /\ UNCHANGED <<rowVars, queue, zset, idem, sends, confirmed>>

\* Mutant: no return after the dead letter, the item is retried all the same.
FailAndRetry(w) ==
    /\ wpc[w] = "fail"
    /\ UpdateStatus(wid[w], "failed", watt[w] + 1)
    /\ WorkerGoto(w, "requeue")
    /\ ProcessFrame
    /\ UNCHANGED <<redisVars, sends, confirmed, faults>>

\* Repo.UpdateStatus(failed), error ignored (see WorkerAbort).
Fail(w) ==
    /\ wpc[w] = "fail"
    /\ UpdateStatus(wid[w], "failed", watt[w] + 1)
    /\ WorkerDone(w)
    /\ ProcessFrame
    /\ UNCHANGED <<redisVars, sends, confirmed, faults>>

\* Mutant: the row keeps the count it was read with.
RequeueStaleCount(w) ==
    /\ wpc[w] = "requeue"
    /\ UpdateStatus(wid[w], "queued", watt[w])
    /\ WorkerGoto(w, "schedule")
    /\ ProcessFrame
    /\ UNCHANGED <<redisVars, sends, confirmed, faults>>

\* Repo.UpdateStatus(queued), error ignored.
Requeue(w) ==
    /\ wpc[w] = "requeue"
    /\ Ignored(UpdateStatus(wid[w], "queued", watt[w] + 1), rowVars)
    /\ WorkerGoto(w, "schedule")
    /\ ProcessFrame
    /\ UNCHANGED <<redisVars, sends, confirmed>>

\* Retry.Schedule(now + RetryInterval)
ScheduleRetry(w) ==
    /\ wpc[w] = "schedule"
    /\ Add("retry", wid[w])
    /\ WorkerDone(w)
    /\ ProcessFrame
    /\ UNCHANGED <<rowVars, queue, dlq, idem, sends, confirmed, faults>>

\* The last call of the handler fails, a call whose error it returns fails, or
\* the process dies or is stopped half way: the popped item is gone.
WorkerAbort(w) ==
    /\ wpc[w] # "idle"
    /\ Fault
    /\ WorkerDone(w)
    /\ ProcessFrame
    /\ UNCHANGED <<rowVars, redisVars, sends, confirmed>>

ProcessStep(w) ==
    \/ Load(w) \/ Throttle(w) \/ MarkSending(w)
    \/ LogAttempt(w) \/ Deliver(w) \/ DeadLetter(w) \/ Fail(w) \/ Requeue(w)
    \/ ScheduleRetry(w)
    \/ \E verdict \in {"allowed", "throttled"} : Limit(w, verdict)
    \/ \E reply \in {"accepted", "refused"} : Send(w, reply)
=============================================================================
