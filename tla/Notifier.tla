------------------------------ MODULE Notifier ------------------------------
(***************************************************************************)
(* The notifier as deployed: API requests that create and cancel, worker   *)
(* goroutines, and the promoters of the worker and scheduler processes,    *)
(* interleaved call by call over one Postgres and one Redis.               *)
(***************************************************************************)
EXTENDS CreateNotification, CancelNotification, ProcessNotification, Promoter

\* The system at rest: every request is answered and no item is left, so the
\* workers and the promoters poll empty stores.
Idle ==
    /\ \A n \in Notif : cpc[n] = "done" /\ ~Live(n)
    /\ \A x \in Cancellers : xpc[x] = "idle"

\* Everything that goes on beside the create requests.
Backend ==
    \/ \E k \in Keys : ExpireKey(k)
    \/ \E x \in Cancellers :
           \/ \E n \in Notif : CancelCheck(x, n)
           \/ CancelStep(x) \/ CancelAbort(x)
    \/ \E w \in Workers :
           \/ \E n \in Notif : Dequeue(w, n)
           \/ ProcessStep(w) \/ WorkerAbort(w)
    \/ \E p \in Promoters : PromoteStep(p) \/ PromoterAbort(p)
    \/ \E s \in Stores, n \in Notif : Elapse(s, n)

Next ==
    \/ \E n \in Notif : CreateStep(n) \/ CreateAbort(n)
    \/ Backend
    \/ Idle /\ UNCHANGED vars

Spec == Init /\ [][Next]_vars

(* Every process goes on with the handler it is in, and the clock advances.  *)
(* A queued item is dequeued if workers keep dequeuing (the lists are FIFO), *)
(* and is let through if it keeps asking the rate limiter (a window never    *)
(* stays full: it is a new counter every second).                            *)
Fairness ==
    /\ \A n \in Notif : WF_vars(CreateStep(n))
    /\ \A x \in Cancellers : WF_vars(CancelStep(x))
    /\ \A w \in Workers : WF_vars(ProcessStep(w))
    /\ \A p \in Promoters : WF_vars(PromoteStep(p))
    /\ \A s \in Stores, n \in Notif : WF_vars(Elapse(s, n))
    /\ \A n \in Notif : SF_vars(\E w \in Workers : Dequeue(w, n))
    /\ \A n \in Notif : SF_vars(\E w \in Workers : wid[w] = n /\ Limit(w, "allowed"))

FairSpec == Spec /\ Fairness

-----------------------------------------------------------------------------
(* Types, by owner of the variables *)

RowTypes ==
    /\ status   \in [Notif -> Statuses \cup {"absent"}]
    /\ attempts \in [Notif -> Nat]
    /\ audit    \in [Notif -> Nat]

RedisTypes ==
    /\ queue \in [Notif -> Nat]
    /\ zset  \in [Stores -> [Notif -> {"absent", "waiting", "due"}]]
    /\ dlq   \in [Notif -> Nat]
    /\ idem  \in [Keys -> Notif \cup {None}]

CreateTypes ==
    /\ cpc     \in [Notif -> {"lookup", "build", "claim", "recall", "fetch",
                              "insert", "place", "confirm", "done"}]
    /\ outcome \in [Notif -> {"none", "ok", "notfound", "duplicate",
                              "invalid", "notemplate", "error"}]
    /\ answer  \in [Notif -> Notif \cup {None}]
    /\ \A n \in Notif :
           /\ cpc[n] \in {"lookup", "claim", "recall"} => KeyOf[n] # None
           /\ cpc[n] = "fetch" => answer[n] # None

CancelTypes ==
    /\ xpc  \in [Cancellers -> {"idle", "dequeue", "unschedule", "commit"}]
    /\ xid  \in [Cancellers -> Notif \cup {None}]
    /\ xatt \in [Cancellers -> Nat]
    /\ \A x \in Cancellers : xpc[x] = "idle" <=> xid[x] = None

WorkerTypes ==
    /\ wpc  \in [Workers -> {"idle", "get", "limit", "throttle", "mark", "send",
                             "logDelivered", "deliver", "logFailed", "bury",
                             "fail", "requeue", "schedule"}]
    /\ wid  \in [Workers -> Notif \cup {None}]
    /\ watt \in [Workers -> Nat]
    /\ \A w \in Workers : wpc[w] = "idle" <=> wid[w] = None

PromoterTypes ==
    /\ ptodo \in [Promoters -> SUBSET Notif]
    /\ pheld \in [Promoters -> Notif \cup {None}]

HistoryTypes ==
    /\ sends     \in [Notif -> Nat]
    /\ confirmed \in [Notif -> BOOLEAN]
    /\ cancelReq \in [Notif -> BOOLEAN]

\* The rows, the stores and the locals have the types their handlers rely on:
\* a process that is in a handler has an item, and one that is not has none.
TypeOK ==
    /\ RowTypes /\ RedisTypes /\ CreateTypes /\ CancelTypes
    /\ WorkerTypes /\ PromoterTypes /\ HistoryTypes
    /\ faults \in 0..MaxFaults

-----------------------------------------------------------------------------
(* Safety *)

\* A notification has one work item and the item is in one place: however the
\* handlers interleave, retry and fail, no two workers ever process the same
\* notification and no list or sorted set holds a second copy of it.
SingleToken ==
    \A n \in Notif :
        /\ queue[n] <= 1
        /\ \A x \in Place : Holds(x, n) =>
               \A y \in Place : Holds(y, n) => x = y

Dropped(n) == Exists(n) /\ ~confirmed[n] /\ dlq[n] = 0 /\ ~Live(n)

Lost == {n \in Notif : Dropped(n) /\ ~cancelReq[n]}

\* A failure loses the item it strikes and no other: however many calls have failed
\* and handlers have died, no more notifications are lost, without an acceptance, a
\* dead letter or a cancel request.  Without failures none is.
LossesBounded == Cardinality(Lost) <= faults

\* The first attempt is made whatever MAX_RETRY_ATTEMPTS says.
Budget == IF MaxAttempts < 1 THEN 1 ELSE MaxAttempts

\* The retry budget without failures: a scheduled notification is sent at most
\* MaxAttempts times.  An immediate one may be sent up to MaxAttempts - 1 times
\* more, because the request that created it resets its attempts to 0 after
\* the workers can see it.
SendsBounded ==
    faults = 0 =>
        \A n \in Notif :
            sends[n] <= IF n \in FutureDated THEN Budget ELSE 2 * Budget - 1

\* Calls between the answer of the provider and the write of the row.
Recording ==
    {"logDelivered", "deliver", "logFailed", "bury", "fail", "requeue"}

\* The row of a scheduled notification counts its delivery_attempts, unless a
\* worker is recording one, a cancel raced or a write failed.
AttemptsMatchAudit ==
    faults = 0 =>
        \A n \in FutureDated :
            \/ cancelReq[n]
            \/ \E w \in Workers : wid[w] = n /\ wpc[w] \in Recording
            \/ attempts[n] = audit[n]

\* Once the item of a scheduled notification is gone, its row says why: it is
\* delivered if the provider accepted it, and otherwise failed and in the DLQ
\* exactly once (no failures, no cancel).
RowTellsOutcome ==
    faults = 0 =>
        \A n \in FutureDated :
            Exists(n) /\ ~Live(n) /\ ~cancelReq[n] =>
                IF confirmed[n] THEN status[n] = "delivered" /\ dlq[n] = 0
                                ELSE status[n] = "failed" /\ dlq[n] = 1

\* Two create requests with the same key that both succeed return the same
\* notification, even if the key expires in Redis between them.
SameKeySameNotification ==
    \A m, n \in Notif :
        /\ KeyOf[m] # None /\ KeyOf[m] = KeyOf[n]
        /\ outcome[m] = "ok" /\ outcome[n] = "ok"
        => answer[m] = answer[n]

-----------------------------------------------------------------------------
(* Steps *)

\* Processes that checked the row of n and act on what they read.
Writers(n) == {x \in Cancellers : xid[x] = n}
                  \cup {w \in Workers : wid[w] = n /\ wpc[w] # "get"}

Settled(n) == /\ status[n] \in {"delivered", "failed", "cancelled"}
              /\ cpc[n] = "done" /\ Writers(n) = {}

\* A notification that is delivered, failed or cancelled, with no handler still
\* acting on an older read, stays so: no leftover item, retry, duplicate or
\* cancel request ever starts to work on it again.
SettledIsFinal ==
    [][\A n \in Notif : Settled(n) =>
           /\ Settled(n)'
           /\ status'[n] = status[n] /\ attempts'[n] = attempts[n]
           /\ sends'[n] = sends[n]]_vars

\* A promoter takes an item out of its sorted set only when it is due.
PromotedOnlyWhenDue ==
    [][\A p \in Promoters, n \in Notif :
        pheld[p] # n /\ pheld'[p] = n => zset[Source[p]][n] = "due"]_vars

\* The abstract contract: delivered once and never tried again, dead only
\* after MaxAttempts tries and never tried again, dropped only with an excuse.
Phase(n) == CASE ~Exists(n)                  -> "none"
              [] Exists(n) /\ confirmed[n]   -> "delivered"
              [] Exists(n) /\ ~confirmed[n] /\ dlq[n] > 0 -> "dead"
              [] Dropped(n)                  -> "dropped"
              [] OTHER                       -> "live"

DC == INSTANCE DeliveryContract WITH
          phase   <- [n \in Notif |-> Phase(n)],
          tries   <- sends,
          excused <- [n \in Notif |-> cancelReq[n] \/ faults > 0]

Contract == DC!Contract

-----------------------------------------------------------------------------
(* Liveness, without failures *)

\* Every stored notification is eventually accepted by the provider or
\* dead-lettered, unless its cancellation was requested.
EventuallyResolved ==
    \A n \in Notif :
        Exists(n) ~> confirmed[n] \/ dlq[n] > 0 \/ cancelReq[n]

\* The row of a stored scheduled notification ends up delivered, failed or
\* cancelled and stays so, whatever cancel requests and retries race.
ScheduledSettles ==
    \A n \in FutureDated :
        Exists(n) ~> [](status[n] \in {"delivered", "failed", "cancelled"})

-----------------------------------------------------------------------------
(* What the documentation says and the code does not do *)

\* README, status lifecycle: no arrow leaves delivered.
DeliveredIsFinal ==
    [][\A n \in Notif :
        status[n] = "delivered" => status'[n] = "delivered"]_vars

\* Design 6.4: a duplicate key returns the original notification.
DuplicateReturnsOriginal ==
    \A n \in Notif : outcome[n] \notin {"notfound", "duplicate"}

\* Process skips a cancelled notification: cancelled stays cancelled.
CancelledNotSent ==
    [][\A n \in Notif :
        status[n] = "cancelled" => sends'[n] = sends[n]]_vars
=============================================================================
